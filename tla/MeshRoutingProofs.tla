------------------------- MODULE MeshRoutingProofs -------------------------
(***************************************************************************)
(* Proofs about MeshRouting for any network, routes, traffic, losses and   *)
(* restarts: types, where HELLOs get, that a TC is taken for new once, and *)
(* that direct unicast data is delivered once.                             *)
(***************************************************************************)
EXTENDS MeshRouting, TLAPS

---------------------------------------------------------------------------
(* The link *)

\* The copies of a frame that n sends.
Copies(n, dst, hops, msg) ==
    {[to |-> m, dst |-> dst, hops |-> hops, msg |-> msg] : m \in Hears[n]}

\* What a transmission adds to the channels: one of each copy that found room.
LEMMA SentAdds ==
    ASSUME NEW chans, NEW n, NEW dst, NEW hops, NEW msg
    PROVE  \E added \in SUBSET Copies(n, dst, hops, msg) :
               Sent(chans, n, dst, hops, msg) = chans (+) SetToBag(added)
  BY DEF Sent, Copies

\* A bag with one more of each element of S.
LEMMA AddedSet ==
    ASSUME NEW chans, NEW S
    PROVE  /\ DOMAIN (chans (+) SetToBag(S)) = DOMAIN chans \cup S
           /\ \A g \in DOMAIN chans : g \notin S =>
                  (chans (+) SetToBag(S))[g] = chans[g] + 0
  BY DEF (+), SetToBag

\* A frame that is new in the channels is a copy of what was sent.
LEMMA SentFrames ==
    ASSUME NEW chans, NEW n, NEW dst, NEW hops, NEW msg,
           NEW g \in DOMAIN Sent(chans, n, dst, hops, msg)
    PROVE  \/ g \in DOMAIN chans
           \/ g.to \in Hears[n] /\ g.dst = dst /\ g.hops = hops /\ g.msg = msg
  <1>1. PICK added \in SUBSET Copies(n, dst, hops, msg) :
            Sent(chans, n, dst, hops, msg) = chans (+) SetToBag(added)
    BY SentAdds
  <1>2. g \in DOMAIN chans \cup added
    BY <1>1, AddedSet
  <1> QED
    BY <1>2 DEF Copies

\* Taking a frame out adds none.
LEMMA TakenFrames ==
    ASSUME NEW f
    PROVE  DOMAIN Taken(f) \subseteq DOMAIN rx
  BY DEF Taken, SetToBag, (-)

\* g is what the receiver of f sends on.
Relayed(f, g) ==
    /\ g.msg = f.msg /\ g.to \in Hears[f.to]
    /\ \/ Rebroadcasts(f) /\ g.dst = BROADCAST /\ g.hops = f.hops + 1
       \/ f.msg.kind = "OlsrTc" /\ ~IsOldTc(f) /\ g.dst = BROADCAST /\ g.hops = 0
       \/ f.msg.kind = "Data" /\ f.dst \in HasRoute[f.to] /\ g.dst = f.dst /\ g.hops = 0

\* A frame that is new after an iteration of rx_loop is a relayed one.
LEMMA ReceivedFrames ==
    ASSUME NEW f, Receive(f), NEW g \in DOMAIN rx'
    PROVE  g \in DOMAIN rx \/ Relayed(f, g)
  <1>1. \A x \in DOMAIN Taken(f) : x \in DOMAIN rx
    BY TakenFrames
  <1>2. \A x \in DOMAIN AfterRebroadcast(f) : x \in DOMAIN rx \/ Relayed(f, x)
    <2>1. CASE Rebroadcasts(f)
      <3>1. AfterRebroadcast(f) = Sent(Taken(f), f.to, BROADCAST, f.hops + 1, f.msg)
        BY <2>1 DEF AfterRebroadcast
      <3> QED
        BY <1>1, <2>1, <3>1, SentFrames DEF Relayed
    <2>2. CASE ~Rebroadcasts(f)
      BY <1>1, <2>2 DEF AfterRebroadcast
    <2> QED
      BY <2>1, <2>2
  <1>3. CASE rx' = AfterRebroadcast(f)
    BY <1>2, <1>3
  <1>4. CASE RxTcNew(f)
    <2>1. rx' = Sent(AfterRebroadcast(f), f.to, BROADCAST, 0, f.msg)
      BY <1>4 DEF RxTcNew
    <2>2. \/ g \in DOMAIN AfterRebroadcast(f)
          \/ g.to \in Hears[f.to] /\ g.dst = BROADCAST /\ g.hops = 0 /\ g.msg = f.msg
      BY <2>1, SentFrames
    <2> QED
      BY <1>2, <1>4, <2>2 DEF RxTcNew, Relayed
  <1>5. CASE RxDataTransit(f)
    <2>1. CASE f.dst \in HasRoute[f.to]
      <3>1. rx' = Sent(Taken(f), f.to, f.dst, 0, f.msg)
        BY <1>5, <2>1 DEF RxDataTransit
      <3>2. \/ g \in DOMAIN Taken(f)
            \/ g.to \in Hears[f.to] /\ g.dst = f.dst /\ g.hops = 0 /\ g.msg = f.msg
        BY <3>1, SentFrames
      <3> QED
        BY <1>1, <1>5, <2>1, <3>2 DEF RxDataTransit, Relayed
    <2>2. CASE f.dst \notin HasRoute[f.to]
      BY <1>1, <1>5, <2>2 DEF RxDataTransit
    <2> QED
      BY <2>1, <2>2
  <1> QED
    BY <1>3, <1>4, <1>5 DEF Receive, RxHello, RxTcOld, RxDataLocal

\* g is a copy of a new message.
Originated(g) ==
    \E t \in Traffic :
        /\ g.to \in Hears[t[1]] /\ g.hops = 0
        /\ \/ g.dst = BROADCAST /\ t[3] = BROADCAST /\ g.msg = Message(t[1], t[2], 0)
              /\ t[2] # "OlsrTc"
           \/ /\ g.dst = BROADCAST /\ g.msg = Message(t[1], "OlsrTc", tcSeq[t[1]] + 1)
              /\ tcSeq' = [tcSeq EXCEPT ![t[1]] = tcSeq[t[1]] + 1]
           \/ /\ g.dst = t[3] /\ t[3] # BROADCAST /\ t[3] \in HasRoute[t[1]]
              /\ g.msg = Message(t[1], "Data", 0)

\* A frame that is new after a message was originated is a copy of it.
LEMMA OriginatedFrames ==
    ASSUME Originate, NEW g \in DOMAIN rx'
    PROVE  g \in DOMAIN rx \/ Originated(g)
  <1>1. PICK t \in Traffic :
            \/ t[2] = "OlsrTc" /\ SendTc(t[1])
            \/ t[3] = BROADCAST /\ SendBroadcast(t[1], t[2])
            \/ t[3] # BROADCAST /\ SendUnicast(t[1], t[3])
    BY DEF Originate
  <1>2. CASE SendTc(t[1])
    <2>1. rx' = Sent(rx, t[1], BROADCAST, 0, Message(t[1], "OlsrTc", tcSeq[t[1]] + 1))
      BY <1>2 DEF SendTc
    <2>2. tcSeq' = [tcSeq EXCEPT ![t[1]] = tcSeq[t[1]] + 1]
      BY <1>2 DEF SendTc
    <2>3. \/ g \in DOMAIN rx
          \/ /\ g.to \in Hears[t[1]] /\ g.dst = BROADCAST /\ g.hops = 0
             /\ g.msg = Message(t[1], "OlsrTc", tcSeq[t[1]] + 1)
      BY <2>1, SentFrames
    <2> QED
      BY <2>2, <2>3, Zenon DEF Originated
  <1>3. CASE t[3] = BROADCAST /\ SendBroadcast(t[1], t[2])
    <2>1. rx' = Sent(rx, t[1], BROADCAST, 0, Message(t[1], t[2], 0)) /\ t[2] # "OlsrTc"
      BY <1>3 DEF SendBroadcast
    <2> QED
      BY <1>3, <2>1, SentFrames DEF Originated
  <1>4. CASE t[3] # BROADCAST /\ SendUnicast(t[1], t[3])
    <2>1. CASE t[3] \in HasRoute[t[1]]
      <3>1. rx' = Sent(rx, t[1], t[3], 0, Message(t[1], "Data", 0))
        BY <1>4, <2>1 DEF SendUnicast
      <3> QED
        BY <1>4, <2>1, <3>1, SentFrames DEF Originated
    <2>2. CASE t[3] \notin HasRoute[t[1]]
      BY <1>4, <2>2 DEF SendUnicast
    <2> QED
      BY <2>1, <2>2
  <1> QED
    BY <1>1, <1>2, <1>3, <1>4

---------------------------------------------------------------------------
(* Types *)

\* Messages carry the node and the counter of tc_loop they come from.
MessagesNamed == \A f \in DOMAIN rx : f.msg.origin \in Nodes /\ f.msg.seq \in Nat

MeshInv == TypeOK /\ MessagesNamed

\* A new message has the next number, and its frames name nodes.
LEMMA OriginateKeepsTypes ==
    ASSUME MeshConstants, MeshInv, Originate
    PROVE  MeshInv'
  <1>1. /\ originated' = originated + 1 /\ originated < MaxMsgs
        /\ UNCHANGED <<neighbors, last_tc_seq, floods, delivered>>
    BY DEF Originate, SendTc, SendBroadcast, SendUnicast
  <1>2. originated \in 0 .. MaxMsgs /\ tcSeq \in [Nodes -> Nat]
    BY DEF MeshInv, TypeOK
  <1>3. originated' \in 0 .. MaxMsgs /\ \A k \in 1 .. originated : k \in 1 .. originated'
    BY <1>1, <1>2 DEF MeshConstants
  <1>4. \A t \in Traffic : /\ t[1] \in Nodes /\ t[2] \in Kinds
                           /\ t[3] \in Nodes \cup {BROADCAST}
    BY DEF MeshConstants
  <1>5. tcSeq' \in [Nodes -> Nat]
    <2>1. UNCHANGED tcSeq \/ \E n \in Nodes : tcSeq' = [tcSeq EXCEPT ![n] = tcSeq[n] + 1]
      BY <1>4 DEF Originate, SendTc, SendBroadcast, SendUnicast
    <2> QED
      BY <1>2, <2>1
  <1>6. ASSUME NEW g \in DOMAIN rx'
        PROVE  /\ g.to \in Nodes /\ g.dst \in Nodes \cup {BROADCAST}
               /\ g.hops \in 0 .. MAX_HOPS
               /\ g.msg.kind \in Kinds /\ g.msg.num \in 1 .. originated'
               /\ g.msg.origin \in Nodes /\ g.msg.seq \in Nat
    <2>1. CASE g \in DOMAIN rx
      BY <1>3, <2>1 DEF MeshInv, TypeOK, MessagesNamed, BagToSet
    <2>2. CASE Originated(g)
      <3>1. PICK t \in Traffic, kind \in Kinds, seq \in Nat :
                /\ g.to \in Hears[t[1]] /\ g.hops = 0 /\ g.dst \in {BROADCAST, t[3]}
                /\ g.msg = Message(t[1], kind, seq)
        <4>1. PICK t \in Traffic :
                  /\ g.to \in Hears[t[1]] /\ g.hops = 0 /\ g.dst \in {BROADCAST, t[3]}
                  /\ \/ g.msg = Message(t[1], t[2], 0)
                     \/ g.msg = Message(t[1], "OlsrTc", tcSeq[t[1]] + 1)
                     \/ g.msg = Message(t[1], "Data", 0)
          BY <2>2 DEF Originated
        <4>2. 0 \in Nat /\ tcSeq[t[1]] + 1 \in Nat
          BY <1>2, <1>4
        <4>3. {"OlsrTc", "Data", t[2]} \subseteq Kinds
          BY <1>4 DEF Kinds
        <4> QED
          BY <4>1, <4>2, <4>3
      <3>2. /\ g.msg.kind = kind /\ g.msg.origin = t[1] /\ g.msg.seq = seq
            /\ g.msg.num = originated + 1
        BY <3>1 DEF Message
      <3>3. originated + 1 \in 1 .. originated'
        BY <1>1, <1>2
      <3>4. 0 \in 0 .. MAX_HOPS /\ Hears[t[1]] \subseteq Nodes
        BY <1>4 DEF MeshConstants
      <3> QED
        BY <1>4, <3>1, <3>2, <3>3, <3>4
    <2> QED
      BY <2>1, <2>2, OriginatedFrames
  <1> QED
    BY <1>1, <1>3, <1>5, <1>6 DEF MeshInv, TypeOK, MessagesNamed, BagToSet

\* The history counters stay counters.
LEMMA CountUpCounts ==
    ASSUME NEW h \in Counts, NEW n \in Nodes, NEW m \in 1 .. MaxMsgs
    PROVE  CountUp(h, n, m) \in Counts
  <1>1. h[n][m] \in 0 .. 2
    BY DEF Counts
  <1>2. (IF h[n][m] < 2 THEN h[n][m] + 1 ELSE 2) \in 0 .. 2
    BY <1>1
  <1> QED
    BY <1>2 DEF CountUp, Counts

\* A relayed frame is within the hop limit, and the receiver's tables name others.
LEMMA ReceiveKeepsTypes ==
    ASSUME MeshConstants, MeshInv, NEW f \in DOMAIN rx, Receive(f)
    PROVE  MeshInv'
  <1>1. /\ f.to \in Nodes /\ f.dst \in Nodes \cup {BROADCAST} /\ f.hops \in 0 .. MAX_HOPS
        /\ f.msg.kind \in Kinds /\ f.msg.num \in 1 .. originated
        /\ f.msg.origin \in Nodes /\ f.msg.seq \in Nat
    BY DEF MeshInv, TypeOK, MessagesNamed, BagToSet
  <1>2. UNCHANGED <<tcSeq, originated>>
    BY
    DEF Receive, RxHello, RxTcOld, RxTcNew, RxDataLocal,
        RxDataTransit
  <1>3. /\ originated \in 0 .. MaxMsgs /\ tcSeq \in [Nodes -> Nat]
        /\ neighbors \in [Nodes -> SUBSET Nodes] /\ \A n \in Nodes : n \notin neighbors[n]
        /\ last_tc_seq \in [Nodes -> [Nodes -> Nat]] /\ \A n \in Nodes : last_tc_seq[n][n] = 0
        /\ floods \in Counts /\ delivered \in Counts
    BY DEF MeshInv, TypeOK
  <1>4. f.msg.num \in 1 .. MaxMsgs
    BY <1>1, <1>3 DEF MeshConstants
  <1>5. ASSUME NEW g \in DOMAIN rx'
        PROVE  /\ g.to \in Nodes /\ g.dst \in Nodes \cup {BROADCAST}
               /\ g.hops \in 0 .. MAX_HOPS
               /\ g.msg.kind \in Kinds /\ g.msg.num \in 1 .. originated
               /\ g.msg.origin \in Nodes /\ g.msg.seq \in Nat
    <2>1. CASE g \in DOMAIN rx
      BY <2>1 DEF MeshInv, TypeOK, MessagesNamed, BagToSet
    <2>2. CASE Relayed(f, g)
      <3>1. g.to \in Nodes
        BY <1>1, <2>2 DEF Relayed, MeshConstants
      <3>2. g.hops \in 0 .. MAX_HOPS
        BY <1>1, <2>2 DEF Relayed, Rebroadcasts, MeshConstants
      <3>3. g.msg = f.msg /\ g.dst \in {BROADCAST, f.dst}
        BY <2>2 DEF Relayed
      <3> QED
        BY <1>1, <3>1, <3>2, <3>3
    <2> QED
      BY <2>1, <2>2, ReceivedFrames
  <1>6. neighbors' \in [Nodes -> SUBSET Nodes] /\ \A n \in Nodes : n \notin neighbors'[n]
    <2>1. CASE neighbors' = [neighbors EXCEPT ![f.to] = @ \cup ({f.msg.origin} \ {f.to})]
      BY <1>1, <1>3, <2>1
    <2> QED
      BY <1>3, <2>1
      DEF Receive, RxHello, RxTcOld, RxTcNew, RxDataLocal,
          RxDataTransit
  <1>7. /\ last_tc_seq' \in [Nodes -> [Nodes -> Nat]]
        /\ \A n \in Nodes : last_tc_seq'[n][n] = 0
    <2>1. CASE RxTcNew(f)
      <3>1. f.msg.origin # f.to
        BY <2>1 DEF RxTcNew, IsOldTc
      <3>2. last_tc_seq' = [last_tc_seq EXCEPT ![f.to][f.msg.origin] = f.msg.seq]
        BY <2>1 DEF RxTcNew
      <3> QED
        BY <1>1, <1>3, <3>1, <3>2
    <2> QED
      BY <1>3, <2>1
      DEF Receive, RxHello, RxTcOld, RxDataLocal, RxDataTransit
  <1>8. floods' \in Counts /\ delivered' \in Counts
    <2>1. CASE floods' = CountUp(floods, f.to, f.msg.num) /\ UNCHANGED delivered
      BY <1>1, <1>3, <1>4, <2>1, CountUpCounts
    <2>2. CASE delivered' = CountUp(delivered, f.to, f.msg.num) /\ UNCHANGED floods
      BY <1>1, <1>3, <1>4, <2>2, CountUpCounts
    <2> QED
      BY <1>3, <2>1, <2>2
      DEF Receive, RxHello, RxTcOld, RxTcNew, RxDataLocal,
          RxDataTransit
  <1> QED
    BY <1>2, <1>3, <1>5, <1>6, <1>7, <1>8 DEF MeshInv, TypeOK, MessagesNamed, BagToSet

\* A restart empties the node's tables.
LEMMA RestartKeepsTypes ==
    ASSUME MeshConstants, MeshInv, NEW n \in Nodes, Restart(n)
    PROVE  MeshInv'
  <1>1. tcSeq' \in [Nodes -> Nat] /\ neighbors' \in [Nodes -> SUBSET Nodes]
    BY DEF Restart, MeshInv, TypeOK
  <1>2. \A m \in Nodes : m \notin neighbors'[m]
    BY DEF Restart, MeshInv, TypeOK
  <1>3. [s \in Nodes |-> 0] \in [Nodes -> Nat] /\ \A m \in Nodes : [s \in Nodes |-> 0][m] = 0
    OBVIOUS
  <1>4. /\ last_tc_seq' \in [Nodes -> [Nodes -> Nat]]
        /\ \A m \in Nodes : last_tc_seq'[m][m] = 0
    BY <1>3 DEF Restart, MeshInv, TypeOK
  <1>5. floods' \in Counts
    <2>1. [m \in 1 .. MaxMsgs |-> 0] \in [1 .. MaxMsgs -> 0 .. 2]
      OBVIOUS
    <2> QED
      BY <2>1 DEF Restart, MeshInv, TypeOK, Counts
  <1>6. UNCHANGED <<rx, originated, delivered>>
    BY DEF Restart
  <1> QED
    BY <1>1, <1>2, <1>4, <1>5, <1>6 DEF MeshInv, TypeOK, MessagesNamed

\* A lost frame is gone.
LEMMA LoseKeepsTypes ==
    ASSUME MeshInv, NEW f \in DOMAIN rx, Lose(f)
    PROVE  MeshInv'
  <1>1. DOMAIN rx' \subseteq DOMAIN rx
    BY TakenFrames DEF Lose
  <1> QED
    BY <1>1 DEF Lose, MeshInv, TypeOK, MessagesNamed, BagToSet

\* The cases of Next.
LEMMA MeshSteps ==
    ASSUME MeshConstants, [Next]_vars
    PROVE  \/ Originate
           \/ \E n \in Nodes : Restart(n)
           \/ \E f \in DOMAIN rx : Lose(f) \/ Receive(f)
           \/ UNCHANGED vars
  BY DEF Next, RxLoop, MeshConstants, BagToSet

\* No frame is under way at the start.
LEMMA InitMeshInv == ASSUME MeshConstants, Init PROVE MeshInv
  BY DEF Init, MeshInv, TypeOK, MessagesNamed, EmptyBag, SetToBag, BagToSet, Counts,
         MeshConstants

\* Frames name nodes and numbers of their range in every reachable state.
LEMMA MeshInvariant == Spec => []MeshInv
  <1>1. Init => MeshInv
    BY MeshConstants, InitMeshInv
  <1>2. MeshInv /\ [Next]_vars => MeshInv'
    <2> SUFFICES ASSUME MeshInv, [Next]_vars PROVE MeshInv'
      OBVIOUS
    <2>1. CASE UNCHANGED vars
      BY <2>1 DEF vars, MeshInv, TypeOK, MessagesNamed
    <2> QED
      BY <2>1, MeshConstants, MeshSteps, OriginateKeepsTypes, RestartKeepsTypes, LoseKeepsTypes,
         ReceiveKeepsTypes
  <1> QED
    BY <1>1, <1>2, PTL DEF Spec

\* For any network, traffic, loss and restarts: no frame exceeds the hop limit of
\* rx_loop, no node enters itself into its neighbour table or takes its own TC.
THEOREM MeshTypeCorrect == Spec => []TypeOK
  BY MeshInvariant, PTL DEF MeshInv

---------------------------------------------------------------------------
(* The reach of a HELLO *)

\* The nodes that a chain of at most k transmissions from n reaches.
Within(n, k) ==
    {m \in Nodes : \E chain \in [0 .. k -> Nodes] :
        /\ chain[0] = n /\ chain[k] = m
        /\ \A i \in 1 .. k : chain[i] \in {chain[i - 1]} \cup Hears[chain[i - 1]]}

\* A neighbour table names only nodes whose frames reach it over at most
\* MAX_HOPS rebroadcasts.
NeighborsReach ==
    \A n, m \in Nodes : m \in neighbors[n] => n \in Within(m, MAX_HOPS + 1)

\* One more transmission, or none, reaches one step further ...
LEMMA WithinStep ==
    ASSUME NEW n \in Nodes, NEW k \in Nat, NEW m \in Within(n, k),
           NEW x \in Nodes, x \in {m} \cup Hears[m]
    PROVE  x \in Within(n, k + 1)
  <1>1. PICK chain \in [0 .. k -> Nodes] :
            /\ chain[0] = n /\ chain[k] = m
            /\ \A i \in 1 .. k : chain[i] \in {chain[i - 1]} \cup Hears[chain[i - 1]]
    BY DEF Within
  <1> DEFINE longer == [i \in 0 .. k + 1 |-> IF i <= k THEN chain[i] ELSE x]
  <1>2. longer \in [0 .. k + 1 -> Nodes] /\ longer[0] = n /\ longer[k + 1] = x
    BY <1>1
  <1>3. ASSUME NEW i \in 1 .. k + 1
        PROVE  longer[i] \in {longer[i - 1]} \cup Hears[longer[i - 1]]
    <2>1. CASE i \in 1 .. k
      <3>1. longer[i] = chain[i] /\ longer[i - 1] = chain[i - 1]
        BY <2>1
      <3> QED
        BY <1>1, <2>1, <3>1
    <2>2. CASE i = k + 1
      <3>1. longer[i] = x /\ longer[i - 1] = chain[k]
        BY <2>2
      <3> QED
        BY <1>1, <3>1
    <2> QED
      BY <2>1, <2>2
  <1> HIDE DEF longer
  <1> QED
    BY <1>2, <1>3 DEF Within

\* ... and what few transmissions reach, more do.
LEMMA WithinMore ==
    ASSUME NEW n \in Nodes, NEW k \in Nat, NEW l \in Nat, k <= l, NEW m \in Within(n, k)
    PROVE  m \in Within(n, l)
  <1>1. PICK chain \in [0 .. k -> Nodes] :
            /\ chain[0] = n /\ chain[k] = m
            /\ \A i \in 1 .. k : chain[i] \in {chain[i - 1]} \cup Hears[chain[i - 1]]
    BY DEF Within
  <1> DEFINE longer == [i \in 0 .. l |-> IF i <= k THEN chain[i] ELSE m]
  <1>2. m \in Nodes
    BY DEF Within
  <1>3. longer \in [0 .. l -> Nodes] /\ longer[0] = n /\ longer[l] = m
    BY <1>1, <1>2
  <1>4. ASSUME NEW i \in 1 .. l
        PROVE  longer[i] \in {longer[i - 1]} \cup Hears[longer[i - 1]]
    <2>1. CASE i \in 1 .. k
      <3>1. longer[i] = chain[i] /\ longer[i - 1] = chain[i - 1]
        BY <2>1
      <3> QED
        BY <1>1, <2>1, <3>1
    <2>2. CASE ~(i <= k)
      <3>1. longer[i] = m /\ longer[i - 1] = m
        BY <1>1, <2>2
      <3> QED
        BY <3>1
    <2> QED
      BY <2>1, <2>2
  <1> HIDE DEF longer
  <1> QED
    BY <1>2, <1>3, <1>4 DEF Within

\* The sender is there without any.
LEMMA WithinSelf == ASSUME NEW n \in Nodes PROVE n \in Within(n, 0)
  <1> DEFINE chain == [i \in 0 .. 0 |-> n]
  <1>1. chain \in [0 .. 0 -> Nodes] /\ chain[0] = n
    OBVIOUS
  <1>2. \A i \in 1 .. 0 : chain[i] \in {chain[i - 1]} \cup Hears[chain[i - 1]]
    OBVIOUS
  <1> HIDE DEF chain
  <1> QED
    BY <1>1, <1>2 DEF Within

\* A HELLO is as far from its origin as its hop count says.
HellosNear ==
    \A f \in DOMAIN rx : f.msg.kind = "OlsrHello" => f.to \in Within(f.msg.origin, f.hops + 1)

HelloInv == MeshInv /\ HellosNear /\ NeighborsReach

\* A new HELLO is at its sender's neighbours.
LEMMA OriginateKeepsHellos ==
    ASSUME MeshConstants, HelloInv, Originate
    PROVE  HellosNear' /\ NeighborsReach'
  <1>1. UNCHANGED neighbors
    BY DEF Originate, SendTc, SendBroadcast, SendUnicast
  <1>2. ASSUME NEW g \in DOMAIN rx', g.msg.kind = "OlsrHello"
        PROVE  g.to \in Within(g.msg.origin, g.hops + 1)
    <2>1. CASE g \in DOMAIN rx
      BY <1>2, <2>1 DEF HelloInv, HellosNear
    <2>2. CASE Originated(g)
      <3>1. PICK t \in Traffic :
                /\ g.to \in Hears[t[1]] /\ g.hops = 0
                /\ \/ g.msg = Message(t[1], t[2], 0)
                   \/ g.msg = Message(t[1], "OlsrTc", tcSeq[t[1]] + 1)
                   \/ g.msg = Message(t[1], "Data", 0)
        BY <2>2 DEF Originated
      <3>2. g.msg.origin = t[1]
        BY <3>1 DEF Message
      <3>3. t[1] \in Nodes /\ g.to \in Nodes
        BY <3>1 DEF MeshConstants
      <3>4. t[1] \in Within(t[1], 0)
        BY <3>3, WithinSelf
      <3>5. 0 \in Nat /\ g.to \in {t[1]} \cup Hears[t[1]]
        BY <3>1
      <3>6. g.to \in Within(t[1], 0 + 1)
        BY <3>3, <3>4, <3>5, WithinStep
      <3> QED
        BY <3>1, <3>2, <3>6
    <2> QED
      BY <2>1, <2>2, OriginatedFrames
  <1> QED
    BY <1>1, <1>2 DEF HelloInv, HellosNear, NeighborsReach

\* The receiver of a HELLO is within its reach, and so are those it sends it to.
LEMMA ReceiveKeepsHellos ==
    ASSUME MeshConstants, HelloInv, NEW f \in DOMAIN rx, Receive(f)
    PROVE  HellosNear' /\ NeighborsReach'
  <1>1. /\ f.to \in Nodes /\ f.hops \in 0 .. MAX_HOPS /\ f.msg.origin \in Nodes
        /\ neighbors \in [Nodes -> SUBSET Nodes] /\ MAX_HOPS \in Nat
    BY DEF HelloInv, MeshInv, TypeOK, MessagesNamed, BagToSet, MeshConstants
  <1>2. f.msg.kind = "OlsrHello" => f.to \in Within(f.msg.origin, f.hops + 1)
    BY DEF HelloInv, HellosNear
  <1>3. PICK h \in Nat : h = f.hops /\ h <= MAX_HOPS
    BY <1>1
  <1>4. ASSUME NEW g \in DOMAIN rx', g.msg.kind = "OlsrHello"
        PROVE  g.to \in Within(g.msg.origin, g.hops + 1)
    <2>1. CASE g \in DOMAIN rx
      BY <1>4, <2>1 DEF HelloInv, HellosNear
    <2>2. CASE Relayed(f, g)
      <3>1. g.msg = f.msg /\ g.to \in Hears[f.to] /\ g.hops = h + 1
        BY <1>3, <1>4, <2>2 DEF Relayed
      <3>2. g.to \in Nodes /\ h + 1 \in Nat /\ f.to \in Within(f.msg.origin, h + 1)
        BY <1>1, <1>2, <1>3, <1>4, <3>1 DEF MeshConstants
      <3>3. g.to \in Within(f.msg.origin, (h + 1) + 1)
        BY <1>1, <3>1, <3>2, WithinStep
      <3> QED
        BY <3>1, <3>3
    <2> QED
      BY <2>1, <2>2, ReceivedFrames
  <1>5. NeighborsReach'
    <2>1. CASE RxHello(f)
      <3>1. neighbors' = [neighbors EXCEPT ![f.to] = @ \cup ({f.msg.origin} \ {f.to})]
        BY <2>1 DEF RxHello
      <3>2. f.to \in Within(f.msg.origin, h + 1) /\ h + 1 <= MAX_HOPS + 1
        BY <1>1, <1>2, <1>3, <2>1 DEF RxHello
      <3>3. h + 1 \in Nat /\ MAX_HOPS + 1 \in Nat
        BY <1>1, <1>3
      <3>4. f.to \in Within(f.msg.origin, MAX_HOPS + 1)
        BY <1>1, <3>2, <3>3, WithinMore
      <3>5. \A n \in Nodes : \A m \in neighbors'[n] :
                m \in neighbors[n] \/ (n = f.to /\ m = f.msg.origin)
        BY <1>1, <3>1
      <3> QED
        BY <3>4, <3>5 DEF HelloInv, NeighborsReach
    <2>2. CASE UNCHANGED neighbors
      BY <2>2 DEF HelloInv, NeighborsReach
    <2> QED
      BY <2>1, <2>2
      DEF Receive, RxTcOld, RxTcNew, RxDataLocal, RxDataTransit
  <1> QED
    BY <1>4, <1>5 DEF HellosNear

\* Restarts and losses take entries and frames away.
LEMMA OthersKeepHellos ==
    ASSUME HelloInv, (\E n \in Nodes : Restart(n)) \/ (\E f \in DOMAIN rx : Lose(f))
    PROVE  HellosNear' /\ NeighborsReach'
  <1>1. neighbors \in [Nodes -> SUBSET Nodes]
    BY DEF HelloInv, MeshInv, TypeOK
  <1>2. DOMAIN rx' \subseteq DOMAIN rx
    BY TakenFrames DEF Restart, Lose
  <1>3. \A n \in Nodes : neighbors'[n] \subseteq neighbors[n]
    BY <1>1 DEF Restart, Lose
  <1> QED
    BY <1>2, <1>3 DEF HelloInv, HellosNear, NeighborsReach

\* How far NeighborsInRange can fail, for any network and any hop limit: every
\* receiver of a HELLO sends it on (rx_loop), so that tables name nodes out of
\* range, but none further than that many rebroadcasts away.
THEOREM HellosStayNear == Spec => []NeighborsReach
  <1>1. Init => HelloInv
    <2>1. Init => HellosNear /\ NeighborsReach
      BY DEF Init, HellosNear, NeighborsReach, EmptyBag, SetToBag
    <2> QED
      BY <2>1, MeshConstants, InitMeshInv DEF HelloInv
  <1>2. HelloInv /\ MeshInv' /\ [Next]_vars => HelloInv'
    <2> SUFFICES ASSUME HelloInv, MeshInv', [Next]_vars
                 PROVE  HellosNear' /\ NeighborsReach'
      BY DEF HelloInv
    <2>1. CASE UNCHANGED vars
      BY <2>1 DEF vars, HelloInv, HellosNear, NeighborsReach
    <2> QED
      BY <2>1, MeshConstants, MeshSteps, OriginateKeepsHellos, OthersKeepHellos,
         ReceiveKeepsHellos
  <1>3. HelloInv => NeighborsReach
    BY DEF HelloInv
  <1> QED
    BY <1>1, <1>2, <1>3, MeshInvariant, PTL DEF Spec

---------------------------------------------------------------------------
(* Each TC is taken for new once *)

\* A number stands for one message, whatever copies of it are under way.
NumbersAreUnique ==
    \A f, g \in DOMAIN rx : f.msg.num = g.msg.num => f.msg = g.msg

\* A counter of tc_loop, and what nodes have heard of it, is at most the number
\* of messages.
TcsAreCounted ==
    /\ \A n \in Nodes : tcSeq[n] <= originated
    /\ \A n, s \in Nodes : last_tc_seq[n][s] <= originated
    /\ \A f \in DOMAIN rx : f.msg.kind = "OlsrTc" => f.msg.seq \in 1 .. originated

\* What a node has taken for new is not newer than the number it remembers.
FloodedAreOld ==
    \A n \in Nodes, m \in 1 .. MaxMsgs : floods[n][m] # 0 =>
        /\ m <= originated
        /\ \A f \in DOMAIN rx : f.msg.kind = "OlsrTc" /\ f.msg.num = m =>
               f.msg.seq <= last_tc_seq[n][f.msg.origin]

TcInv == MeshInv /\ NumbersAreUnique /\ TcsAreCounted /\ FloodedAreOld /\ TcFloodedOnce

\* A new TC has the next number of its sender.
LEMMA OriginateKeepsTcs ==
    ASSUME MeshConstants, TcInv, Originate
    PROVE  /\ NumbersAreUnique' /\ TcsAreCounted'
                        /\ FloodedAreOld' /\ TcFloodedOnce'
  <1>1. /\ originated' = originated + 1
        /\ UNCHANGED <<last_tc_seq, floods>>
    BY DEF Originate, SendTc, SendBroadcast, SendUnicast
  <1>2. /\ originated \in Nat /\ tcSeq \in [Nodes -> Nat] /\ floods \in Counts
        /\ last_tc_seq \in [Nodes -> [Nodes -> Nat]]
        /\ \A f \in DOMAIN rx : f.msg.num \in 1 .. originated
    BY DEF TcInv, MeshInv, TypeOK, BagToSet
  <1>3. PICK n \in Nodes, kind \in Kinds, seq \in Nat :
            /\ kind = "OlsrTc" => seq = tcSeq[n] + 1
            /\ tcSeq' = tcSeq \/ tcSeq' = [tcSeq EXCEPT ![n] = tcSeq[n] + 1]
            /\ \A g \in DOMAIN rx' : g \in DOMAIN rx \/ g.msg = Message(n, kind, seq)
    <2>1. PICK t \in Traffic :
              \/ t[2] = "OlsrTc" /\ SendTc(t[1])
              \/ t[3] = BROADCAST /\ SendBroadcast(t[1], t[2])
              \/ t[3] # BROADCAST /\ SendUnicast(t[1], t[3])
      BY DEF Originate
    <2>2. t[1] \in Nodes /\ t[2] \in Kinds /\ {"OlsrTc", "Data"} \subseteq Kinds
      BY DEF MeshConstants, Kinds
    <2>3. CASE SendTc(t[1])
      <3>1. \A g \in DOMAIN rx' :
                g \in DOMAIN rx \/ g.msg = Message(t[1], "OlsrTc", tcSeq[t[1]] + 1)
        BY <2>3, SentFrames DEF SendTc
      <3>2. tcSeq[t[1]] + 1 \in Nat /\ tcSeq' = [tcSeq EXCEPT ![t[1]] = tcSeq[t[1]] + 1]
        BY <1>2, <2>2, <2>3 DEF SendTc
      <3> QED
        BY <2>2, <3>1, <3>2, Zenon
    <2>4. CASE SendBroadcast(t[1], t[2])
      <3>1. \A g \in DOMAIN rx' : g \in DOMAIN rx \/ g.msg = Message(t[1], t[2], 0)
        BY <2>4, SentFrames DEF SendBroadcast
      <3>2. t[2] # "OlsrTc" /\ tcSeq' = tcSeq /\ 0 \in Nat
        BY <2>4 DEF SendBroadcast
      <3> QED
        BY <2>2, <3>1, <3>2, Zenon
    <2>5. CASE SendUnicast(t[1], t[3])
      <3>1. \A g \in DOMAIN rx' : g \in DOMAIN rx \/ g.msg = Message(t[1], "Data", 0)
        BY <2>5, SentFrames DEF SendUnicast
      <3>2. "Data" # "OlsrTc" /\ tcSeq' = tcSeq /\ 0 \in Nat
        BY <2>5 DEF SendUnicast
      <3> QED
        BY <2>2, <3>1, <3>2, Zenon
    <2> QED
      BY <2>1, <2>3, <2>4, <2>5
  <1>4. PICK new : new = Message(n, kind, seq)
    OBVIOUS
  <1>5. new.num = originated + 1 /\ new.kind = kind /\ new.seq = seq
    BY <1>4 DEF Message
  <1>6. \A g \in DOMAIN rx' : g \in DOMAIN rx \/ g.msg = new
    BY <1>3, <1>4
  <1>7. NumbersAreUnique'
    <2>1. \A f \in DOMAIN rx : f.msg.num # new.num
      BY <1>2, <1>5
    <2> QED
      BY <1>6, <2>1 DEF TcInv, NumbersAreUnique
  <1>8. TcsAreCounted'
    <2>1. \A k \in Nat : k <= originated => k <= originated + 1
      BY <1>2
    <2>2. \A m \in Nodes : tcSeq'[m] <= originated'
      BY <1>1, <1>2, <1>3 DEF TcInv, TcsAreCounted
    <2>3. \A m, s \in Nodes : last_tc_seq'[m][s] <= originated'
      BY <1>1, <1>2, <2>1 DEF TcInv, TcsAreCounted
    <2>4. kind = "OlsrTc" => seq \in 1 .. originated'
      BY <1>1, <1>2, <1>3 DEF TcInv, TcsAreCounted
    <2>5. \A k \in 1 .. originated : k \in 1 .. originated'
      BY <1>1, <1>2
    <2>6. \A g \in DOMAIN rx' : g.msg.kind = "OlsrTc" => g.msg.seq \in 1 .. originated'
      BY <1>5, <1>6, <2>4, <2>5 DEF TcInv, TcsAreCounted
    <2> QED
      BY <2>2, <2>3, <2>6 DEF TcsAreCounted
  <1>9. FloodedAreOld'
    <2> SUFFICES ASSUME NEW x \in Nodes, NEW m \in 1 .. MaxMsgs, floods[x][m] # 0
                 PROVE  /\ m <= originated'
                        /\ \A g \in DOMAIN rx' : g.msg.kind = "OlsrTc" /\ g.msg.num = m =>
                               g.msg.seq <= last_tc_seq[x][g.msg.origin]
      BY <1>1 DEF FloodedAreOld
    <2>1. m <= originated
      BY DEF TcInv, FloodedAreOld
    <2>2. m <= originated' /\ m # new.num
      BY <1>1, <1>2, <1>5, <2>1
    <2>3. \A g \in DOMAIN rx' : g.msg.num = m => g \in DOMAIN rx
      BY <1>6, <2>2
    <2> QED
      BY <2>2, <2>3 DEF TcInv, FloodedAreOld
  <1>10. TcFloodedOnce'
    BY <1>1 DEF TcInv, TcFloodedOnce
  <1> QED
    BY <1>7, <1>8, <1>9, <1>10

\* The duplicate test refuses a number at or below the last one, as long as the
\* window is not exceeded, and so accepts only higher numbers.
LEMMA NewSeqIsHigher ==
    ASSUME NEW seq \in Nat, NEW last \in Nat, NEW window \in Nat,
           1 <= seq, last <= window, ~IsOldSeq(seq, last, window)
    PROVE  last < seq
  BY DEF IsOldSeq

\* A TC that process_tc takes was not sent on before.
LEMMA TcNewKeepsTcs ==
    ASSUME MeshConstants, MaxMsgs <= DupWindow, TcInv, NEW f \in DOMAIN rx, RxTcNew(f)
    PROVE  TcsAreCounted' /\ FloodedAreOld' /\ TcFloodedOnce'
  <1>1. /\ f.to \in Nodes /\ f.msg.origin \in Nodes /\ f.msg.seq \in Nat
        /\ f.msg.num \in 1 .. originated /\ originated \in 0 .. MaxMsgs
        /\ tcSeq \in [Nodes -> Nat] /\ floods \in Counts
        /\ last_tc_seq \in [Nodes -> [Nodes -> Nat]]
        /\ DupWindow \in Nat /\ MaxMsgs \in Nat
    BY DEF TcInv, MeshInv, TypeOK, MessagesNamed, BagToSet, MeshConstants
  <1>2. /\ f.msg.kind = "OlsrTc" /\ ~IsOldTc(f) /\ UNCHANGED <<tcSeq, originated>>
        /\ last_tc_seq' = [last_tc_seq EXCEPT ![f.to][f.msg.origin] = f.msg.seq]
        /\ floods' = CountUp(floods, f.to, f.msg.num)
    BY DEF RxTcNew
  <1>3. f.msg.seq \in 1 .. originated /\ last_tc_seq[f.to][f.msg.origin] <= originated
    BY <1>1, <1>2 DEF TcInv, TcsAreCounted
  <1>4. last_tc_seq[f.to][f.msg.origin] < f.msg.seq
    <2>1. PICK seq \in Nat, last \in Nat :
              seq = f.msg.seq /\ last = last_tc_seq[f.to][f.msg.origin]
      BY <1>1
    <2>2. 1 <= seq /\ last <= DupWindow
      BY <1>1, <1>3, <2>1
    <2>3. ~IsOldSeq(seq, last, DupWindow)
      BY <1>2, <2>1 DEF IsOldTc
    <2> QED
      BY <1>1, <2>1, <2>2, <2>3, NewSeqIsHigher
  <1>5. f.msg.num \in 1 .. MaxMsgs /\ floods[f.to][f.msg.num] = 0
    <2>1. f.msg.num \in 1 .. MaxMsgs
      BY <1>1
    <2>2. floods[f.to][f.msg.num] # 0 => f.msg.seq <= last_tc_seq[f.to][f.msg.origin]
      BY <1>1, <1>2, <2>1 DEF TcInv, FloodedAreOld
    <2> QED
      BY <1>1, <1>4, <2>1, <2>2
  <1>6. /\ floods'[f.to][f.msg.num] = 1
        /\ \A n \in Nodes, m \in 1 .. MaxMsgs :
               ~(n = f.to /\ m = f.msg.num) => floods'[n][m] = floods[n][m]
    BY <1>1, <1>2, <1>5 DEF CountUp, Counts
  <1>7. /\ last_tc_seq'[f.to][f.msg.origin] = f.msg.seq
        /\ \A n, s \in Nodes :
               ~(n = f.to /\ s = f.msg.origin) => last_tc_seq'[n][s] = last_tc_seq[n][s]
    BY <1>1, <1>2
  <1>8. \A n, s \in Nodes : last_tc_seq[n][s] <= last_tc_seq'[n][s]
    BY <1>1, <1>4, <1>7
  <1>9. \A g \in DOMAIN rx' : g \in DOMAIN rx \/ g.msg = f.msg
    BY ReceivedFrames DEF Receive, Relayed
  <1>10. TcsAreCounted'
    <2>1. \A n, s \in Nodes : last_tc_seq'[n][s] <= originated
      BY <1>1, <1>3, <1>7 DEF TcInv, TcsAreCounted
    <2>2. \A g \in DOMAIN rx' : g.msg.kind = "OlsrTc" => g.msg.seq \in 1 .. originated
      BY <1>3, <1>9 DEF TcInv, TcsAreCounted
    <2> QED
      BY <1>2, <2>1, <2>2 DEF TcInv, TcsAreCounted
  <1>11. FloodedAreOld'
    <2> SUFFICES ASSUME NEW n \in Nodes, NEW m \in 1 .. MaxMsgs, floods'[n][m] # 0
                 PROVE  /\ m <= originated
                        /\ \A g \in DOMAIN rx' : g.msg.kind = "OlsrTc" /\ g.msg.num = m =>
                               g.msg.seq <= last_tc_seq'[n][g.msg.origin]
      BY <1>2 DEF FloodedAreOld
    <2>1. \A g \in DOMAIN rx : g.msg.origin \in Nodes /\ g.msg.seq \in Nat
      BY DEF TcInv, MeshInv, MessagesNamed
    <2>2. CASE n = f.to /\ m = f.msg.num
      <3>1. m <= originated
        BY <1>1, <2>2
      <3>2. \A g \in DOMAIN rx' : g.msg.num = m => g.msg = f.msg
        BY <1>9, <2>2 DEF TcInv, NumbersAreUnique
      <3>3. f.msg.seq <= last_tc_seq'[n][f.msg.origin]
        BY <1>1, <1>7, <2>2
      <3> QED
        BY <3>1, <3>2, <3>3
    <2>3. CASE ~(n = f.to /\ m = f.msg.num)
      <3>1. floods[n][m] # 0
        BY <1>6, <2>3
      <3>2. m <= originated
        BY <3>1 DEF TcInv, FloodedAreOld
      <3>3. ASSUME NEW g \in DOMAIN rx, g.msg.kind = "OlsrTc", g.msg.num = m
            PROVE  g.msg.seq <= last_tc_seq'[n][g.msg.origin]
        <4>1. g.msg.seq <= last_tc_seq[n][g.msg.origin]
          BY <3>1, <3>3 DEF TcInv, FloodedAreOld
        <4>2. last_tc_seq[n][g.msg.origin] <= last_tc_seq'[n][g.msg.origin]
          BY <1>8, <2>1
        <4>3. last_tc_seq[n][g.msg.origin] \in Nat /\ last_tc_seq'[n][g.msg.origin] \in Nat
          BY <1>1, <1>2, <2>1
        <4> QED
          BY <2>1, <4>1, <4>2, <4>3
      <3> QED
        BY <1>9, <3>2, <3>3
    <2> QED
      BY <2>2, <2>3
  <1>12. TcFloodedOnce'
    <2>1. \A n \in Nodes, m \in 1 .. MaxMsgs : floods'[n][m] <= 1
      <3> TAKE n \in Nodes, m \in 1 .. MaxMsgs
      <3>1. CASE n = f.to /\ m = f.msg.num
        BY <1>6, <3>1
      <3>2. CASE ~(n = f.to /\ m = f.msg.num)
        BY <1>6, <3>2 DEF TcInv, TcFloodedOnce
      <3> QED
        BY <3>1, <3>2
    <2> QED
      BY <2>1 DEF TcFloodedOnce
  <1> QED
    BY <1>10, <1>11, <1>12

\* Every other frame leaves the TC state alone.
LEMMA ReceiveKeepsTcs ==
    ASSUME MeshConstants, MaxMsgs <= DupWindow, TcInv, NEW f \in DOMAIN rx, Receive(f)
    PROVE  /\ NumbersAreUnique' /\ TcsAreCounted'
                        /\ FloodedAreOld' /\ TcFloodedOnce'
  <1>1. \A g \in DOMAIN rx' : g \in DOMAIN rx \/ g.msg = f.msg
    BY ReceivedFrames DEF Relayed
  <1>2. NumbersAreUnique'
    BY <1>1 DEF TcInv, NumbersAreUnique
  <1>3. CASE RxTcNew(f)
    BY <1>2, <1>3, TcNewKeepsTcs
  <1>4. CASE UNCHANGED <<last_tc_seq, tcSeq, originated, floods>>
    <2>1. \A g \in DOMAIN rx' : \E h \in DOMAIN rx : g.msg = h.msg
      BY <1>1
    <2> QED
      BY <1>2, <1>4, <2>1 DEF TcInv, TcsAreCounted, FloodedAreOld, TcFloodedOnce
  <1> QED
    BY <1>3, <1>4
    DEF Receive, RxHello, RxTcOld, RxDataLocal, RxDataTransit

\* A restart forgets what the node sent on; a lost frame is gone.
LEMMA OthersKeepTcs ==
    ASSUME MeshConstants, TcInv,
           (\E n \in Nodes : Restart(n)) \/ (\E f \in DOMAIN rx : Lose(f))
    PROVE  /\ NumbersAreUnique' /\ TcsAreCounted'
                        /\ FloodedAreOld' /\ TcFloodedOnce'
  <1>1. CASE \E f \in DOMAIN rx : Lose(f)
    <2>1. /\ DOMAIN rx' \subseteq DOMAIN rx
          /\ UNCHANGED <<last_tc_seq, tcSeq, originated, floods>>
      BY <1>1, TakenFrames DEF Lose
    <2> QED
      BY <2>1 DEF TcInv, NumbersAreUnique, TcsAreCounted, FloodedAreOld, TcFloodedOnce
  <1>2. ASSUME NEW n \in Nodes, Restart(n)
        PROVE  /\ NumbersAreUnique' /\ TcsAreCounted'
                        /\ FloodedAreOld' /\ TcFloodedOnce'
    <2>1. /\ originated \in Nat /\ tcSeq \in [Nodes -> Nat] /\ floods \in Counts
          /\ last_tc_seq \in [Nodes -> [Nodes -> Nat]]
      BY DEF TcInv, MeshInv, TypeOK
    <2>2. UNCHANGED <<rx, originated>>
      BY <1>2 DEF Restart
    <2>3. tcSeq'[n] = 0 /\ \A m \in Nodes : m # n => tcSeq'[m] = tcSeq[m]
      BY <1>2, <2>1 DEF Restart
    <2>4. /\ \A s \in Nodes : last_tc_seq'[n][s] = 0
          /\ \A m \in Nodes : m # n => last_tc_seq'[m] = last_tc_seq[m]
      BY <1>2, <2>1 DEF Restart
    <2>5. /\ \A m \in 1 .. MaxMsgs : floods'[n][m] = 0
          /\ \A x \in Nodes : x # n => floods'[x] = floods[x]
      BY <1>2, <2>1 DEF Restart, Counts
    <2>6. 0 <= originated
      BY <2>1
    <2>7. TcsAreCounted'
      BY <2>2, <2>3, <2>4, <2>6 DEF TcInv, TcsAreCounted
    <2>8. FloodedAreOld'
      BY <2>2, <2>4, <2>5 DEF TcInv, FloodedAreOld
    <2>9. TcFloodedOnce'
      BY <2>5 DEF TcInv, TcFloodedOnce
    <2> QED
      BY <2>2, <2>7, <2>8, <2>9 DEF TcInv, NumbersAreUnique
  <1> QED
    BY <1>1, <1>2

\* As long as the counters stay within its duplicate window, process_tc takes a
\* given TC for new at most once in each run of a node, whatever copies of it arrive
\* in whatever order and whoever restarts in between: so a node starts at most one
\* flood of it with hop count 0.  (The copies that rx_loop rebroadcasts before
\* process_tc, of old TCs as well, are not counted.)
THEOREM TcsAreFloodedOnce ==
    ASSUME MaxMsgs <= DupWindow
    PROVE  Spec => []TcFloodedOnce
  <1>1. Init => TcInv
    <2>1. Init => NumbersAreUnique /\ TcsAreCounted /\ FloodedAreOld /\ TcFloodedOnce
      BY DEF Init, NumbersAreUnique, TcsAreCounted, FloodedAreOld, TcFloodedOnce,
             EmptyBag, SetToBag
    <2> QED
      BY <2>1, MeshConstants, InitMeshInv DEF TcInv
  <1>2. TcInv /\ MeshInv' /\ [Next]_vars => TcInv'
    <2> SUFFICES ASSUME TcInv, MeshInv', [Next]_vars
                 PROVE  /\ NumbersAreUnique' /\ TcsAreCounted'
                        /\ FloodedAreOld' /\ TcFloodedOnce'
      BY DEF TcInv
    <2>1. CASE UNCHANGED vars
      BY <2>1
      DEF vars, TcInv, NumbersAreUnique, TcsAreCounted, FloodedAreOld,
          TcFloodedOnce
    <2> QED
      BY <2>1, MeshConstants, MeshSteps, OriginateKeepsTcs, OthersKeepTcs, ReceiveKeepsTcs
  <1>3. TcInv => TcFloodedOnce
    BY DEF TcInv
  <1> QED
    BY <1>1, <1>2, <1>3, MeshInvariant, PTL DEF Spec

---------------------------------------------------------------------------
(* Data that nobody floods is handled once *)

\* No node in range of the sender of a unicast message has a route to its
\* destination: the case in which rx_loop relays none of its copies.
UnicastIsDirect ==
    \A t \in Traffic : t[3] # BROADCAST => \A n \in Hears[t[1]] : t[3] \notin HasRoute[n]

\* There is at most one copy of g in the channels.
Single(chans, g) == g \in DOMAIN chans => chans[g] = 1

\* A transmission of another message does not multiply g ...
LEMMA SentKeepsSingle ==
    ASSUME NEW chans, NEW n, NEW dst, NEW hops, NEW msg, NEW g, g.msg # msg, Single(chans, g)
    PROVE  Single(Sent(chans, n, dst, hops, msg), g)
  <1>1. PICK added \in SUBSET Copies(n, dst, hops, msg) :
            Sent(chans, n, dst, hops, msg) = chans (+) SetToBag(added)
    BY SentAdds
  <1>2. g \notin added
    BY DEF Copies
  <1>3. /\ DOMAIN (chans (+) SetToBag(added)) = DOMAIN chans \cup added
        /\ g \in DOMAIN chans => (chans (+) SetToBag(added))[g] = chans[g] + 0
    BY <1>2, AddedSet
  <1>4. 1 + 0 = 1
    OBVIOUS
  <1> QED
    BY <1>1, <1>2, <1>3, <1>4 DEF Single

\* ... and a transmission of a new message puts in single copies.
LEMMA SentIsSingle ==
    ASSUME NEW chans, NEW n, NEW dst, NEW hops, NEW msg,
           NEW g \in DOMAIN Sent(chans, n, dst, hops, msg), g \notin DOMAIN chans
    PROVE  /\ Sent(chans, n, dst, hops, msg)[g] = 1
           /\ g = [to |-> g.to, dst |-> dst, hops |-> hops, msg |-> msg]
  <1>1. PICK added \in SUBSET Copies(n, dst, hops, msg) :
            Sent(chans, n, dst, hops, msg) = chans (+) SetToBag(added)
    BY SentAdds
  <1>2. g \in added
    <2>1. DOMAIN (chans (+) SetToBag(added)) = DOMAIN chans \cup added
      BY DEF (+), SetToBag
    <2> QED
      BY <1>1, <2>1
  <1>3. (chans (+) SetToBag(added))[g] = 1
    BY <1>2 DEF (+), SetToBag
  <1> QED
    BY <1>1, <1>2, <1>3 DEF Copies

\* Taking f out takes a single f away and leaves the others.
LEMMA TakenSingle ==
    ASSUME NEW f
    PROVE  /\ f \in DOMAIN rx /\ rx[f] = 1 => f \notin DOMAIN Taken(f)
           /\ \A g : g # f /\ Single(rx, g) => Single(Taken(f), g)
  <1> DEFINE left == [e \in DOMAIN rx |-> IF e \in {f} THEN rx[e] - 1 ELSE rx[e]]
  <1>1. Taken(f) = [e \in {d \in DOMAIN left : left[d] > 0} |-> left[e]]
    BY DEF Taken, SetToBag, (-)
  <1>2. ~(1 - 1 > 0)
    OBVIOUS
  <1> QED
    BY <1>1, <1>2 DEF Single

\* A Data frame is the only one of its message at its node, will not be sent on,
\* and the node has not handled the message.
DataFramesAreSingle ==
    \A f \in DOMAIN rx : f.msg.kind = "Data" =>
        /\ rx[f] = 1
        /\ f.dst \notin HasRoute[f.to]
        /\ delivered[f.to][f.msg.num] = 0
        /\ \A g \in DOMAIN rx :
               g.msg.kind = "Data" /\ g.to = f.to /\ g.msg.num = f.msg.num => g = f

DeliveredExist ==
    \A n \in Nodes, m \in 1 .. MaxMsgs : delivered[n][m] # 0 => m <= originated

DataInv == MeshInv /\ DataFramesAreSingle /\ DeliveredExist /\ DataOnce

\* A new message is sent once to each node in range.
LEMMA OriginateKeepsData ==
    ASSUME MeshConstants, UnicastIsDirect, DataInv, Originate
    PROVE  DataFramesAreSingle' /\ DeliveredExist' /\ DataOnce'
  <1>1. originated' = originated + 1 /\ originated < MaxMsgs /\ UNCHANGED delivered
    BY DEF Originate, SendTc, SendBroadcast, SendUnicast
  <1>2. /\ originated \in Nat /\ MaxMsgs \in Nat
        /\ \A f \in DOMAIN rx : f.msg.num \in 1 .. originated
        /\ delivered \in Counts
    BY DEF DataInv, MeshInv, TypeOK, BagToSet, MeshConstants
  <1>3. PICK n, dst, new :
            /\ n \in Nodes /\ dst \in Nodes \cup {BROADCAST}
            /\ rx' = rx \/ rx' = Sent(rx, n, dst, 0, new)
            /\ new.num = originated + 1
            /\ \A x \in Hears[n] : dst \notin HasRoute[x]
    <2>1. PICK t \in Traffic :
              \/ t[2] = "OlsrTc" /\ SendTc(t[1])
              \/ t[3] = BROADCAST /\ SendBroadcast(t[1], t[2])
              \/ t[3] # BROADCAST /\ SendUnicast(t[1], t[3])
      BY DEF Originate
    <2>2. /\ t[1] \in Nodes /\ t[3] \in Nodes \cup {BROADCAST}
          /\ \A x \in Hears[t[1]] : BROADCAST \notin HasRoute[x]
      BY DEF MeshConstants
    <2>3. CASE SendTc(t[1])
      <3>1. PICK msg : msg = Message(t[1], "OlsrTc", tcSeq[t[1]] + 1)
        OBVIOUS
      <3>2. rx' = Sent(rx, t[1], BROADCAST, 0, msg) /\ msg.num = originated + 1
        BY <2>3, <3>1 DEF SendTc, Message
      <3> QED
        BY <2>2, <3>2
    <2>4. CASE SendBroadcast(t[1], t[2])
      <3>1. PICK msg : msg = Message(t[1], t[2], 0)
        OBVIOUS
      <3>2. rx' = Sent(rx, t[1], BROADCAST, 0, msg) /\ msg.num = originated + 1
        BY <2>4, <3>1 DEF SendBroadcast, Message
      <3> QED
        BY <2>2, <3>2
    <2>5. CASE t[3] # BROADCAST /\ SendUnicast(t[1], t[3])
      <3>1. PICK msg : msg = Message(t[1], "Data", 0)
        OBVIOUS
      <3>2. /\ rx' = rx \/ rx' = Sent(rx, t[1], t[3], 0, msg)
            /\ msg.num = originated + 1
        BY <2>5, <3>1 DEF SendUnicast, Message
      <3>3. \A x \in Hears[t[1]] : t[3] \notin HasRoute[x]
        BY <2>5 DEF UnicastIsDirect
      <3> QED
        BY <2>2, <3>2, <3>3
    <2> QED
      BY <2>1, <2>3, <2>4, <2>5
  <1>4. \A f \in DOMAIN rx : f.msg # new /\ f.msg.num # new.num
    BY <1>2, <1>3
  <1>5. \A g \in DOMAIN rx' : g \notin DOMAIN rx =>
            /\ rx'[g] = 1 /\ g = [to |-> g.to, dst |-> dst, hops |-> 0, msg |-> new]
            /\ g.to \in Hears[n]
    BY <1>3, SentIsSingle, SentFrames
  <1>6. \A g \in DOMAIN rx : g \in DOMAIN rx' /\ Single(rx, g) => rx'[g] = 1
    <2> SUFFICES ASSUME NEW g \in DOMAIN rx, g \in DOMAIN rx', Single(rx, g) PROVE rx'[g] = 1
      OBVIOUS
    <2>1. CASE rx' = rx
      BY <2>1 DEF Single
    <2>2. CASE rx' = Sent(rx, n, dst, 0, new)
      <3>1. Single(Sent(rx, n, dst, 0, new), g)
        BY <1>4, SentKeepsSingle
      <3> QED
        BY <2>2, <3>1 DEF Single
    <2> QED
      BY <1>3, <2>1, <2>2
  <1>7. DataFramesAreSingle'
    <2> SUFFICES ASSUME NEW f \in DOMAIN rx', f.msg.kind = "Data"
                 PROVE  /\ rx'[f] = 1 /\ f.dst \notin HasRoute[f.to]
                        /\ delivered[f.to][f.msg.num] = 0
                        /\ \A g \in DOMAIN rx' : /\ g.msg.kind = "Data" /\ g.to = f.to
                                                 /\ g.msg.num = f.msg.num
                                                 => g = f
      BY <1>1 DEF DataFramesAreSingle
    <2>1. CASE f \in DOMAIN rx
      <3>1. /\ rx[f] = 1 /\ f.dst \notin HasRoute[f.to] /\ delivered[f.to][f.msg.num] = 0
            /\ \A g \in DOMAIN rx :
                   g.msg.kind = "Data" /\ g.to = f.to /\ g.msg.num = f.msg.num => g = f
        BY <2>1 DEF DataInv, DataFramesAreSingle
      <3>2. rx'[f] = 1
        BY <1>6, <2>1, <3>1 DEF Single
      <3>3. \A g \in DOMAIN rx' : g.msg.num = f.msg.num => g \in DOMAIN rx
        <4>1. \A g \in DOMAIN rx' : g \notin DOMAIN rx => g.msg = new
          BY <1>5
        <4> QED
          BY <1>4, <2>1, <4>1
      <3> QED
        BY <3>1, <3>2, <3>3
    <2>2. CASE f \notin DOMAIN rx
      <3>1. /\ rx'[f] = 1 /\ f = [to |-> f.to, dst |-> dst, hops |-> 0, msg |-> new]
            /\ f.to \in Hears[n]
        BY <1>5, <2>2
      <3>2. f.msg = new /\ f.dst = dst
        BY <3>1
      <3>3. f.to \in Nodes /\ new.num \in 1 .. MaxMsgs /\ ~(new.num <= originated)
        BY <1>1, <1>2, <1>3, <3>1 DEF MeshConstants
      <3>4. delivered[f.to][new.num] = 0
        BY <3>3 DEF DataInv, DeliveredExist
      <3>5. ASSUME NEW g \in DOMAIN rx', g.to = f.to, g.msg.num = new.num PROVE g = f
        <4>1. g \notin DOMAIN rx
          BY <1>4, <3>5
        <4>2. g = [to |-> g.to, dst |-> dst, hops |-> 0, msg |-> new]
          BY <1>5, <4>1
        <4> QED
          BY <3>1, <3>5, <4>2
      <3> QED
        BY <1>3, <3>1, <3>2, <3>4, <3>5
    <2> QED
      BY <2>1, <2>2
  <1>8. DeliveredExist'
    <2>1. \A m \in 1 .. MaxMsgs : m <= originated => m <= originated'
      BY <1>1, <1>2
    <2> QED
      BY <1>1, <2>1 DEF DataInv, DeliveredExist
  <1>9. DataOnce'
    BY <1>1 DEF DataInv, DataOnce
  <1> QED
    BY <1>7, <1>8, <1>9

\* A HELLO or a TC is handled and sent on: Data frames are as they were.
LEMMA ControlKeepsData ==
    ASSUME DataInv, NEW f \in DOMAIN rx, f.msg.kind # "Data", Receive(f)
    PROVE  DataFramesAreSingle' /\ DeliveredExist' /\ DataOnce'
  <1>1. UNCHANGED <<delivered, originated>>
    BY
    DEF Receive, RxHello, RxTcOld, RxTcNew, RxDataLocal,
        RxDataTransit
  <1>2. \A g \in DOMAIN rx' : g \in DOMAIN rx \/ g.msg = f.msg
    BY ReceivedFrames DEF Relayed
  <1>3. ASSUME NEW g \in DOMAIN rx, g \in DOMAIN rx', g.msg.kind = "Data" PROVE rx'[g] = 1
    <2>1. g # f /\ g.msg # f.msg
      BY <1>3
    <2>2. Single(rx, g)
      BY <1>3 DEF DataInv, DataFramesAreSingle, Single
    <2>3. Single(Taken(f), g)
      BY <2>1, <2>2, TakenSingle
    <2>4. Single(AfterRebroadcast(f), g)
      <3>1. CASE Rebroadcasts(f)
        BY <2>1, <2>3, <3>1, SentKeepsSingle DEF AfterRebroadcast
      <3>2. CASE ~Rebroadcasts(f)
        BY <2>3, <3>2 DEF AfterRebroadcast
      <3> QED
        BY <3>1, <3>2
    <2>5. CASE rx' = AfterRebroadcast(f)
      BY <1>3, <2>4, <2>5 DEF Single
    <2>6. CASE rx' = Sent(AfterRebroadcast(f), f.to, BROADCAST, 0, f.msg)
      <3>1. Single(Sent(AfterRebroadcast(f), f.to, BROADCAST, 0, f.msg), g)
        BY <2>1, <2>4, SentKeepsSingle
      <3> QED
        BY <1>3, <2>6, <3>1 DEF Single
    <2> QED
      BY <2>5, <2>6
      DEF Receive, RxHello, RxTcOld, RxTcNew, RxDataLocal,
          RxDataTransit
  <1>4. ASSUME NEW g \in DOMAIN rx', g.msg.kind = "Data" PROVE g \in DOMAIN rx
    BY <1>2, <1>4
  <1> QED
    BY <1>1, <1>3, <1>4 DEF DataInv, DataFramesAreSingle, DeliveredExist, DataOnce

\* A Data message is handled, or dropped in transit: its only frame is gone.
LEMMA DataKeepsData ==
    ASSUME MeshConstants, DataInv, NEW f \in DOMAIN rx, f.msg.kind = "Data", Receive(f)
    PROVE  DataFramesAreSingle' /\ DeliveredExist' /\ DataOnce'
  <1>1. /\ rx[f] = 1 /\ f.dst \notin HasRoute[f.to] /\ delivered[f.to][f.msg.num] = 0
        /\ \A g \in DOMAIN rx :
               g.msg.kind = "Data" /\ g.to = f.to /\ g.msg.num = f.msg.num => g = f
    BY DEF DataInv, DataFramesAreSingle
  <1>2. /\ f.to \in Nodes /\ f.msg.num \in 1 .. originated
        /\ originated \in 0 .. MaxMsgs /\ MaxMsgs \in Nat /\ delivered \in Counts
        /\ \A g \in DOMAIN rx : g.to \in Nodes /\ g.msg.num \in 1 .. originated
    BY DEF DataInv, MeshInv, TypeOK, BagToSet, MeshConstants
  <1>3. \A g \in DOMAIN rx : g.msg.num \in 1 .. MaxMsgs
    BY <1>2
  <1>4. rx' = Taken(f) /\ UNCHANGED originated
    BY <1>1
    DEF Receive, RxHello, RxTcOld, RxTcNew, RxDataLocal,
        RxDataTransit,
                AfterRebroadcast, Rebroadcasts
  <1>5. f \notin DOMAIN rx' /\ DOMAIN rx' \subseteq DOMAIN rx
    BY <1>1, <1>4, TakenSingle, TakenFrames
  <1>6. \A g \in DOMAIN rx' : g.msg.kind = "Data" => rx'[g] = 1
    <2>1. \A g \in DOMAIN rx : g.msg.kind = "Data" => Single(rx, g)
      BY DEF DataInv, DataFramesAreSingle, Single
    <2>2. \A g \in DOMAIN rx' : g.msg.kind = "Data" => Single(rx', g)
      BY <1>4, <1>5, <2>1, TakenSingle
    <2> QED
      BY <2>2 DEF Single
  <1>7. /\ delivered'[f.to][f.msg.num] \in {0, 1}
        /\ \A n \in Nodes, m \in 1 .. MaxMsgs :
               ~(n = f.to /\ m = f.msg.num) => delivered'[n][m] = delivered[n][m]
    <2>1. CASE delivered' = CountUp(delivered, f.to, f.msg.num)
      BY <1>1, <1>2, <1>3, <2>1 DEF CountUp, Counts
    <2>2. CASE UNCHANGED delivered
      BY <1>1, <2>2
    <2> QED
      BY <2>1, <2>2
      DEF Receive, RxHello, RxTcOld, RxTcNew, RxDataLocal,
          RxDataTransit
  <1>8. \A g \in DOMAIN rx' : g.msg.kind = "Data" => ~(g.to = f.to /\ g.msg.num = f.msg.num)
    BY <1>1, <1>5
  <1>9. DataFramesAreSingle'
    <2> SUFFICES ASSUME NEW g \in DOMAIN rx', g.msg.kind = "Data"
                 PROVE  /\ rx'[g] = 1 /\ g.dst \notin HasRoute[g.to]
                        /\ delivered'[g.to][g.msg.num] = 0
                        /\ \A h \in DOMAIN rx' : /\ h.msg.kind = "Data" /\ h.to = g.to
                                                 /\ h.msg.num = g.msg.num
                                                 => h = g
      BY DEF DataFramesAreSingle
    <2>1. delivered'[g.to][g.msg.num] = delivered[g.to][g.msg.num]
      BY <1>2, <1>3, <1>5, <1>7, <1>8
    <2> QED
      BY <1>5, <1>6, <2>1 DEF DataInv, DataFramesAreSingle
  <1>10. DeliveredExist'
    <2>1. f.msg.num <= originated
      BY <1>2
    <2> QED
      BY <1>4, <1>7, <2>1 DEF DataInv, DeliveredExist
  <1>11. DataOnce'
    <2>1. \A n \in Nodes, m \in 1 .. MaxMsgs : delivered'[n][m] <= 1
      <3> TAKE n \in Nodes, m \in 1 .. MaxMsgs
      <3>1. CASE n = f.to /\ m = f.msg.num
        BY <1>7, <3>1
      <3>2. CASE ~(n = f.to /\ m = f.msg.num)
        BY <1>7, <3>2 DEF DataInv, DataOnce
      <3> QED
        BY <3>1, <3>2
    <2> QED
      BY <2>1 DEF DataOnce
  <1> QED
    BY <1>9, <1>10, <1>11

\* A frame that is lost, or a restart, delivers nothing.
LEMMA OthersKeepData ==
    ASSUME DataInv, (\E n \in Nodes : Restart(n)) \/ (\E f \in DOMAIN rx : Lose(f))
    PROVE  DataFramesAreSingle' /\ DeliveredExist' /\ DataOnce'
  <1>1. UNCHANGED <<delivered, originated>>
    BY DEF Restart, Lose
  <1>2. ASSUME NEW f \in DOMAIN rx, Lose(f) PROVE DataFramesAreSingle'
    <2>1. rx' = Taken(f) /\ DOMAIN rx' \subseteq DOMAIN rx
      BY <1>2, TakenFrames DEF Lose
    <2>2. \A g \in DOMAIN rx : g.msg.kind = "Data" => Single(rx, g)
      BY DEF DataInv, DataFramesAreSingle, Single
    <2>3. f.msg.kind = "Data" => f \notin DOMAIN rx'
      BY <2>1, TakenSingle DEF DataInv, DataFramesAreSingle
    <2>4. \A g \in DOMAIN rx' : g.msg.kind = "Data" => Single(rx', g)
      BY <2>1, <2>2, <2>3, TakenSingle
    <2>5. \A g \in DOMAIN rx' : g.msg.kind = "Data" => rx'[g] = 1
      BY <2>4 DEF Single
    <2> QED
      BY <1>1, <2>1, <2>5 DEF DataInv, DataFramesAreSingle
  <1>3. ASSUME NEW n \in Nodes, Restart(n) PROVE DataFramesAreSingle'
    BY <1>1, <1>3 DEF Restart, DataInv, DataFramesAreSingle
  <1> QED
    BY <1>1, <1>2, <1>3 DEF DataInv, DeliveredExist, DataOnce

\* Broadcast Data, which rx_loop does not rebroadcast, and unicast Data for which
\* no node in range of the sender has a route, is handled at most once by every
\* node: it takes a forwarder to handle a message twice.
THEOREM DirectDataOnce ==
    ASSUME UnicastIsDirect
    PROVE  Spec => []DataOnce
  <1>1. Init => DataInv
    <2>1. Init => DataFramesAreSingle /\ DeliveredExist /\ DataOnce
      BY DEF Init, DataFramesAreSingle, DeliveredExist, DataOnce, EmptyBag, SetToBag
    <2> QED
      BY <2>1, MeshConstants, InitMeshInv DEF DataInv
  <1>2. DataInv /\ MeshInv' /\ [Next]_vars => DataInv'
    <2> SUFFICES ASSUME DataInv, MeshInv', [Next]_vars
                 PROVE  DataFramesAreSingle' /\ DeliveredExist' /\ DataOnce'
      BY DEF DataInv
    <2>1. CASE UNCHANGED vars
      BY <2>1 DEF vars, DataInv, DataFramesAreSingle, DeliveredExist, DataOnce
    <2> QED
      BY <2>1, MeshConstants, MeshSteps, OriginateKeepsData, OthersKeepData,
         ControlKeepsData, DataKeepsData
  <1>3. DataInv => DataOnce
    BY DEF DataInv
  <1> QED
    BY <1>1, <1>2, <1>3, MeshInvariant, PTL DEF Spec
============================================================================
