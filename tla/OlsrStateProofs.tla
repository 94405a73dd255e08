-------------------------- MODULE OlsrStateProofs --------------------------
(***************************************************************************)
(* Proofs about OlsrState for any number of peers, HELLOs, TCs, restarts   *)
(* and any timing: the tables' keys, two-hop evidence, expiry of           *)
(* neighbours, which TC process_tc keeps, and that recompute_routes finds  *)
(* the best paths of any graph.                                            *)
(***************************************************************************)
EXTENDS OlsrState, FunctionTheorems, FiniteSetTheorems, SequenceTheorems,
        WellFoundedInduction, TLAPS

\* The TCs on the air carry ids and numbers of their range, and only they are
\* received.
MessagesTyped ==
    /\ tcSeq \in [Ids -> 0 .. SeqModulus - 1]
    /\ restarts \in Nat
    /\ \A tc \in sent : /\ tc.sender \in Ids
                        /\ tc.seq \in 0 .. SeqModulus - 1
                        /\ DOMAIN tc.adv \subseteq Ids
    /\ received \subseteq sent

\* An entry carries what the system clock showed when its HELLO was heard.
EntriesDated ==
    \A p \in DOMAIN neighbors :
        /\ neighbors[p].heard \in 0 .. clock
        /\ neighbors[p].back \in 0 .. back
        /\ neighbors[p].ahead \in 0 .. ahead
        /\ neighbors[p].last =
               MaxBack + neighbors[p].heard + neighbors[p].ahead - neighbors[p].back

TimeTyped ==
    clock \in 0 .. MaxClock /\ back \in 0 .. MaxBack /\ ahead \in 0 .. MaxAhead

TableInv == TypeOK /\ EntriesDated /\ MessagesTyped

---------------------------------------------------------------------------
\* A listing or an advertisement names nodes only.
LEMMA MapsName ==
    ASSUME OlsrConstants, NEW p \in Ids, NEW map \in Listings[p] \cup Adverts[p]
    PROVE  DOMAIN map \subseteq Ids
  BY DEF OlsrConstants, Ids

\* What the radio reads is an i8.
LEMMA ReadingsTyped == ASSUME OlsrConstants, NEW rssi \in Rssis PROVE rssi \in -128 .. 127
  BY DEF OlsrConstants

\* What a HELLO lists are bytes.
LEMMA ListedMcs ==
    ASSUME OlsrConstants, NEW p \in {Local} \cup Peers, NEW map \in Listings[p],
           NEW x \in DOMAIN map
    PROVE  map[x] \in 0 .. 255
  BY DEF OlsrConstants

\* So what process_hello records is a link quality.
LEMMA HelloQuality ==
    ASSUME OlsrConstants, NEW p \in Ids, NEW rssi \in Rssis, NEW listed \in Listings[p]
    PROVE  HelloEntry(listed, rssi).quality \in LinkQuality
  <1>1. p \in {Local} \cup Peers
    BY DEF Ids
  <1>2. rssi \in -128 .. 127
    BY ReadingsTyped
  <1>3. ASSUME Local \in DOMAIN listed PROVE listed[Local] \in 0 .. 255
    BY <1>1, <1>3, ListedMcs
  <1>4. (IF Local \in DOMAIN listed THEN listed[Local] ELSE 0) \in 0 .. 255
    BY <1>3
  <1>5. 0 \in 0 .. 255
    OBVIOUS
  <1> QED
    BY <1>2, <1>4, <1>5 DEF HelloEntry, LinkQuality

---------------------------------------------------------------------------
(* Types *)

\* A reading of the clock and a later one: however far the clock was set ahead
\* and back, the first is later by at most what it was set back since.
LEMMA ReadingsInRange ==
    ASSUME NEW M \in Nat, NEW c \in Nat, NEW b \in 0 .. M, NEW a \in Nat,
           NEW h \in 0 .. c, NEW b0 \in 0 .. b, NEW a0 \in 0 .. a
    PROVE  M + h + a0 - b0 \in 0 .. (M + c + a - b) + (b - b0)
  OBVIOUS

\* Dated entries are in the range that the type invariant gives them.
LEMMA DatesInRange ==
    ASSUME OlsrConstants, TimeTyped', EntriesDated'
    PROVE  (\A p \in DOMAIN neighbors :
               neighbors[p].last \in 0 .. NowMs + (back - neighbors[p].back))'
  <1> SUFFICES ASSUME NEW p \in DOMAIN neighbors'
               PROVE  neighbors'[p].last \in
                          0 .. (MaxBack + clock' + ahead' - back') + (back' - neighbors'[p].back)
    BY DEF NowMs
  <1>1. /\ MaxBack \in Nat /\ clock' \in Nat /\ back' \in 0 .. MaxBack /\ ahead' \in Nat
    BY DEF TimeTyped, OlsrConstants
  <1>2. PICK h \in 0 .. clock', b0 \in 0 .. back', a0 \in 0 .. ahead' :
            /\ h = neighbors'[p].heard /\ b0 = neighbors'[p].back
            /\ a0 = neighbors'[p].ahead /\ neighbors'[p].last = MaxBack + h + a0 - b0
    BY DEF EntriesDated
  <1> QED
    BY <1>1, <1>2, ReadingsInRange

\* Before the first HELLO every table is empty.
LEMMA InitTableInv == ASSUME OlsrConstants, Init PROVE TableInv
  <1>1. DOMAIN EmptyMap = {}
    BY DEF EmptyMap
  <1>2. tcSeq \in [Ids -> 0 .. SeqModulus - 1]
    BY DEF Init, StartingCounters, OlsrConstants, Ids
  <1> QED
    BY <1>1, <1>2 DEF Init, TableInv, TypeOK, EntriesDated, MessagesTyped, OlsrConstants

\* process_hello records another node and what it lists.
LEMMA HelloTableInv ==
    ASSUME OlsrConstants, TableInv,
           NEW p \in Ids, NEW rssi \in Rssis, NEW listed \in Listings[p],
           RxHello(p, listed, rssi)
    PROVE  TableInv'
  <1> DEFINE nb == Overlay([x \in {p} |-> HelloEntry(listed, rssi)], neighbors)
  <1>1. p \in Peers /\ DOMAIN listed \subseteq Ids
    BY MapsName DEF RxHello, IsOwn, Ids
  <1>2. neighbors' = nb /\ clock' = clock /\ back' = back /\ ahead' = ahead
    BY DEF RxHello, time
  <1>3. DOMAIN neighbors' = {p} \cup DOMAIN neighbors
    BY <1>2 DEF Overlay
  <1>t. TimeTyped /\ TimeTyped'
    BY <1>2 DEF TableInv, TypeOK, TimeTyped
  <1>4. EntriesDated'
    <2> SUFFICES ASSUME NEW q \in DOMAIN neighbors'
                 PROVE  /\ neighbors'[q].heard \in 0 .. clock
                        /\ neighbors'[q].back \in 0 .. back
                        /\ neighbors'[q].ahead \in 0 .. ahead
                        /\ neighbors'[q].last = MaxBack + neighbors'[q].heard
                               + neighbors'[q].ahead - neighbors'[q].back
      BY <1>2 DEF EntriesDated
    <2>1. CASE q = p
      <3>1. neighbors'[q] = HelloEntry(listed, rssi)
        BY <1>2, <2>1 DEF Overlay
      <3>2. /\ neighbors'[q].last = NowMs /\ neighbors'[q].heard = clock
            /\ neighbors'[q].back = back /\ neighbors'[q].ahead = ahead
        BY <3>1 DEF HelloEntry
      <3> QED
        BY <1>t, <3>2 DEF TimeTyped, NowMs, OlsrConstants
    <2>2. CASE q # p
      <3>1. q \in DOMAIN neighbors \ {p} /\ neighbors'[q] = neighbors[q]
        BY <1>2, <1>3, <2>2 DEF Overlay
      <3> QED
        BY <3>1 DEF TableInv, EntriesDated
    <2> QED
      BY <2>1, <2>2
  <1>5. DOMAIN two_hop' \subseteq Peers
    BY <1>1 DEF RxHello, RefreshedTwoHop, WithoutGateways, TableInv, TypeOK, Ids
  <1>6. (\A q \in DOMAIN neighbors :
            neighbors[q].last \in 0 .. NowMs + (back - neighbors[q].back))'
    BY <1>t, <1>4, DatesInRange
  <1> QED
    BY <1>1, <1>2, <1>3, <1>4, <1>5, <1>6 DEF RxHello, TableInv, TypeOK, MessagesTyped

\* A TC that is taken is one that was sent, and the local node is removed from
\* what it advertises.
LEMMA NewTcTableInv ==
    ASSUME OlsrConstants, TableInv, NEW tc \in sent, RxTcNew(tc)
    PROVE  TableInv'
  <1>1. tc.sender \in Peers /\ DOMAIN tc.adv \subseteq Ids
    BY DEF RxTcNew, IsOwn, Ids, TableInv, MessagesTyped
  <1> DEFINE links == Without(tc.adv, {Local})
             topo == Overlay([x \in {tc.sender} |-> links], topology)
  <1>2. topology' = topo
    BY DEF RxTcNew
  <1>3. DOMAIN links \subseteq Peers
    BY <1>1 DEF Ids, Without
  <1> HIDE DEF links
  <1>4. /\ DOMAIN topology' \subseteq Peers
        /\ \A q \in DOMAIN topology' : DOMAIN topology'[q] \subseteq Peers
    <2>1. DOMAIN topology' = {tc.sender} \cup DOMAIN topology
      BY <1>2 DEF Overlay
    <2>2. topology'[tc.sender] = links
      BY <1>2 DEF Overlay
    <2>3. \A q \in DOMAIN topology \ {tc.sender} : topology'[q] = topology[q]
      BY <1>2 DEF Overlay
    <2> QED
      BY <1>1, <1>3, <2>1, <2>2, <2>3 DEF TableInv, TypeOK
  <1>5. /\ DOMAIN last_tc_seq' \subseteq Peers
        /\ \A q \in DOMAIN last_tc_seq' : last_tc_seq'[q] \in 0 .. SeqModulus - 1
    <2>1. last_tc_seq' = Overlay([x \in {tc.sender} |-> tc.seq], last_tc_seq)
      BY DEF RxTcNew
    <2>2. DOMAIN last_tc_seq' = {tc.sender} \cup DOMAIN last_tc_seq
      BY <2>1 DEF Overlay
    <2>3. last_tc_seq'[tc.sender] = tc.seq
      BY <2>1 DEF Overlay
    <2>4. \A q \in DOMAIN last_tc_seq \ {tc.sender} : last_tc_seq'[q] = last_tc_seq[q]
      BY <2>1 DEF Overlay
    <2> QED
      BY <1>1, <2>2, <2>3, <2>4 DEF TableInv, TypeOK, MessagesTyped
  <1> QED
    BY <1>4, <1>5 DEF RxTcNew, TableInv, TypeOK, EntriesDated, MessagesTyped, NowMs, time

\* The counter of a TC stays a 16-bit number.
LEMMA SendTcTableInv ==
    ASSUME OlsrConstants, TableInv, NEW p \in Ids, SendTc(p)
    PROVE  TableInv'
  <1> DEFINE seq == (tcSeq[p] + 1) % SeqModulus
  <1>1. PICK adv \in Adverts[p] :
            /\ tcSeq' = [tcSeq EXCEPT ![p] = seq]
            /\ sent' = sent \cup {[sender |-> p, seq |-> seq, adv |-> adv,
                                   run |-> restarts, nth |-> Cardinality(SentBy(p))]}
    BY DEF SendTc
  <1>2. seq \in 0 .. SeqModulus - 1
    BY DEF TableInv, MessagesTyped, OlsrConstants
  <1>3. DOMAIN adv \subseteq Ids
    BY MapsName
  <1> HIDE DEF seq
  <1> QED
    BY <1>1, <1>2, <1>3
    DEF SendTc, TableInv, TypeOK, EntriesDated, MessagesTyped, NowMs, tables, time

\* Every step keeps the tables and the messages typed.
LEMMA NextTableInv ==
    ASSUME OlsrConstants, TableInv, [Next]_vars PROVE TableInv'
  <1>1. CASE Tick \/ StepBack \/ StepAhead
    <2>1. /\ UNCHANGED <<neighbors, two_hop, topology, last_tc_seq, tcSeq, restarts,
                        sent, received>>
          /\ TimeTyped /\ TimeTyped'
          /\ clock <= clock' /\ back <= back' /\ ahead <= ahead'
      BY <1>1 DEF Tick, StepBack, StepAhead, TimeTyped, TableInv, TypeOK, tables, OlsrConstants
    <2>2. EntriesDated'
      BY <2>1 DEF TableInv, EntriesDated, TimeTyped, OlsrConstants
    <2>3. (\A q \in DOMAIN neighbors :
              neighbors[q].last \in 0 .. NowMs + (back - neighbors[q].back))'
      BY <2>1, <2>2, DatesInRange
    <2> QED
      BY <2>1, <2>2, <2>3 DEF TableInv, TypeOK, TimeTyped, MessagesTyped
  <1>2. CASE AgingTick
    <2>1. /\ neighbors' = Without(neighbors, Stale)
          /\ topology' = Without(topology, Stale)
      BY <1>2 DEF AgingTick
    <2>2. /\ DOMAIN neighbors' \subseteq DOMAIN neighbors
          /\ \A q \in DOMAIN neighbors' : neighbors'[q] = neighbors[q]
          /\ DOMAIN topology' \subseteq DOMAIN topology
          /\ \A q \in DOMAIN topology' : topology'[q] = topology[q]
      BY <2>1 DEF Without
    <2>3. DOMAIN two_hop' \subseteq DOMAIN two_hop
      BY <1>2 DEF AgingTick, WithoutGateways
    <2> QED
      BY <1>2, <2>2, <2>3
      DEF AgingTick, TableInv, TypeOK, EntriesDated, MessagesTyped, NowMs
  <1>3. CASE \E p \in Ids, rssi \in Rssis :
                 \E listed \in Listings[p] : RxHello(p, listed, rssi)
    BY <1>3, HelloTableInv
  <1>4. CASE \E p \in Ids : SendTc(p)
    BY <1>4, SendTcTableInv
  <1>5. ASSUME NEW p \in Peers, RestartPeer(p) PROVE TableInv'
    BY <1>5 DEF RestartPeer, TableInv, TypeOK, EntriesDated, MessagesTyped, NowMs, tables,
                time, OlsrConstants, Ids
  <1>6. CASE \E tc \in sent : RxTcDropped(tc)
    BY <1>6 DEF RxTcDropped, TableInv, TypeOK, EntriesDated, MessagesTyped, NowMs, tables, time
  <1>7. CASE \E tc \in sent : RxTcNew(tc)
    BY <1>7, NewTcTableInv
  <1>8. CASE UNCHANGED vars
    BY <1>8 DEF vars, TableInv, TypeOK, EntriesDated, MessagesTyped, NowMs
  <1> QED
    BY <1>1, <1>2, <1>3, <1>4, <1>5, <1>6, <1>7, <1>8 DEF Next

\* The tables and the messages on the air keep their types.
THEOREM TableInvariant == Spec => []TableInv
  <1>1. Init => TableInv
    BY OlsrConstants, InitTableInv
  <1>2. TableInv /\ [Next]_vars => TableInv'
    BY OlsrConstants, NextTableInv
  <1> QED
    BY <1>1, <1>2, PTL DEF Spec

\* The local node never enters its own tables.
THEOREM TypeCorrect == Spec => []TypeOK
  <1>1. TableInv => TypeOK
    BY DEF TableInv
  <1> QED
    BY <1>1, TableInvariant, PTL

---------------------------------------------------------------------------
(* Two-hop evidence *)

\* Every gateway recorded for a node is a live neighbour whose latest HELLO
\* listed that node: process_hello replaces the sender's contribution as a whole,
\* and aging removes an expired gateway with the neighbour itself.
THEOREM TwoHopIsBacked == Spec => []TwoHopBacked
  <1>1. Init => TwoHopBacked
    BY DEF Init, TwoHopBacked, EmptyMap
  <1>2. TwoHopBacked /\ [Next]_vars => TwoHopBacked'
    <2> SUFFICES ASSUME TwoHopBacked, [Next]_vars PROVE TwoHopBacked'
      OBVIOUS
    <2>1. ASSUME NEW p \in Ids, NEW rssi \in Rssis, NEW listed \in Listings[p],
                 RxHello(p, listed, rssi)
          PROVE  TwoHopBacked'
      <3> DEFINE nb == Overlay([x \in {p} |-> HelloEntry(listed, rssi)], neighbors)
      <3>1. neighbors' = nb /\ two_hop' = RefreshedTwoHop(p, listed, nb)
        BY <2>1 DEF RxHello
      <3>2. /\ DOMAIN nb = {p} \cup DOMAIN neighbors
            /\ nb[p].listed = DOMAIN listed
            /\ \A q \in DOMAIN neighbors \ {p} : nb[q] = neighbors[q]
        BY DEF Overlay, HelloEntry
      <3> HIDE DEF nb
      <3> SUFFICES ASSUME NEW x \in DOMAIN two_hop'
                   PROVE  /\ two_hop'[x] # {}
                          /\ \A g \in two_hop'[x] : g \in DOMAIN nb /\ x \in nb[g].listed
        BY <3>1 DEF TwoHopBacked
      <3>3. \A g \in two_hop'[x] :
                \/ g = p /\ x \in DOMAIN listed
                \/ g # p /\ x \in DOMAIN two_hop /\ g \in two_hop[x]
        BY <3>1 DEF RefreshedTwoHop, WithoutGateways
      <3>4. two_hop'[x] # {}
        BY <3>1 DEF RefreshedTwoHop, WithoutGateways
      <3>5. \A g \in two_hop'[x] : g \in DOMAIN nb /\ x \in nb[g].listed
        BY <3>2, <3>3 DEF TwoHopBacked
      <3> QED
        BY <3>4, <3>5
    <2>2. CASE AgingTick
      <3>1. /\ neighbors' = Without(neighbors, Stale)
            /\ two_hop' = WithoutGateways(two_hop, Stale)
        BY <2>2 DEF AgingTick
      <3>2. \A x \in DOMAIN two_hop' :
                /\ x \in DOMAIN two_hop
                /\ two_hop'[x] = two_hop[x] \ Stale
                /\ two_hop'[x] # {}
        BY <3>1 DEF WithoutGateways
      <3>3. \A g \in DOMAIN neighbors \ Stale :
                g \in DOMAIN neighbors' /\ neighbors'[g] = neighbors[g]
        BY <3>1 DEF Without
      <3> QED
        BY <3>2, <3>3 DEF TwoHopBacked
    <2>3. CASE UNCHANGED <<neighbors, two_hop>>
      BY <2>3 DEF TwoHopBacked
    <2> QED
      BY <2>1, <2>2, <2>3
      DEF Next, Tick, StepBack, StepAhead, SendTc, RestartPeer, RxTcDropped, RxTcNew,
          vars, tables
  <1> QED
    BY <1>1, <1>2, PTL DEF Spec

---------------------------------------------------------------------------
(* Expiry of neighbours *)

\* The aging loop has its next tick at most one period ahead, and at that tick
\* no neighbour will have been silent for longer than the bound.
AgingAhead ==
    /\ nextAging \in Nat
    /\ clock <= nextAging
    /\ nextAging <= clock + AGING_TICK_MS
    /\ \A p \in DOMAIN neighbors :
           nextAging - neighbors[p].heard
               <= NEIGHBOR_TIMEOUT_MS + AGING_TICK_MS + (back - neighbors[p].back)

\* A neighbour leaves the table only after the timeout, and at the latest one
\* aging period after it, give or take what the system clock was set meanwhile,
\* whatever HELLOs, TCs and restarts happen in between.
THEOREM NeighborsExpire == Spec => ExpiryIsTimely
  <1> USE OlsrConstants
  <1>1. Init => AgingAhead
    BY DEF Init, AgingAhead, EmptyMap, OlsrConstants
  <1>t. TableInv => TimeTyped /\ clock \in Nat /\ back \in Nat /\ ahead \in Nat
    BY DEF TableInv, TypeOK, TimeTyped, OlsrConstants
  <1>2. TableInv /\ AgingAhead /\ [Next]_vars => AgingAhead'
    <2> SUFFICES ASSUME TableInv, AgingAhead, [Next]_vars PROVE AgingAhead'
      OBVIOUS
    <2>1. /\ clock \in Nat /\ back \in Nat /\ ahead \in Nat
          /\ MaxBack \in Nat /\ NEIGHBOR_TIMEOUT_MS \in Nat /\ AGING_TICK_MS \in Nat
          /\ \A p \in DOMAIN neighbors : /\ neighbors[p].heard \in Nat
                                         /\ neighbors[p].back \in 0 .. back
                                         /\ neighbors[p].ahead \in 0 .. ahead
      BY <1>t DEF TableInv, EntriesDated, OlsrConstants
    <2>2. CASE Tick \/ StepBack \/ StepAhead
      BY <2>1, <2>2 DEF Tick, StepBack, StepAhead, AgingAhead, tables
    <2>3. CASE AgingTick
      <3>1. /\ DOMAIN neighbors' = DOMAIN neighbors \ Stale
            /\ \A p \in DOMAIN neighbors' : neighbors'[p] = neighbors[p]
        BY <2>3 DEF AgingTick, Without
      <3>2. \A p \in DOMAIN neighbors' :
                clock - neighbors[p].heard <= NEIGHBOR_TIMEOUT_MS + (back - neighbors[p].back)
        BY <2>1, <3>1 DEF Stale, NowMs, TableInv, EntriesDated
      <3>3. /\ clock = nextAging /\ clock' = clock /\ back' = back
            /\ nextAging' = nextAging + AGING_TICK_MS
        BY <2>3 DEF AgingTick
      <3> QED
        BY <2>1, <3>1, <3>2, <3>3 DEF AgingAhead
    <2>4. ASSUME NEW p \in Ids, NEW rssi \in Rssis, NEW listed \in Listings[p],
                 RxHello(p, listed, rssi)
          PROVE  AgingAhead'
      <3>1. /\ DOMAIN neighbors' = {p} \cup DOMAIN neighbors
            /\ neighbors'[p].heard = clock /\ neighbors'[p].back = back
            /\ \A q \in DOMAIN neighbors \ {p} : neighbors'[q] = neighbors[q]
            /\ clock' = clock /\ nextAging' = nextAging /\ back' = back
        BY <2>4 DEF RxHello, Overlay, HelloEntry, time
      <3> QED
        BY <2>1, <3>1 DEF AgingAhead
    <2>5. CASE UNCHANGED <<clock, back, nextAging, neighbors>>
      BY <2>5 DEF AgingAhead
    <2> QED
      BY <2>2, <2>3, <2>4, <2>5
      DEF Next, SendTc, RestartPeer, RxTcDropped, RxTcNew, vars, tables, time
  <1>3. TableInv /\ AgingAhead /\ [Next]_vars =>
            [\A p \in DOMAIN neighbors :
                /\ p \notin DOMAIN neighbors' =>
                       Silence(p) > NEIGHBOR_TIMEOUT_MS - (ahead - neighbors[p].ahead)
                /\ Silence(p) <= NEIGHBOR_TIMEOUT_MS + AGING_TICK_MS
                                     + (back - neighbors[p].back)]_vars
    <2> SUFFICES ASSUME TableInv, AgingAhead, Next, NEW p \in DOMAIN neighbors
                 PROVE  /\ p \notin DOMAIN neighbors' =>
                              Silence(p) > NEIGHBOR_TIMEOUT_MS - (ahead - neighbors[p].ahead)
                        /\ Silence(p) <= NEIGHBOR_TIMEOUT_MS + AGING_TICK_MS
                                            + (back - neighbors[p].back)
      OBVIOUS
    <2>1. /\ clock \in Nat /\ back \in Nat /\ ahead \in Nat
          /\ MaxBack \in Nat /\ NEIGHBOR_TIMEOUT_MS \in Nat /\ AGING_TICK_MS \in Nat
          /\ neighbors[p].heard \in Nat
          /\ neighbors[p].back \in 0 .. back /\ neighbors[p].ahead \in 0 .. ahead
          /\ neighbors[p].last =
                 MaxBack + neighbors[p].heard + neighbors[p].ahead - neighbors[p].back
      BY <1>t DEF TableInv, EntriesDated, OlsrConstants
    <2>2. Silence(p) <= NEIGHBOR_TIMEOUT_MS + AGING_TICK_MS + (back - neighbors[p].back)
      BY <2>1 DEF AgingAhead, Silence
    <2>3. ASSUME p \notin DOMAIN neighbors'
          PROVE  Silence(p) > NEIGHBOR_TIMEOUT_MS - (ahead - neighbors[p].ahead)
      <3>1. CASE AgingTick
        <4>1. p \in Stale
          BY <2>3, <3>1 DEF AgingTick, Without
        <4> QED
          BY <2>1, <4>1 DEF Stale, NowMs, Silence
      <3>2. CASE ~AgingTick
        <4>1. \A q \in Ids, rssi \in Rssis : \A listed \in Listings[q] :
                  RxHello(q, listed, rssi) => DOMAIN neighbors \subseteq DOMAIN neighbors'
          BY DEF RxHello, Overlay
        <4>2. DOMAIN neighbors \subseteq DOMAIN neighbors'
          BY <3>2, <4>1
          DEF Next, Tick, StepBack, StepAhead, SendTc, RestartPeer, RxTcDropped, RxTcNew,
              tables
        <4> QED
          BY <2>3, <4>2
      <3> QED
        BY <3>1, <3>2
    <2> QED
      BY <2>2, <2>3
  <1> QED
    BY <1>1, <1>2, <1>3, TableInvariant, PTL DEF Spec, ExpiryIsTimely

---------------------------------------------------------------------------
(* The TC that process_tc keeps *)

\* The number recorded for a sender is that of a TC received from it; as long as
\* none is recorded, only TCs numbered 0 have come, which process_tc takes for
\* duplicates of the default.
RecordedWasHeard ==
    \A p \in Peers :
        IF p \in DOMAIN last_tc_seq
        THEN \E tc \in HeardFrom(p) : tc.seq = last_tc_seq[p]
        ELSE \A tc \in HeardFrom(p) : tc.seq = 0

KeptInv == TableInv /\ RecordedWasHeard /\ NewestTcKept

\* A dropped TC is not above the recorded number of its sender.
LEMMA DroppedKeepsNewest ==
    ASSUME OlsrConstants, KeptInv, NEW tc \in sent, RxTcDropped(tc)
    PROVE  RecordedWasHeard' /\ NewestTcKept'
  <1>1. /\ received' = received \cup {tc}
        /\ last_tc_seq' = last_tc_seq /\ topology' = topology
    BY DEF RxTcDropped, tables
  <1>2. tc.seq \in Nat /\ \A a \in received : a.seq \in Nat
    BY DEF KeptInv, TableInv, MessagesTyped, OlsrConstants
  <1>3. tc.sender \in Peers => tc.seq <= LastSeq(tc.sender)
    BY DEF RxTcDropped, IsOwn, IsDuplicate, IsOldSeq, OlsrConstants
  <1>4. \A p : /\ HeardFrom(p) \subseteq HeardFrom(p)'
               /\ \A a \in HeardFrom(p)' : a \in HeardFrom(p) \/ (a = tc /\ p = tc.sender)
    BY <1>1 DEF HeardFrom
  <1>5. RecordedWasHeard'
    BY <1>1, <1>2, <1>3, <1>4 DEF KeptInv, RecordedWasHeard, LastSeq
  <1>6. NewestTcKept'
    <2> SUFFICES ASSUME NEW p \in DOMAIN last_tc_seq
                 PROVE  /\ SeqsAreClose(p)' =>
                               \A a \in HeardFrom(p)' : a.seq <= last_tc_seq[p]
                        /\ p \in DOMAIN topology =>
                               \E a \in HeardFrom(p)' :
                                   /\ a.seq = last_tc_seq[p]
                                   /\ topology[p] = Without(a.adv, {Local})
      BY <1>1 DEF NewestTcKept
    <2>1. p \in Peers
      BY DEF KeptInv, TableInv, TypeOK
    <2>2. SeqsAreClose(p)' => SeqsAreClose(p)
      BY <1>4 DEF SeqsAreClose
    <2> QED
      BY <1>3, <1>4, <2>1, <2>2 DEF KeptInv, NewestTcKept, LastSeq
  <1> QED
    BY <1>5, <1>6

\* A TC is taken because its number is above the recorded one, or because it is
\* so far below that the numbers of its sender are not close.
LEMMA TakenIsNewest ==
    ASSUME OlsrConstants, KeptInv, NEW tc \in sent, RxTcNew(tc)
    PROVE  RecordedWasHeard' /\ NewestTcKept'
  <1> DEFINE s == tc.sender
             links == Without(tc.adv, {Local})
  <1>1. s \in Peers
    BY DEF RxTcNew, IsOwn, KeptInv, TableInv, MessagesTyped, Ids
  <1>2. /\ received' = received \cup {tc}
        /\ DOMAIN last_tc_seq' = {s} \cup DOMAIN last_tc_seq
        /\ last_tc_seq'[s] = tc.seq
        /\ \A q \in DOMAIN last_tc_seq \ {s} : last_tc_seq'[q] = last_tc_seq[q]
    BY DEF RxTcNew, Overlay
  <1>3. /\ DOMAIN topology' = {s} \cup DOMAIN topology
        /\ topology'[s] = links
        /\ \A q \in DOMAIN topology \ {s} : topology'[q] = topology[q]
    BY DEF RxTcNew, Overlay
  <1>4. tc.seq \in Nat /\ \A a \in received : a.seq \in Nat
    BY DEF KeptInv, TableInv, MessagesTyped, OlsrConstants
  <1>5. \A p : /\ HeardFrom(p) \subseteq HeardFrom(p)'
               /\ \A a \in HeardFrom(p)' : a \in HeardFrom(p) \/ (a = tc /\ p = s)
    BY <1>2 DEF HeardFrom
  <1>6. tc \in HeardFrom(s)'
    BY <1>2 DEF HeardFrom
  <1>7. \A a \in HeardFrom(s) : a \in received
    BY DEF HeardFrom
  <1> HIDE DEF s, links
  <1>8. RecordedWasHeard'
    BY <1>1, <1>2, <1>5, <1>6 DEF KeptInv, RecordedWasHeard
  <1>9. SeqsAreClose(s)' => \A a \in HeardFrom(s)' : a.seq <= tc.seq
    <2> SUFFICES ASSUME SeqsAreClose(s)', NEW a \in HeardFrom(s)
                 PROVE  a.seq <= tc.seq
      BY <1>4, <1>5
    <2>1. SeqsAreClose(s)
      BY <1>5 DEF SeqsAreClose
    <2>2. ~(tc.seq <= LastSeq(s) /\ LastSeq(s) - tc.seq < DupWindow)
      BY DEF RxTcNew, IsDuplicate, IsOldSeq, s
    <2>3. CASE s \in DOMAIN last_tc_seq
      <3>1. PICK old \in HeardFrom(s) : old.seq = last_tc_seq[s]
        BY <1>1, <2>3 DEF KeptInv, RecordedWasHeard
      <3>2. old.seq - tc.seq < DupWindow
        BY <1>5, <1>6 DEF SeqsAreClose
      <3>3. a.seq <= last_tc_seq[s]
        BY <2>1, <2>3 DEF KeptInv, NewestTcKept
      <3>4. old.seq < tc.seq
        BY <1>4, <1>7, <2>2, <2>3, <3>1, <3>2 DEF LastSeq
      <3> QED
        BY <1>4, <1>7, <3>1, <3>3, <3>4
    <2>4. CASE s \notin DOMAIN last_tc_seq
      BY <1>1, <1>4, <2>4 DEF KeptInv, RecordedWasHeard
    <2> QED
      BY <2>3, <2>4
  <1>10. NewestTcKept'
    <2> SUFFICES ASSUME NEW p \in DOMAIN last_tc_seq'
                 PROVE  /\ SeqsAreClose(p)' =>
                               \A a \in HeardFrom(p)' : a.seq <= last_tc_seq'[p]
                        /\ p \in DOMAIN topology' =>
                               \E a \in HeardFrom(p)' :
                                   /\ a.seq = last_tc_seq'[p]
                                   /\ topology'[p] = Without(a.adv, {Local})
      BY DEF NewestTcKept
    <2>1. CASE p = s
      BY <1>2, <1>3, <1>6, <1>9, <2>1 DEF links
    <2>2. CASE p # s
      <3>1. SeqsAreClose(p)' => SeqsAreClose(p)
        BY <1>5 DEF SeqsAreClose
      <3>2. HeardFrom(p)' = HeardFrom(p)
        BY <1>2, <2>2 DEF HeardFrom, s
      <3>3. p \in DOMAIN last_tc_seq /\ last_tc_seq'[p] = last_tc_seq[p]
        BY <1>2, <2>2
      <3>4. p \in DOMAIN topology' => p \in DOMAIN topology /\ topology'[p] = topology[p]
        BY <1>3, <2>2
      <3> QED
        BY <3>1, <3>2, <3>3, <3>4 DEF KeptInv, NewestTcKept
    <2> QED
      BY <2>1, <2>2
  <1> QED
    BY <1>8, <1>10

\* What process_tc has recorded of a sender comes from a TC of that sender.
THEOREM KeptInvariant == Spec => []KeptInv
  <1>1. Init => KeptInv
    <2>1. DOMAIN EmptyMap = {}
      BY DEF EmptyMap
    <2> QED
      BY <2>1, OlsrConstants, InitTableInv
      DEF Init, KeptInv, RecordedWasHeard, NewestTcKept, HeardFrom
  <1>2. KeptInv /\ [Next]_vars => KeptInv'
    <2> SUFFICES ASSUME KeptInv, [Next]_vars PROVE KeptInv'
      OBVIOUS
    <2>1. TableInv'
      BY OlsrConstants, NextTableInv DEF KeptInv
    <2>2. ASSUME NEW tc \in sent, RxTcDropped(tc) PROVE KeptInv'
      BY <2>1, <2>2, OlsrConstants, DroppedKeepsNewest DEF KeptInv
    <2>3. ASSUME NEW tc \in sent, RxTcNew(tc) PROVE KeptInv'
      BY <2>1, <2>3, OlsrConstants, TakenIsNewest DEF KeptInv
    <2>4. CASE AgingTick
      <3>1. /\ last_tc_seq' = last_tc_seq /\ received' = received
            /\ \A q \in DOMAIN topology' :
                   q \in DOMAIN topology /\ topology'[q] = topology[q]
        BY <2>4 DEF AgingTick, Without
      <3>2. \A p : HeardFrom(p)' = HeardFrom(p) /\ SeqsAreClose(p)' = SeqsAreClose(p)
        BY <3>1 DEF HeardFrom, SeqsAreClose
      <3>3. RecordedWasHeard'
        BY <3>1, <3>2 DEF KeptInv, RecordedWasHeard
      <3>4. NewestTcKept'
        BY <3>1, <3>2 DEF KeptInv, NewestTcKept
      <3> QED
        BY <2>1, <3>3, <3>4 DEF KeptInv
    <2>5. CASE UNCHANGED <<last_tc_seq, topology, received>>
      BY <2>1, <2>5
      DEF KeptInv, RecordedWasHeard, NewestTcKept, SeqsAreClose, HeardFrom
    <2> QED
      BY <2>2, <2>3, <2>4, <2>5
      DEF Next, Tick, StepBack, StepAhead, RxHello, SendTc, RestartPeer, vars, tables
  <1> QED
    BY <1>1, <1>2, PTL DEF Spec

\* However TCs are lost, delayed, repeated or reordered, the links kept for a
\* sender are those of the TC with the highest number received from it.
THEOREM NewestTcIsKept == Spec => []NewestTcKept
  <1>1. KeptInv => NewestTcKept
    BY DEF KeptInv
  <1> QED
    BY <1>1, KeptInvariant, PTL

---------------------------------------------------------------------------
(* Wraparound of the sequence numbers *)

\* y is the number n steps after x, with at most one wrap in between.
StepsAfter(x, n, y) == y = x + n \/ y = x + n - SeqModulus

\* The TCs of one run of a sender are numbered consecutively in the order of
\* sending, and its counter continues from the last of them.
CountersInStep ==
    /\ \A p \in Ids : IsFiniteSet(SentBy(p)) /\ Cardinality(SentBy(p)) <= MaxTcs
    /\ \A tc \in sent :
           /\ tc.run \in Nat /\ tc.run <= restarts
           /\ tc.nth \in Nat /\ tc.nth < Cardinality(SentBy(tc.sender))
           /\ tc.run = restarts =>
                  StepsAfter(tc.seq, Cardinality(SentBy(tc.sender)) - 1 - tc.nth,
                             tcSeq[tc.sender])
    /\ \A a, b \in sent :
           a.sender = b.sender /\ a.run = b.run /\ a.nth < b.nth =>
               StepsAfter(a.seq, b.nth - a.nth, b.seq)

\* Counting on, modulo the number of sequence numbers.
LEMMA NextNumber ==
    ASSUME NEW m \in Nat \ {0}, NEW x \in 0 .. m - 1
    PROVE  /\ (x + 1) % m \in 0 .. m - 1
           /\ (x + 1) % m = x + 1 \/ (x + 1) % m = x + 1 - m
  OBVIOUS

\* tc_loop gives the next TC the next number.
LEMMA SendTcInStep ==
    ASSUME OlsrConstants, MaxTcs + DupWindow <= SeqModulus,
           TableInv, CountersInStep, NEW p \in Ids, SendTc(p)
    PROVE  CountersInStep'
  <1> DEFINE n == Cardinality(SentBy(p))
             seq == (tcSeq[p] + 1) % SeqModulus
  <1>1. PICK adv \in Adverts[p] :
            /\ tcSeq' = [tcSeq EXCEPT ![p] = seq]
            /\ sent' = sent \cup {[sender |-> p, seq |-> seq, adv |-> adv,
                                   run |-> restarts, nth |-> n]}
    BY DEF SendTc
  <1> DEFINE new == [sender |-> p, seq |-> seq, adv |-> adv, run |-> restarts, nth |-> n]
  <1>2. /\ sent' = sent \cup {new}
        /\ new.sender = p /\ new.seq = seq /\ new.run = restarts /\ new.nth = n
    BY <1>1
  <1>3. /\ restarts' = restarts /\ restarts \in Nat
        /\ tcSeq'[p] = seq
        /\ \A q \in Ids \ {p} : tcSeq'[q] = tcSeq[q]
        /\ SeqModulus \in Nat \ {0} /\ MaxTcs \in Nat /\ DupWindow \in Nat \ {0}
        /\ tcSeq[p] \in 0 .. SeqModulus - 1
    BY <1>1 DEF SendTc, TableInv, MessagesTyped, OlsrConstants
  <1>4. /\ seq \in 0 .. SeqModulus - 1
        /\ seq = tcSeq[p] + 1 \/ seq = tcSeq[p] + 1 - SeqModulus
    BY <1>3, NextNumber
  <1> HIDE DEF seq, new
  <1>5. IsFiniteSet(SentBy(p)) /\ n \in Nat /\ n < MaxTcs
    BY FS_CardinalityType DEF CountersInStep, SendTc
  <1>6. new \notin sent
    BY <1>2, <1>5 DEF CountersInStep
  <1>7. /\ SentBy(p)' = SentBy(p) \cup {new} /\ new \notin SentBy(p)
        /\ \A q \in Ids \ {p} : SentBy(q)' = SentBy(q)
    BY <1>2, <1>6 DEF SentBy
  <1>8. IsFiniteSet(SentBy(p)') /\ Cardinality(SentBy(p)') = n + 1
    BY <1>5, <1>7, FS_AddElement
  <1>9. \A q \in Ids : IsFiniteSet(SentBy(q)') /\ Cardinality(SentBy(q)') <= MaxTcs
    <2> TAKE q \in Ids
    <2>1. CASE q = p
      <3>1. n + 1 <= MaxTcs
        BY <1>3, <1>5
      <3> QED
        BY <1>8, <2>1, <3>1
    <2>2. CASE q # p
      <3>1. SentBy(q)' = SentBy(q)
        BY <1>7, <2>2
      <3> QED
        BY <3>1 DEF CountersInStep
    <2> QED
      BY <2>1, <2>2
  <1>10. \A tc \in sent : /\ tc.sender \in Ids /\ tc.seq \in 0 .. SeqModulus - 1
                          /\ tc.run \in Nat /\ tc.run <= restarts /\ tc.nth \in Nat
    BY DEF TableInv, MessagesTyped, CountersInStep
  \* Every earlier TC of this run of p is n - nth steps behind the new one.
  <1>11. ASSUME NEW tc \in sent, tc.sender = p
         PROVE  /\ tc.nth < n
                /\ tc.run = restarts => StepsAfter(tc.seq, n - tc.nth, seq)
    <2>1. tc.nth < n /\ (tc.run = restarts =>
              StepsAfter(tc.seq, n - 1 - tc.nth, tcSeq[p]))
      BY <1>11 DEF CountersInStep
    <2>2. tc.nth \in Nat /\ tc.seq \in 0 .. SeqModulus - 1
      BY <1>10
    <2> HIDE DEF n
    <2> QED
      BY <1>3, <1>4, <1>5, <2>1, <2>2 DEF StepsAfter
  <1> HIDE DEF n
  <1>12. \A tc \in sent' :
             /\ tc.run \in Nat /\ tc.run <= restarts'
             /\ tc.nth \in Nat /\ tc.nth < Cardinality(SentBy(tc.sender)')
             /\ tc.run = restarts' =>
                    StepsAfter(tc.seq, Cardinality(SentBy(tc.sender)') - 1 - tc.nth,
                               tcSeq'[tc.sender])
    <2> TAKE tc \in sent'
    <2>1. CASE tc = new
      BY <1>2, <1>3, <1>4, <1>5, <1>8, <2>1 DEF StepsAfter
    <2>2. CASE tc \in sent /\ tc.sender = p
      <3>1. tc.nth < n /\ (tc.run = restarts => StepsAfter(tc.seq, n - tc.nth, seq))
        BY <1>11, <2>2
      <3>2. n + 1 - 1 - tc.nth = n - tc.nth /\ tc.nth < n + 1
        BY <1>5, <1>10, <2>2, <3>1
      <3>3. /\ Cardinality(SentBy(tc.sender)') = n + 1
            /\ tcSeq'[tc.sender] = seq
        BY <1>3, <1>8, <2>2
      <3>4. tc.run \in Nat /\ tc.run <= restarts' /\ tc.nth \in Nat
        BY <1>3, <1>10, <2>2
      <3>5. Cardinality(SentBy(tc.sender)') - 1 - tc.nth = n - tc.nth
        BY <1>5, <3>3, <3>4
      <3>6. tc.run = restarts' => StepsAfter(tc.seq, n - tc.nth, seq)
        BY <1>3, <3>1
      <3> QED
        BY <3>2, <3>3, <3>4, <3>5, <3>6
    <2>3. CASE tc \in sent /\ tc.sender # p
      <3>1. tc.sender \in Ids \ {p}
        BY <1>10, <2>3
      <3> QED
        BY <1>3, <1>7, <1>10, <2>3, <3>1 DEF CountersInStep
    <2> QED
      BY <1>2, <2>1, <2>2, <2>3
  <1>13. \A a, b \in sent' :
             a.sender = b.sender /\ a.run = b.run /\ a.nth < b.nth =>
                 StepsAfter(a.seq, b.nth - a.nth, b.seq)
    <2> SUFFICES ASSUME NEW a \in sent', NEW b \in sent',
                        a.sender = b.sender, a.run = b.run, a.nth < b.nth
                 PROVE  StepsAfter(a.seq, b.nth - a.nth, b.seq)
      OBVIOUS
    <2>1. CASE a \in sent /\ b \in sent
      BY <2>1 DEF CountersInStep
    <2>2. CASE a \in sent /\ b = new
      BY <1>2, <1>11, <2>2
    <2>3. CASE a = new /\ b \in sent
      BY <1>2, <1>5, <1>10, <1>11, <2>3
    <2>4. CASE a = new /\ b = new
      BY <1>2, <1>5, <2>4
    <2> QED
      BY <1>2, <2>1, <2>2, <2>3, <2>4
  <1> QED
    BY <1>9, <1>12, <1>13 DEF CountersInStep, StepsAfter

\* Of two TCs of one run, the later one is never a duplicate of the earlier one,
\* with or without a wrap between them.
LEMMA LaterIsNotOld ==
    ASSUME OlsrConstants, MaxTcs + DupWindow <= SeqModulus,
           TableInv, CountersInStep,
           NEW old \in sent, NEW tc \in sent,
           old.sender = tc.sender, old.run = tc.run, old.nth < tc.nth
    PROVE  ~IsOldSeq(tc.seq, old.seq, DupWindow)
  <1>1. StepsAfter(old.seq, tc.nth - old.nth, tc.seq)
    BY DEF CountersInStep
  <1>2. /\ tc.sender \in Ids /\ old.nth \in Nat /\ tc.nth \in Nat
        /\ old.seq \in 0 .. SeqModulus - 1 /\ tc.seq \in 0 .. SeqModulus - 1
        /\ tc.nth < Cardinality(SentBy(tc.sender))
    BY DEF TableInv, MessagesTyped, CountersInStep
  <1>3. /\ Cardinality(SentBy(tc.sender)) \in Nat
        /\ Cardinality(SentBy(tc.sender)) <= MaxTcs
    BY <1>2, FS_CardinalityType DEF CountersInStep
  <1>4. tc.nth - old.nth < MaxTcs
    BY <1>2, <1>3 DEF OlsrConstants
  <1> QED
    BY <1>1, <1>2, <1>4 DEF StepsAfter, IsOldSeq, OlsrConstants

\* A TC newer than everything received of its sender is taken, also across the
\* wrap of the 16-bit counter, as long as a sender's TCs do not come within the
\* duplicate window of going once around (with the code's numbers, 65436 TCs or
\* about 36 hours).
THEOREM FreshTcIsTaken ==
    ASSUME MaxTcs + DupWindow <= SeqModulus
    PROVE  Spec => FreshIsTaken
  <1>1. Init => CountersInStep
    <2> SUFFICES ASSUME Init PROVE CountersInStep
      OBVIOUS
    <2>1. \A p \in Ids : SentBy(p) = {}
      BY DEF Init, SentBy
    <2>2. \A p \in Ids : IsFiniteSet(SentBy(p)) /\ Cardinality(SentBy(p)) = 0
      BY <2>1, FS_EmptySet
    <2> QED
      BY <2>2, OlsrConstants DEF Init, CountersInStep, OlsrConstants
  <1>2. TableInv /\ CountersInStep /\ [Next]_vars => CountersInStep'
    <2> SUFFICES ASSUME TableInv, CountersInStep, [Next]_vars PROVE CountersInStep'
      OBVIOUS
    <2>1. ASSUME NEW p \in Ids, SendTc(p) PROVE CountersInStep'
      BY <2>1, OlsrConstants, SendTcInStep
    <2>2. ASSUME NEW p \in Peers, RestartPeer(p) PROVE CountersInStep'
      <3>1. sent' = sent /\ restarts' = restarts + 1 /\ restarts \in Nat
        BY <2>2 DEF RestartPeer, TableInv, MessagesTyped
      <3>2. \A q : SentBy(q)' = SentBy(q)
        BY <3>1 DEF SentBy
      <3>3. \A tc \in sent : tc.run <= restarts' /\ tc.run # restarts'
        BY <3>1 DEF CountersInStep
      <3> QED
        BY <3>1, <3>2, <3>3 DEF CountersInStep, StepsAfter
    <2>3. CASE UNCHANGED <<sent, restarts, tcSeq>>
      BY <2>3 DEF CountersInStep, StepsAfter, SentBy
    <2> QED
      BY <2>1, <2>2, <2>3
      DEF Next, Tick, StepBack, StepAhead, AgingTick, RxHello, RxTcDropped, RxTcNew,
          vars, tables
  <1>3. KeptInv /\ CountersInStep /\ [Next]_vars =>
            [\A tc \in received' \ received :
                tc.sender # Local /\ IsFresh(tc) =>
                    /\ last_tc_seq'[tc.sender] = tc.seq
                    /\ topology'[tc.sender] = Without(tc.adv, {Local})]_vars
    <2> SUFFICES ASSUME KeptInv, CountersInStep, [Next]_vars,
                        NEW tc \in received' \ received, tc.sender # Local, IsFresh(tc)
                 PROVE  /\ last_tc_seq'[tc.sender] = tc.seq
                        /\ topology'[tc.sender] = Without(tc.adv, {Local})
      OBVIOUS
    <2>1. PICK x \in sent : RxTcDropped(x) \/ RxTcNew(x)
      BY DEF Next, Tick, StepBack, StepAhead, AgingTick, RxHello, SendTc, RestartPeer,
             vars
    <2>2. x = tc
      BY <2>1 DEF RxTcDropped, RxTcNew
    <2>3. ~RxTcDropped(tc)
      <3> SUFFICES ASSUME IsDuplicate(tc) PROVE FALSE
        BY DEF RxTcDropped, IsOwn
      <3>1. tc.sender \in Peers /\ tc.seq \in Nat
        BY <2>2 DEF KeptInv, TableInv, MessagesTyped, Ids, OlsrConstants
      <3>2. CASE HeardFrom(tc.sender) = {}
        <4>1. LastSeq(tc.sender) = 0
          BY <3>1, <3>2 DEF KeptInv, RecordedWasHeard, LastSeq
        <4> QED
          BY <3>1, <3>2, <4>1 DEF IsFresh, IsDuplicate, IsOldSeq
      <3>3. CASE HeardFrom(tc.sender) # {}
        <4>1. PICK old \in HeardFrom(tc.sender) : old.seq = LastSeq(tc.sender)
          BY <3>1, <3>3 DEF KeptInv, RecordedWasHeard, LastSeq
        <4>2. old \in sent /\ old.sender = tc.sender
          BY DEF HeardFrom, KeptInv, TableInv, MessagesTyped
        <4>3. old.run = tc.run /\ old.nth < tc.nth
          BY DEF IsFresh
        <4>4. ~IsOldSeq(tc.seq, old.seq, DupWindow)
          BY <2>2, <4>2, <4>3, OlsrConstants, LaterIsNotOld DEF KeptInv
        <4> QED
          BY <4>1, <4>4 DEF IsDuplicate
      <3> QED
        BY <3>2, <3>3
    <2>4. RxTcNew(tc)
      BY <2>1, <2>2, <2>3
    <2> QED
      BY <2>4 DEF RxTcNew, Overlay
  <1> QED
    BY <1>1, <1>2, <1>3, TableInvariant, KeptInvariant, PTL DEF Spec, FreshIsTaken

---------------------------------------------------------------------------
(* Induction and recursion, with sets and functions for predicates *)

\* A nonempty set of natural numbers has a least element.
LEMMA LeastNatural ==
    ASSUME NEW T \in SUBSET Nat, T # {}
    PROVE  \E x \in T : \A y \in T : x <= y
  <1>1. \E R : IsWellFoundedOn(R, Nat) /\ \A x, y \in Nat : <<y, x>> \in R <=> y < x
    <2>1. \A x, y \in Nat : <<y, x>> \in OpToRel(<, Nat) <=> y < x
      BY Zenon DEF OpToRel
    <2> QED
      BY <2>1, NatLessThanWellFounded, Zenon
  <1>2. PICK R : IsWellFoundedOn(R, Nat) /\ \A x, y \in Nat : <<y, x>> \in R <=> y < x
    BY <1>1
  <1>3. \E x \in T : \A y \in T : ~(<<y, x>> \in R)
    BY <1>2, WFMin
  <1>4. \A x, y \in Nat : ~(y < x) => x <= y
    OBVIOUS
  <1> QED
    BY <1>2, <1>3, <1>4

\* Induction: a set that has 0 and the successor of each of its elements.
LEMMA Induction ==
    ASSUME NEW S \in SUBSET Nat, 0 \in S, \A n \in S : n + 1 \in S
    PROVE  \A n \in Nat : n \in S
  <1> SUFFICES ASSUME NEW z \in Nat, z \notin S PROVE FALSE
    OBVIOUS
  <1> DEFINE T == Nat \ S
  <1>1. T \in SUBSET Nat /\ T # {}
    OBVIOUS
  <1> HIDE DEF T
  <1>2. PICK x \in T : \A y \in T : x <= y
    BY <1>1, LeastNatural
  <1> USE DEF T
  <1>3. x \in Nat /\ x # 0 /\ x \notin S
    OBVIOUS
  <1>4. x - 1 \in Nat /\ x = (x - 1) + 1 /\ ~(x <= x - 1)
    BY <1>3
  <1>5. x - 1 \in S
    BY <1>2, <1>4
  <1> QED
    BY <1>3, <1>4, <1>5

\* g is the beginning, up to n, of the sequence of values that step makes of x0.
Begins(g, n, S, x0, step) ==
    /\ g \in [0 .. n -> S]
    /\ g[0] = x0
    /\ \A i \in 0 .. n - 1 : g[i + 1] = step[<<i, g[i]>>]

\* f is that whole sequence.
Iterates(f, S, x0, step) ==
    /\ f \in [Nat -> S]
    /\ f[0] = x0
    /\ \A n \in Nat : f[n + 1] = step[<<n, f[n]>>]

\* Primitive recursion defines a function.
LEMMA Recursion ==
    ASSUME NEW S, NEW x0 \in S, NEW step \in [Nat \X S -> S]
    PROVE  \E f : Iterates(f, S, x0, step)
  <1> DEFINE B(g, n) == Begins(g, n, S, x0, step)
  <1>1. \A n \in Nat : \E g : B(g, n)
    <2> DEFINE N == {n \in Nat : \E g : B(g, n)}
    <2>1. 0 \in N
      <3>1. [i \in 0 .. 0 |-> x0] \in [0 .. 0 -> S] /\ [i \in 0 .. 0 |-> x0][0] = x0
        OBVIOUS
      <3>2. B([i \in 0 .. 0 |-> x0], 0)
        BY <3>1 DEF Begins
      <3> QED
        BY <3>2
    <2>2. ASSUME NEW n \in N PROVE n + 1 \in N
      <3>1. PICK g : B(g, n)
        OBVIOUS
      <3>2. /\ g \in [0 .. n -> S] /\ g[0] = x0
            /\ \A i \in 0 .. n - 1 : g[i + 1] = step[<<i, g[i]>>]
        BY <3>1 DEF Begins
      <3> DEFINE h == [i \in 0 .. n + 1 |-> IF i = n + 1 THEN step[<<n, g[n]>>] ELSE g[i]]
      <3>3. g[n] \in S /\ <<n, g[n]>> \in Nat \X S
        BY <3>2
      <3>4. step[<<n, g[n]>>] \in S
        BY <3>3
      <3>5. \A i \in 0 .. n + 1 : i = n + 1 \/ i \in 0 .. n
        OBVIOUS
      <3>6. h \in [0 .. n + 1 -> S]
        BY <3>2, <3>4, <3>5
      <3>7. h[n + 1] = step[<<n, g[n]>>] /\ \A i \in 0 .. n : h[i] = g[i]
        OBVIOUS
      <3> HIDE DEF h
      <3>8. ASSUME NEW i \in 0 .. (n + 1) - 1 PROVE h[i + 1] = step[<<i, h[i]>>]
        <4>1. i \in 0 .. n
          OBVIOUS
        <4>2. CASE i = n
          BY <3>7, <4>1, <4>2
        <4>3. CASE i # n
          <5>1. i \in 0 .. n - 1 /\ i + 1 \in 0 .. n
            BY <4>1, <4>3
          <5> QED
            BY <3>2, <3>7, <4>1, <5>1
        <4> QED
          BY <4>2, <4>3
      <3>9. 0 \in 0 .. n
        OBVIOUS
      <3>10. B(h, n + 1)
        BY <3>2, <3>6, <3>7, <3>8, <3>9 DEF Begins
      <3> QED
        BY <3>10
    <2>3. N \in SUBSET Nat
      OBVIOUS
    <2> HIDE DEF N
    <2>4. \A n \in Nat : n \in N
      BY <2>1, <2>2, <2>3, Induction
    <2> QED
      BY <2>4 DEF N
  <1>2. ASSUME NEW n \in Nat, NEW g, NEW h, B(g, n), B(h, n + 1) PROVE h[n] = g[n]
    <2> DEFINE N == {i \in Nat : i <= n => h[i] = g[i]}
    <2>1. 0 \in N
      BY <1>2 DEF Begins
    <2>2. ASSUME NEW i \in N PROVE i + 1 \in N
      <3> SUFFICES ASSUME i + 1 <= n PROVE h[i + 1] = g[i + 1]
        OBVIOUS
      <3>1. i \in 0 .. n - 1 /\ i \in 0 .. (n + 1) - 1 /\ i <= n
        OBVIOUS
      <3>2. h[i] = g[i]
        BY <3>1
      <3> QED
        BY <1>2, <3>1, <3>2 DEF Begins
    <2>3. N \in SUBSET Nat
      OBVIOUS
    <2> HIDE DEF N
    <2>4. \A i \in Nat : i \in N
      BY <2>1, <2>2, <2>3, Induction
    <2> QED
      BY <2>4 DEF N
  <1> DEFINE G(n) == CHOOSE g : B(g, n)
             f == [n \in Nat |-> G(n)[n]]
  <1>3. \A n \in Nat : B(G(n), n)
    BY <1>1
  <1> HIDE DEF G
  <1>4. f \in [Nat -> S]
    <2>1. \A n \in Nat : G(n)[n] \in S
      BY <1>3 DEF Begins
    <2> QED
      BY <2>1
  <1>5. f[0] = x0
    <2>1. 0 \in Nat /\ G(0)[0] = x0
      BY <1>3 DEF Begins
    <2> QED
      BY <2>1
  <1>6. ASSUME NEW n \in Nat PROVE f[n + 1] = step[<<n, f[n]>>]
    <2>1. n + 1 \in Nat /\ n \in 0 .. (n + 1) - 1
      OBVIOUS
    <2>2. G(n + 1)[n + 1] = step[<<n, G(n + 1)[n]>>]
      BY <1>3, <2>1 DEF Begins
    <2>3. G(n + 1)[n] = G(n)[n]
      BY <1>2, <1>3, <2>1
    <2> QED
      BY <2>1, <2>2, <2>3
  <1>7. Iterates(f, S, x0, step)
    BY <1>4, <1>5, <1>6 DEF Iterates
  <1> QED
    BY <1>7
---------------------------------------------------------------------------
(* The graph *)

Links(nb, topo, u) == DOMAIN Edges(Local, nb, topo, u)

Weight(nb, topo, u, v) == LinkCost(Edges(Local, nb, topo, u)[v])

\* Links join nodes and cost something.
IsGraph(nb, topo) ==
    \A u \in Ids : /\ Links(nb, topo, u) \subseteq Ids
                   /\ \A v \in Links(nb, topo, u) : Weight(nb, topo, u, v) \in Nat \ {0}

\* Ids are bytes.
LEMMA IdsAreBytes == ASSUME OlsrConstants PROVE Ids \subseteq 0 .. 255
  BY DEF OlsrConstants, Ids

\* So they are finitely many.
LEMMA IdsAreFinite ==
    ASSUME OlsrConstants
    PROVE  Ids \subseteq Nat /\ IsFiniteSet(Ids) /\ Local \in Ids
  <1>1. Ids \subseteq 0 .. 255
    BY IdsAreBytes
  <1>2. 0 \in Int /\ 255 \in Int
    OBVIOUS
  <1>3. IsFiniteSet(0 .. 255)
    BY <1>2, FS_Interval, Zenon
  <1>4. IsFiniteSet(Ids)
    BY <1>1, <1>3, FS_Subset, Zenon
  <1>5. Ids \subseteq Nat
    BY <1>1
  <1> QED
    BY <1>4, <1>5 DEF Ids

\* link_cost is positive: the base cost never drops below 50.
LEMMA LinkCostPositive ==
    ASSUME NEW q \in LinkQuality
    PROVE  LinkCost(q) \in Nat \ {0}
  <1>1. BaseCost(q.mcs) \in Nat \ {0}
    BY DEF BaseCost, LinkQuality
  <1>2. RssiPenalty(q.rssi) \in Nat
    <2>1. NegI8(q.rssi) \in Int
      BY DEF NegI8, LinkQuality
    <2> QED
      BY <2>1 DEF RssiPenalty
  <1>3. q.loss \in Nat
    BY DEF LinkQuality
  <1> QED
    BY <1>1, <1>2, <1>3 DEF LinkCost

---------------------------------------------------------------------------
(* The loop of recompute_routes *)

DijkstraState ==
    [dist : UNION {[D -> Nat] : D \in SUBSET Ids},
     prev : UNION {[D -> Ids] : D \in SUBSET Ids},
     heap : SUBSET (Nat \X Ids)]

\* The node's distance is final: no pair for it is left on the heap.
Closed(st, u) == u \in DOMAIN st.dist /\ <<st.dist[u], u>> \notin st.heap

\* The local node starts the search; all others found have a predecessor.
LoopTyped(st) ==
    /\ st \in DijkstraState
    /\ Local \in DOMAIN st.dist /\ st.dist[Local] = 0
    /\ DOMAIN st.prev = DOMAIN st.dist \ {Local}

\* Pairs of the heap are nodes with a distance they once had.
HeapOfKnown(st) ==
    \A x \in st.heap : x[2] \in DOMAIN st.dist /\ st.dist[x[2]] <= x[1]

\* A node is one link behind its predecessor, which is final.
PrevIsClosed(nb, topo, st) ==
    \A v \in DOMAIN st.dist \ {Local} :
        /\ Closed(st, st.prev[v])
        /\ v \in Links(nb, topo, st.prev[v])
        /\ st.dist[v] = st.dist[st.prev[v]] + Weight(nb, topo, st.prev[v], v)

\* The links of final nodes have been relaxed.
ClosedIsRelaxed(nb, topo, st) ==
    \A u \in DOMAIN st.dist : Closed(st, u) =>
        \A v \in Links(nb, topo, u) :
            /\ v \in DOMAIN st.dist
            /\ st.dist[v] <= st.dist[u] + Weight(nb, topo, u, v)

\* Final nodes are the nearest ones.
ClosedIsNear(st) ==
    \A u \in DOMAIN st.dist : Closed(st, u) => \A x \in st.heap : st.dist[u] <= x[1]

LoopInv(nb, topo, st) ==
    /\ LoopTyped(st)
    /\ HeapOfKnown(st)
    /\ PrevIsClosed(nb, topo, st)
    /\ ClosedIsRelaxed(nb, topo, st)
    /\ ClosedIsNear(st)

\* What the loop starts from.
StartState == [dist |-> [x \in {Local} |-> 0], prev |-> EmptyMap, heap |-> {<<0, Local>>}]

\* The pair that is popped.
Least(heap) ==
    CHOOSE x \in heap : \A y \in heap : x[1] < y[1] \/ (x[1] = y[1] /\ x[2] <= y[2])

\* Before the first iteration nothing is final.
LEMMA StartLoopInv ==
    ASSUME OlsrConstants, NEW nb, NEW topo PROVE LoopInv(nb, topo, StartState)
  <1> DEFINE s == StartState
  <1>1. /\ s.dist = [x \in {Local} |-> 0] /\ s.prev = EmptyMap /\ s.heap = {<<0, Local>>}
        /\ DOMAIN s.dist = {Local} /\ s.dist[Local] = 0 /\ DOMAIN s.prev = {}
    BY DEF StartState, EmptyMap
  <1>2. s \in DijkstraState
    <2>1. {Local} \in SUBSET Ids /\ {} \in SUBSET Ids
      BY DEF Ids
    <2>2. s.dist \in [{Local} -> Nat]
      BY <1>1
    <2>3. s.prev \in [{} -> Ids]
      BY <1>1 DEF EmptyMap
    <2>4. s.heap \in SUBSET (Nat \X Ids)
      BY <1>1, <2>1
    <2>5. s.dist \in UNION {[D -> Nat] : D \in SUBSET Ids}
      BY <2>1, <2>2
    <2>6. s.prev \in UNION {[D -> Ids] : D \in SUBSET Ids}
      BY <2>1, <2>3
    <2>7. s = [dist |-> s.dist, prev |-> s.prev, heap |-> s.heap]
      BY <1>1 DEF StartState
    <2> HIDE DEF s
    <2> QED
      BY <2>4, <2>5, <2>6, <2>7 DEF DijkstraState
  <1> HIDE DEF s
  <1>3. LoopTyped(s)
    BY <1>1, <1>2 DEF LoopTyped
  <1>4. HeapOfKnown(s)
    BY <1>1 DEF HeapOfKnown
  <1>5. \A u \in DOMAIN s.dist : ~Closed(s, u)
    BY <1>1 DEF Closed
  <1>6. PrevIsClosed(nb, topo, s)
    BY <1>1 DEF PrevIsClosed
  <1> QED
    BY <1>3, <1>4, <1>5, <1>6 DEF LoopInv, ClosedIsRelaxed, ClosedIsNear, s

\* A nonempty heap has a least pair.
LEMMA LeastIsLeast ==
    ASSUME NEW heap \in SUBSET (Nat \X Ids), heap # {}, Ids \subseteq Nat
    PROVE  Least(heap) \in heap /\ \A y \in heap : Least(heap)[1] <= y[1]
  <1> DEFINE T == {x[1] : x \in heap}
  <1>1. T \in SUBSET Nat /\ T # {}
    OBVIOUS
  <1> HIDE DEF T
  <1>2. PICK m \in T : \A y \in T : m <= y
    BY <1>1, LeastNatural
  <1> DEFINE U == {x[2] : x \in {z \in heap : z[1] = m}}
  <1>3. U \in SUBSET Nat /\ U # {}
    BY <1>2 DEF T
  <1> HIDE DEF U
  <1>4. PICK n \in U : \A y \in U : n <= y
    BY <1>3, LeastNatural
  <1>5. PICK x \in heap : x[1] = m /\ x[2] = n
    BY DEF U
  <1>6. \A y \in heap : x[1] < y[1] \/ (x[1] = y[1] /\ x[2] <= y[2])
    <2> TAKE y \in heap
    <2>1. y[1] \in T /\ y[1] \in Nat /\ m \in Nat /\ n \in Nat
      BY <1>1, <1>3 DEF T
    <2>2. m <= y[1]
      BY <1>2, <2>1
    <2>3. CASE y[1] = m
      <3>1. y[2] \in U
        BY <2>3 DEF U
      <3> QED
        BY <1>4, <1>5, <2>3, <3>1
    <2>4. CASE y[1] # m
      BY <1>5, <2>1, <2>2, <2>4
    <2> QED
      BY <2>3, <2>4
  <1>7. /\ Least(heap) \in heap
        /\ \A y \in heap : \/ Least(heap)[1] < y[1]
                           \/ Least(heap)[1] = y[1] /\ Least(heap)[2] <= y[2]
    BY <1>5, <1>6 DEF Least
  <1>8. \A y \in heap : y[1] \in Nat
    OBVIOUS
  <1> HIDE DEF Least
  <1> QED
    BY <1>7, <1>8

\* Dropping an outdated pair changes no distance and leaves the same nodes open.
LEMMA SkipLoopInv ==
    ASSUME OlsrConstants, NEW nb, NEW topo, NEW st, LoopInv(nb, topo, st),
           NEW top \in st.heap, top[1] > st.dist[top[2]]
    PROVE  LoopInv(nb, topo, [st EXCEPT !.heap = st.heap \ {top}])
  <1> DEFINE s == [st EXCEPT !.heap = st.heap \ {top}]
  <1>1. /\ st \in DijkstraState
        /\ st.dist \in UNION {[D -> Nat] : D \in SUBSET Ids}
        /\ st.heap \in SUBSET (Nat \X Ids)
    BY DEF LoopInv, LoopTyped, DijkstraState
  <1>2. s.dist = st.dist /\ s.prev = st.prev /\ s.heap = st.heap \ {top}
    BY <1>1 DEF DijkstraState
  <1>3. s \in DijkstraState
    BY <1>1, <1>2 DEF DijkstraState
  <1> HIDE DEF s
  <1>4. \A u \in DOMAIN st.dist : st.dist[u] \in Nat
    BY <1>1
  <1>5. \A u : Closed(s, u) <=> Closed(st, u)
    <2> TAKE u
    <2>1. ASSUME u \in DOMAIN st.dist PROVE <<st.dist[u], u>> # top
      <3>1. SUFFICES ASSUME <<st.dist[u], u>> = top PROVE FALSE
        OBVIOUS
      <3>2. top[1] = st.dist[u] /\ top[2] = u
        BY <3>1
      <3> QED
        BY <1>4, <2>1, <3>2
    <2> QED
      BY <1>2, <2>1 DEF Closed
  <1>6. LoopTyped(s)
    BY <1>2, <1>3 DEF LoopInv, LoopTyped
  <1>7. HeapOfKnown(s)
    BY <1>2 DEF LoopInv, HeapOfKnown
  <1>8. PrevIsClosed(nb, topo, s)
    BY <1>2, <1>5 DEF LoopInv, PrevIsClosed
  <1>9. ClosedIsRelaxed(nb, topo, s)
    BY <1>2, <1>5 DEF LoopInv, ClosedIsRelaxed
  <1>10. ClosedIsNear(s)
    BY <1>2, <1>5 DEF LoopInv, ClosedIsNear
  <1> QED
    BY <1>6, <1>7, <1>8, <1>9, <1>10 DEF LoopInv, s

\* The state after the links of u have been relaxed.
Relaxed(nb, topo, st, top, better, s) ==
    /\ s = [dist |-> s.dist, prev |-> s.prev, heap |-> s.heap]
    /\ DOMAIN s.dist = DOMAIN st.dist \cup better
    /\ \A v \in better : s.dist[v] = st.dist[top[2]] + Weight(nb, topo, top[2], v)
    /\ \A v \in DOMAIN st.dist \ better : s.dist[v] = st.dist[v]
    /\ s.dist = [v \in DOMAIN s.dist |-> s.dist[v]]
    /\ DOMAIN s.prev = DOMAIN st.prev \cup better
    /\ \A v \in better : s.prev[v] = top[2]
    /\ \A v \in DOMAIN st.prev \ better : s.prev[v] = st.prev[v]
    /\ s.prev = [v \in DOMAIN s.prev |-> s.prev[v]]
    /\ s.heap = (st.heap \ {top}) \cup {<<s.dist[v], v>> : v \in better}

\* The nodes that the popped pair brings nearer.
Better(nb, topo, st, u) ==
    {v \in Links(nb, topo, u) :
        v \in DOMAIN st.dist => st.dist[u] + Weight(nb, topo, u, v) < st.dist[v]}

\* The popped node has no other pair of that distance, so it becomes final.
LEMMA RelaxLoopInv ==
    ASSUME OlsrConstants, NEW nb, NEW topo, IsGraph(nb, topo),
           NEW st, LoopInv(nb, topo, st),
           NEW top \in st.heap, \A y \in st.heap : top[1] <= y[1],
           ~(top[1] > st.dist[top[2]]),
           NEW s, Relaxed(nb, topo, st, top, Better(nb, topo, st, top[2]), s)
    PROVE  /\ LoopInv(nb, topo, s)
           /\ ~Closed(st, top[2])
           /\ \A w : Closed(s, w) <=> w = top[2] \/ Closed(st, w)
  <1> DEFINE u == top[2]
             better == Better(nb, topo, st, u)
             W(v) == Weight(nb, topo, u, v)
  <1>1. /\ st.dist \in UNION {[D -> Nat] : D \in SUBSET Ids}
        /\ st.prev \in UNION {[D -> Ids] : D \in SUBSET Ids}
        /\ st.heap \in SUBSET (Nat \X Ids)
    BY DEF LoopInv, LoopTyped, DijkstraState
  <1>2. /\ DOMAIN st.dist \subseteq Ids
        /\ \A v \in DOMAIN st.dist : st.dist[v] \in Nat
        /\ \A v \in DOMAIN st.prev : st.prev[v] \in Ids
    BY <1>1
  <1>3. /\ Local \in DOMAIN st.dist /\ st.dist[Local] = 0
        /\ DOMAIN st.prev = DOMAIN st.dist \ {Local}
    BY DEF LoopInv, LoopTyped
  <1>4. \A x \in st.heap : x[1] \in Nat /\ x[2] \in DOMAIN st.dist /\ st.dist[x[2]] <= x[1]
                          /\ x = <<x[1], x[2]>>
    BY <1>1 DEF LoopInv, HeapOfKnown
  <1>5. u \in Ids /\ u \in DOMAIN st.dist /\ st.dist[u] = top[1] /\ top = <<st.dist[u], u>>
    BY <1>2, <1>4
  <1>6. ~Closed(st, u)
    BY <1>5 DEF Closed
  <1>7. better \subseteq Ids /\ \A v \in better : W(v) \in Nat \ {0}
    BY <1>5 DEF Better, IsGraph
  <1>8. \A v \in better : v # u /\ v # Local /\ ~Closed(st, v)
    <2> TAKE v \in better
    <2>1. v \in DOMAIN st.dist => st.dist[u] + W(v) < st.dist[v]
      BY DEF Better
    <2>2. st.dist[u] \in Nat /\ W(v) \in Nat \ {0}
      BY <1>2, <1>5, <1>7
    <2>3. v # u
      BY <1>5, <2>1, <2>2
    <2>4. v # Local
      BY <1>3, <2>1, <2>2
    <2>5. ~Closed(st, v)
      <3> SUFFICES ASSUME Closed(st, v) PROVE FALSE
        OBVIOUS
      <3>1. v \in DOMAIN st.dist /\ st.dist[v] <= top[1]
        BY DEF Closed, LoopInv, ClosedIsNear
      <3> QED
        BY <1>2, <1>5, <2>1, <2>2, <3>1
    <2> QED
      BY <2>3, <2>4, <2>5
  <1> HIDE DEF better
  <1>9. /\ DOMAIN s.dist = DOMAIN st.dist \cup better
        /\ \A v \in better : s.dist[v] = st.dist[u] + W(v)
        /\ \A v \in DOMAIN st.dist \ better : s.dist[v] = st.dist[v]
        /\ DOMAIN s.prev = DOMAIN st.prev \cup better
        /\ \A v \in better : s.prev[v] = u
        /\ \A v \in DOMAIN st.prev \ better : s.prev[v] = st.prev[v]
        /\ s.heap = (st.heap \ {top}) \cup {<<s.dist[v], v>> : v \in better}
    BY DEF Relaxed, better
  <1>10. /\ s = [dist |-> s.dist, prev |-> s.prev, heap |-> s.heap]
         /\ s.dist = [v \in DOMAIN s.dist |-> s.dist[v]]
         /\ s.prev = [v \in DOMAIN s.prev |-> s.prev[v]]
    BY DEF Relaxed
  <1>11. \A v \in better : s.dist[v] \in Nat /\ top[1] <= s.dist[v]
    BY <1>2, <1>5, <1>7, <1>9
  <1> HIDE DEF W
  <1>12. \A v \in DOMAIN s.dist : s.dist[v] \in Nat
    BY <1>2, <1>9, <1>11
  <1>13. s \in DijkstraState
    <2>1. DOMAIN s.dist \in SUBSET Ids /\ DOMAIN s.prev \in SUBSET Ids
      BY <1>2, <1>3, <1>7, <1>9
    <2>2. s.dist \in [DOMAIN s.dist -> Nat]
      BY <1>10, <1>12
    <2>3. \A v \in DOMAIN s.prev : s.prev[v] \in Ids
      BY <1>2, <1>5, <1>9
    <2>4. s.prev \in [DOMAIN s.prev -> Ids]
      BY <1>10, <2>3
    <2>5. s.heap \in SUBSET (Nat \X Ids)
      BY <1>1, <1>7, <1>9, <1>11
    <2>6. /\ s.dist \in UNION {[D -> Nat] : D \in SUBSET Ids}
          /\ s.prev \in UNION {[D -> Ids] : D \in SUBSET Ids}
      BY <2>1, <2>2, <2>4
    <2> QED
      BY <1>10, <2>5, <2>6 DEF DijkstraState
  <1>14. LoopTyped(s)
    BY <1>3, <1>8, <1>9, <1>13 DEF LoopTyped
  <1>15. HeapOfKnown(s)
    <2> SUFFICES ASSUME NEW x \in s.heap
                 PROVE  x[2] \in DOMAIN s.dist /\ s.dist[x[2]] <= x[1]
      BY DEF HeapOfKnown
    <2>1. CASE x \in st.heap
      <3>1. x[2] \in DOMAIN st.dist /\ st.dist[x[2]] <= x[1] /\ x[1] \in Nat
        BY <1>4, <2>1
      <3>2. CASE x[2] \in better
        <4>1. s.dist[x[2]] < st.dist[x[2]]
          BY <1>9, <3>1, <3>2 DEF better, Better, W
        <4> QED
          BY <1>2, <1>9, <1>12, <3>1, <4>1
      <3>3. CASE x[2] \notin better
        BY <1>9, <3>1, <3>3
      <3> QED
        BY <3>2, <3>3
    <2>2. CASE x \notin st.heap
      <3>1. PICK v \in better : x = <<s.dist[v], v>>
        BY <1>9, <2>2
      <3> QED
        BY <1>9, <1>11, <3>1
    <2> QED
      BY <2>1, <2>2
  <1>16. \A w : Closed(s, w) <=> w = u \/ Closed(st, w)
    <2> TAKE w
    <2>1. CASE w \in better
      <3>1. <<s.dist[w], w>> \in s.heap
        BY <1>9, <2>1
      <3> QED
        BY <1>8, <2>1, <3>1 DEF Closed
    <2>2. CASE w \notin better
      <3>1. <<s.dist[w], w>> \notin {<<s.dist[v], v>> : v \in better}
        BY <2>2
      <3>2. w \in DOMAIN s.dist <=> w \in DOMAIN st.dist
        BY <1>9, <2>2
      <3>3. w \in DOMAIN st.dist => s.dist[w] = st.dist[w]
        BY <1>9, <2>2
      <3>4. Closed(s, w) <=> w \in DOMAIN st.dist /\ <<st.dist[w], w>> \notin st.heap \ {top}
        BY <1>9, <3>1, <3>2, <3>3 DEF Closed
      <3>5. w \in DOMAIN st.dist => (<<st.dist[w], w>> = top <=> w = u)
        BY <1>5
      <3> QED
        BY <1>5, <3>4, <3>5 DEF Closed
    <2> QED
      BY <2>1, <2>2
  <1>17. \A w : Closed(s, w) => /\ w \in DOMAIN st.dist /\ w \notin better
                                /\ s.dist[w] = st.dist[w]
    BY <1>5, <1>8, <1>9, <1>16 DEF Closed
  <1>18. \A w : Closed(st, w) => st.dist[w] <= top[1]
    BY DEF LoopInv, ClosedIsNear, Closed
  <1>19. PrevIsClosed(nb, topo, s)
    <2> SUFFICES ASSUME NEW v \in DOMAIN s.dist \ {Local}
                 PROVE  /\ Closed(s, s.prev[v])
                        /\ v \in Links(nb, topo, s.prev[v])
                        /\ s.dist[v] = s.dist[s.prev[v]] + Weight(nb, topo, s.prev[v], v)
      BY DEF PrevIsClosed
    <2>1. CASE v \in better
      <3>1. s.prev[v] = u /\ Closed(s, u) /\ s.dist[u] = st.dist[u]
        BY <1>9, <1>16, <1>17, <2>1
      <3>2. v \in Links(nb, topo, u)
        BY <2>1 DEF better, Better
      <3> QED
        BY <1>9, <2>1, <3>1, <3>2 DEF W
    <2>2. CASE v \notin better
      <3>1. /\ v \in DOMAIN st.dist \ {Local}
            /\ s.prev[v] = st.prev[v] /\ s.dist[v] = st.dist[v]
        BY <1>3, <1>9, <2>2
      <3>2. /\ Closed(st, st.prev[v])
            /\ v \in Links(nb, topo, st.prev[v])
            /\ st.dist[v] = st.dist[st.prev[v]] + Weight(nb, topo, st.prev[v], v)
        BY <3>1 DEF LoopInv, PrevIsClosed
      <3> QED
        BY <1>16, <1>17, <3>1, <3>2
    <2> QED
      BY <2>1, <2>2
  <1>20. ClosedIsRelaxed(nb, topo, s)
    <2> SUFFICES ASSUME NEW w \in DOMAIN s.dist, Closed(s, w), NEW v \in Links(nb, topo, w)
                 PROVE  /\ v \in DOMAIN s.dist
                        /\ s.dist[v] <= s.dist[w] + Weight(nb, topo, w, v)
      BY DEF ClosedIsRelaxed
    <2>1. w \in Ids /\ s.dist[w] = st.dist[w] /\ st.dist[w] \in Nat
          /\ Weight(nb, topo, w, v) \in Nat
      BY <1>2, <1>17 DEF IsGraph
    <2>2. CASE w = u
      <3>1. CASE v \in better
        BY <1>9, <1>12, <2>1, <2>2, <3>1 DEF W
      <3>2. CASE v \notin better
        <4>1. v \in DOMAIN st.dist /\ ~(st.dist[u] + Weight(nb, topo, u, v) < st.dist[v])
          BY <2>2, <3>2 DEF better, Better
        <4> QED
          BY <1>2, <1>9, <2>1, <2>2, <3>2, <4>1
      <3> QED
        BY <3>1, <3>2
    <2>3. CASE w # u
      <3>1. Closed(st, w)
        BY <1>16, <2>3
      <3>2. v \in DOMAIN st.dist /\ st.dist[v] <= st.dist[w] + Weight(nb, topo, w, v)
        BY <3>1 DEF LoopInv, ClosedIsRelaxed, Closed
      <3>3. CASE v \in better
        <4>1. s.dist[v] < st.dist[v]
          BY <1>9, <3>2, <3>3 DEF better, Better, W
        <4> QED
          BY <1>2, <1>9, <1>12, <2>1, <3>2, <3>3, <4>1
      <3>4. CASE v \notin better
        BY <1>9, <2>1, <3>2, <3>4
      <3> QED
        BY <3>3, <3>4
    <2> QED
      BY <2>2, <2>3
  <1>21. ClosedIsNear(s)
    <2> SUFFICES ASSUME NEW w \in DOMAIN s.dist, Closed(s, w), NEW x \in s.heap
                 PROVE  s.dist[w] <= x[1]
      BY DEF ClosedIsNear
    <2>1. s.dist[w] <= top[1] /\ s.dist[w] \in Nat /\ top[1] \in Nat
      BY <1>5, <1>12, <1>16, <1>17, <1>18, <1>4
    <2>2. top[1] <= x[1] /\ x[1] \in Nat
      BY <1>4, <1>9, <1>11
    <2> QED
      BY <2>1, <2>2
  <1> QED
    BY <1>6, <1>14, <1>15, <1>16, <1>19, <1>20, <1>21 DEF LoopInv

\* The two outcomes of an iteration.
LEMMA PopOutcome ==
    ASSUME OlsrConstants, NEW nb, NEW topo, IsGraph(nb, topo),
           NEW st, LoopInv(nb, topo, st), st.heap # {}
    PROVE  LET top == Least(st.heap)
               s == PopHeap(Local, nb, topo, st)
           IN  /\ top \in st.heap /\ \A y \in st.heap : top[1] <= y[1]
               /\ \/ /\ top[1] > st.dist[top[2]]
                     /\ s = [st EXCEPT !.heap = st.heap \ {top}]
                  \/ /\ ~(top[1] > st.dist[top[2]])
                     /\ Relaxed(nb, topo, st, top, Better(nb, topo, st, top[2]), s)
  <1> DEFINE top == Least(st.heap)
             u == top[2]
             s == PopHeap(Local, nb, topo, st)
             better == {v \in Links(nb, topo, u) : v \in DOMAIN st.dist =>
                           top[1] + Weight(nb, topo, u, v) < st.dist[v]}
             lower == [v \in better |-> top[1] + Weight(nb, topo, u, v)]
             prevs == [v \in better |-> u]
  <1>1. /\ st.dist \in UNION {[D -> Nat] : D \in SUBSET Ids}
        /\ st.heap \in SUBSET (Nat \X Ids)
    BY DEF LoopInv, LoopTyped, DijkstraState
  <1>2. top \in st.heap /\ \A y \in st.heap : top[1] <= y[1]
    BY <1>1, IdsAreFinite, LeastIsLeast
  <1>3. s = IF top[1] > st.dist[u]
            THEN [st EXCEPT !.heap = st.heap \ {top}]
            ELSE [dist |-> Overlay(lower, st.dist), prev |-> Overlay(prevs, st.prev),
                  heap |-> (st.heap \ {top}) \cup {<<lower[v], v>> : v \in better}]
    BY DEF PopHeap, Least, ImprovedBy, Links, Weight
  <1> HIDE DEF top
  <1>4. ASSUME ~(top[1] > st.dist[u])
        PROVE  Relaxed(nb, topo, st, top, Better(nb, topo, st, u), s)
    <2>1. top[1] = st.dist[u]
      BY <1>1, <1>2, <1>4 DEF LoopInv, HeapOfKnown
    <2>2. better = Better(nb, topo, st, u)
      BY <2>1 DEF Better
    <2> HIDE DEF s
    <2>3. /\ s.dist = Overlay(lower, st.dist) /\ s.prev = Overlay(prevs, st.prev)
          /\ s.heap = (st.heap \ {top}) \cup {<<lower[v], v>> : v \in better}
          /\ s = [dist |-> s.dist, prev |-> s.prev, heap |-> s.heap]
      BY <1>3, <1>4
    <2>4. DOMAIN lower = better /\ DOMAIN prevs = better
      OBVIOUS
    <2>5. \A v \in better : lower[v] = st.dist[u] + Weight(nb, topo, u, v) /\ prevs[v] = u
      BY <2>1
    <2> HIDE DEF better, lower, prevs
    <2>6. /\ DOMAIN s.dist = DOMAIN st.dist \cup better
          /\ \A v \in better : s.dist[v] = lower[v]
          /\ \A v \in DOMAIN st.dist \ better : s.dist[v] = st.dist[v]
          /\ s.dist = [v \in DOMAIN s.dist |-> s.dist[v]]
      BY <2>3, <2>4 DEF Overlay
    <2>7. /\ DOMAIN s.prev = DOMAIN st.prev \cup better
          /\ \A v \in better : s.prev[v] = prevs[v]
          /\ \A v \in DOMAIN st.prev \ better : s.prev[v] = st.prev[v]
          /\ s.prev = [v \in DOMAIN s.prev |-> s.prev[v]]
      BY <2>3, <2>4 DEF Overlay
    <2>8. s.heap = (st.heap \ {top}) \cup {<<s.dist[v], v>> : v \in better}
      BY <2>3, <2>6
    <2> QED
      BY <2>2, <2>3, <2>5, <2>6, <2>7, <2>8 DEF Relaxed
  <1> HIDE DEF s, better, lower, prevs
  <1> QED
    BY <1>2, <1>3, <1>4 DEF top, s

\* The invariant of the loop is kept.
LEMMA PopLoopInv ==
    ASSUME OlsrConstants, NEW nb, NEW topo, IsGraph(nb, topo),
           NEW st, LoopInv(nb, topo, st), st.heap # {}
    PROVE  LoopInv(nb, topo, PopHeap(Local, nb, topo, st))
  BY PopOutcome, SkipLoopInv, RelaxLoopInv

---------------------------------------------------------------------------
(* The loop ends *)

\* Links not relaxed yet: each may push one pair more.
Pending(nb, topo, st) ==
    {e \in Ids \X Ids : e[2] \in Links(nb, topo, e[1]) /\ ~Closed(st, e[1])}

\* What is still to be popped, at most.
Work(nb, topo, st) == Cardinality(st.heap) + Cardinality(Pending(nb, topo, st))

\* Every iteration pops one pair, and pushes at most one for each link it
\* relaxes.
LEMMA PopWorks ==
    ASSUME OlsrConstants, NEW nb, NEW topo, IsGraph(nb, topo),
           NEW st, LoopInv(nb, topo, st), st.heap # {}, IsFiniteSet(st.heap)
    PROVE  LET s == PopHeap(Local, nb, topo, st)
           IN  /\ IsFiniteSet(s.heap)
               /\ Work(nb, topo, st) \in Nat /\ Work(nb, topo, s) \in Nat
               /\ Work(nb, topo, s) < Work(nb, topo, st)
  <1> DEFINE top == Least(st.heap)
             u == top[2]
             s == PopHeap(Local, nb, topo, st)
             rest == st.heap \ {top}
             P(x) == Pending(nb, topo, x)
  <1>1. top \in st.heap /\ \A y \in st.heap : top[1] <= y[1]
    BY PopOutcome
  <1>2. IsFiniteSet(Ids \X Ids)
    BY IdsAreFinite, FS_Product
  <1>3. \A x : P(x) \subseteq Ids \X Ids
    BY DEF Pending
  <1>4. \A x : IsFiniteSet(P(x)) /\ Cardinality(P(x)) \in Nat
    BY <1>2, <1>3, FS_Subset, FS_CardinalityType
  <1>5. IsFiniteSet(rest) /\ Cardinality(rest) = Cardinality(st.heap) - 1
    BY <1>1, FS_RemoveElement
  <1>6. Cardinality(st.heap) \in Nat /\ Cardinality(rest) \in Nat
    BY <1>5, FS_CardinalityType
  <1>7. CASE top[1] > st.dist[u] /\ s = [st EXCEPT !.heap = rest]
    <2>1. /\ st \in DijkstraState
          /\ \A v \in DOMAIN st.dist : st.dist[v] \in Nat
      BY DEF LoopInv, LoopTyped, DijkstraState
    <2>2. s.dist = st.dist /\ s.heap = rest
      BY <1>7, <2>1 DEF DijkstraState
    <2> HIDE DEF s
    <2>3. \A v : Closed(s, v) <=> Closed(st, v)
      <3> TAKE v
      <3>1. ASSUME v \in DOMAIN st.dist PROVE <<st.dist[v], v>> # top
        <4> SUFFICES ASSUME <<st.dist[v], v>> = top PROVE FALSE
          OBVIOUS
        <4>1. top[1] = st.dist[v] /\ top[2] = v
          OBVIOUS
        <4> QED
          BY <1>7, <2>1, <3>1, <4>1
      <3> QED
        BY <2>2, <3>1 DEF Closed
    <2>4. P(s) = P(st)
      BY <2>3 DEF Pending
    <2> HIDE DEF P, top
    <2> QED
      BY <1>4, <1>5, <1>6, <2>2, <2>4 DEF Work, P, s
  <1>8. CASE /\ ~(top[1] > st.dist[u])
             /\ Relaxed(nb, topo, st, top, Better(nb, topo, st, u), s)
    <2> DEFINE better == Better(nb, topo, st, u)
               new == {<<s.dist[v], v>> : v \in better}
               out == {e \in Ids \X Ids : e[1] = u /\ e[2] \in Links(nb, topo, u)}
               f == [x \in new |-> <<u, x[2]>>]
    <2>1. ~Closed(st, u) /\ \A w : Closed(s, w) <=> w = u \/ Closed(st, w)
      BY <1>1, <1>8, RelaxLoopInv
    <2>2. s.heap = rest \cup new
      BY <1>8 DEF Relaxed
    <2>3. u \in Ids
      BY <1>1 DEF LoopInv, LoopTyped, DijkstraState
    <2> HIDE DEF top, s
    <2>4. out \subseteq P(st) /\ P(s) = P(st) \ out
      BY <2>1 DEF Pending
    <2>5. better \subseteq Links(nb, topo, u) /\ Links(nb, topo, u) \subseteq Ids
      BY <2>3 DEF Better, IsGraph
    <2> HIDE DEF better
    <2>6. f \in [new -> out]
      <3>1. \A x \in new : x[2] \in better
        OBVIOUS
      <3>2. \A x \in new : <<u, x[2]>> \in out
        BY <2>3, <2>5, <3>1
      <3> QED
        BY <3>2
    <2>7. ASSUME NEW x \in new, NEW y \in new, f[x] = f[y] PROVE x = y
      <3>1. x[2] = y[2]
        BY <2>7
      <3>2. x = <<s.dist[x[2]], x[2]>> /\ y = <<s.dist[y[2]], y[2]>>
        OBVIOUS
      <3> QED
        BY <3>1, <3>2
    <2>8. IsFiniteSet(out)
      BY <1>4, <2>4, FS_Subset
    <2> HIDE DEF new, out, f, P
    <2>9. f \in Injection(new, out)
      BY <2>6, <2>7, Fun_IsInj
    <2>10. IsFiniteSet(new) /\ Cardinality(new) <= Cardinality(out)
      BY <2>8, <2>9, FS_Injection
    <2>11. Cardinality(P(s)) = Cardinality(P(st)) - Cardinality(out)
      <3>1. Cardinality(P(s)) = Cardinality(P(st)) - Cardinality(P(st) \cap out)
        BY <1>4, <2>4, FS_Difference
      <3>2. P(st) \cap out = out
        BY <2>4
      <3> QED
        BY <3>1, <3>2
    <2>12. /\ IsFiniteSet(s.heap)
           /\ Cardinality(s.heap) =
                  Cardinality(rest) + Cardinality(new) - Cardinality(rest \cap new)
      BY <1>5, <2>2, <2>10, FS_Union
    <2>13. IsFiniteSet(rest \cap new)
      BY <2>10, FS_Subset
    <2>14. /\ Cardinality(rest \cap new) \in Nat /\ Cardinality(new) \in Nat
           /\ Cardinality(out) \in Nat /\ Cardinality(s.heap) \in Nat
      BY <2>8, <2>10, <2>12, <2>13, FS_CardinalityType
    <2> HIDE DEF rest
    <2> QED
      BY <1>4, <1>5, <1>6, <2>10, <2>11, <2>12, <2>14 DEF Work, P, s
  <1> QED
    BY <1>7, <1>8, PopOutcome

\* The next state of the loop.
LoopStep(nb, topo, st) == IF st.heap = {} THEN st ELSE PopHeap(Local, nb, topo, st)

\* DijkstraRun is the sequence of states of the loop.
LEMMA RunUnfolds ==
    ASSUME OlsrConstants, NEW nb, NEW topo, IsGraph(nb, topo)
    PROVE  LET run == DijkstraRun(Local, nb, topo)
           IN  /\ run[0] = StartState
               /\ \A n \in Nat : run[n + 1] = LoopStep(nb, topo, run[n])
  <1> DEFINE S == {st \in DijkstraState : LoopInv(nb, topo, st)}
             step == [x \in Nat \X S |-> LoopStep(nb, topo, x[2])]
             eq(g) == [n \in Nat |-> IF n = 0 THEN StartState
                                     ELSE LoopStep(nb, topo, g[n - 1])]
             run == DijkstraRun(Local, nb, topo)
  <1>1. StartState \in S
    BY StartLoopInv DEF LoopInv, LoopTyped
  <1>2. \A st \in S : LoopStep(nb, topo, st) \in S
    <2> TAKE st \in S
    <2>1. CASE st.heap = {}
      BY <2>1 DEF LoopStep
    <2>2. CASE st.heap # {}
      <3>1. LoopInv(nb, topo, PopHeap(Local, nb, topo, st))
        BY <2>2, PopLoopInv
      <3> QED
        BY <2>2, <3>1 DEF LoopStep, LoopInv, LoopTyped
    <2> QED
      BY <2>1, <2>2
  <1> HIDE DEF S
  <1>3. step \in [Nat \X S -> S]
    BY <1>2
  <1>4. PICK f : Iterates(f, S, StartState, step)
    <2> HIDE DEF step
    <2> QED
      BY <1>1, <1>3, Recursion
  <1>5. f = eq(f)
    <2>1. ASSUME NEW n \in Nat
          PROVE f[n] = IF n = 0 THEN StartState ELSE LoopStep(nb, topo, f[n - 1])
      <3>1. CASE n = 0
        BY <1>4, <3>1 DEF Iterates
      <3>2. CASE n # 0
        <4>1. n - 1 \in Nat /\ (n - 1) + 1 = n
          BY <3>2
        <4>2. f[n] = step[<<n - 1, f[n - 1]>>]
          BY <1>4, <4>1 DEF Iterates
        <4>3. f[n - 1] \in S
          BY <1>4, <4>1 DEF Iterates
        <4> QED
          BY <3>2, <4>1, <4>2, <4>3
      <3> QED
        BY <3>1, <3>2
    <2> QED
      BY <1>4, <2>1 DEF Iterates
  <1>6. run = CHOOSE g : g = eq(g)
    BY DEF DijkstraRun, LoopStep, StartState
  <1>7. run = eq(run)
    <2> HIDE DEF run, eq
    <2> QED
      BY <1>5, <1>6
  <1> HIDE DEF run
  <1>8. run[0] = StartState
    BY <1>7
  <1>9. ASSUME NEW n \in Nat PROVE run[n + 1] = LoopStep(nb, topo, run[n])
    <2>1. n + 1 \in Nat /\ n + 1 # 0 /\ (n + 1) - 1 = n
      OBVIOUS
    <2> QED
      BY <1>7, <2>1
  <1> QED
    BY <1>8, <1>9 DEF run

\* After one iteration per link and one more the heap is empty.
LEMMA RunEnds ==
    ASSUME OlsrConstants, NEW nb, NEW topo, IsGraph(nb, topo)
    PROVE  LET links == {e \in Ids \X Ids : e[2] \in Links(nb, topo, e[1])}
               st == DijkstraRun(Local, nb, topo)[Cardinality(links) + 1]
           IN  LoopInv(nb, topo, st) /\ st.heap = {}
  <1> DEFINE links == {e \in Ids \X Ids : e[2] \in Links(nb, topo, e[1])}
             run == DijkstraRun(Local, nb, topo)
             W(n) == Work(nb, topo, run[n])
             max == Cardinality(links) + 1
             N == {n \in Nat : /\ LoopInv(nb, topo, run[n])
                               /\ IsFiniteSet(run[n].heap)
                               /\ W(n) \in Nat
                               /\ run[n].heap = {} \/ W(n) + n <= max}
  <1>1. run[0] = StartState /\ \A n \in Nat : run[n + 1] = LoopStep(nb, topo, run[n])
    BY RunUnfolds
  <1>2. Cardinality(links) \in Nat /\ max \in Nat
    <2>1. IsFiniteSet(Ids \X Ids)
      BY IdsAreFinite, FS_Product
    <2>2. links \subseteq Ids \X Ids
      OBVIOUS
    <2> HIDE DEF links
    <2>3. IsFiniteSet(links)
      BY <2>1, <2>2, FS_Subset
    <2>4. Cardinality(links) \in Nat
      BY <2>3, FS_CardinalityType
    <2> QED
      BY <2>4
  <1>3. 0 \in N
    <2>1. LoopInv(nb, topo, run[0])
      BY <1>1, StartLoopInv
    <2>2. run[0].heap = {<<0, Local>>}
      BY <1>1 DEF StartState
    <2>3. IsFiniteSet(run[0].heap) /\ Cardinality(run[0].heap) = 1
      <3>1. \A x : IsFiniteSet({x}) /\ Cardinality({x}) = 1
        BY FS_Singleton, Zenon
      <3> HIDE DEF run
      <3> QED
        BY <2>2, <3>1
    <2>4. Pending(nb, topo, run[0]) = links
      <3>1. \A u : ~Closed(run[0], u)
        BY <1>1 DEF Closed, StartState
      <3> QED
        BY <3>1 DEF Pending
    <2> HIDE DEF run, links
    <2>5. W(0) = 1 + Cardinality(links)
      BY <2>3, <2>4 DEF Work
    <2> QED
      BY <1>2, <2>1, <2>3, <2>5
  <1> HIDE DEF max, run
  <1>4. ASSUME NEW n \in N PROVE n + 1 \in N
    <2>1. n \in Nat /\ run[n + 1] = LoopStep(nb, topo, run[n])
      BY <1>1
    <2>2. CASE run[n].heap = {}
      <3>1. run[n + 1] = run[n]
        BY <2>1, <2>2 DEF LoopStep
      <3> QED
        BY <2>1, <2>2, <3>1
    <2>3. CASE run[n].heap # {}
      <3>1. run[n + 1] = PopHeap(Local, nb, topo, run[n])
        BY <2>1, <2>3 DEF LoopStep
      <3>2. LoopInv(nb, topo, run[n + 1])
        BY <2>3, <3>1, PopLoopInv
      <3>3. IsFiniteSet(run[n + 1].heap) /\ W(n + 1) \in Nat /\ W(n + 1) < W(n)
        BY <2>3, <3>1, PopWorks
      <3>4. W(n) \in Nat /\ W(n) + n <= max
        BY <2>3
      <3> HIDE DEF W
      <3>5. W(n + 1) + (n + 1) <= max
        BY <1>2, <2>1, <3>3, <3>4
      <3> QED
        BY <2>1, <3>2, <3>3, <3>5
    <2> QED
      BY <2>2, <2>3
  <1>5. N \in SUBSET Nat
    OBVIOUS
  <1> HIDE DEF N
  <1>6. max \in N
    BY <1>2, <1>3, <1>4, <1>5, Induction
  <1> USE DEF N
  <1>7. run[max].heap = {} \/ W(max) = 0
    BY <1>2, <1>6
  <1>8. W(max) = 0 => run[max].heap = {}
    <2>1. IsFiniteSet(run[max].heap) /\ Cardinality(run[max].heap) \in Nat
      BY <1>6, FS_CardinalityType
    <2>2. Cardinality(Pending(nb, topo, run[max])) \in Nat
      <3>1. IsFiniteSet(Ids \X Ids)
        BY IdsAreFinite, FS_Product
      <3>2. Pending(nb, topo, run[max]) \subseteq Ids \X Ids
        BY DEF Pending
      <3>3. IsFiniteSet(Pending(nb, topo, run[max]))
        BY <3>1, <3>2, FS_Subset
      <3> QED
        BY <3>3, FS_CardinalityType
    <2>3. W(max) = 0 => Cardinality(run[max].heap) = 0
      BY <2>1, <2>2 DEF Work
    <2> QED
      BY <2>1, <2>3, FS_EmptySet
  <1> QED
    BY <1>6, <1>7, <1>8 DEF max, run

---------------------------------------------------------------------------
(* What the loop has computed *)

\* Every node found is one link behind its predecessor.
Linked(nb, topo, st) ==
    /\ DOMAIN st.dist \subseteq Ids /\ Local \in DOMAIN st.dist
    /\ st.dist[Local] = 0
    /\ \A v \in DOMAIN st.dist : st.dist[v] \in Nat
    /\ \A v \in DOMAIN st.dist \ {Local} :
           /\ st.prev[v] \in DOMAIN st.dist
           /\ v \in Links(nb, topo, st.prev[v])
           /\ st.dist[v] = st.dist[st.prev[v]] + Weight(nb, topo, st.prev[v], v)

\* And no link would bring a node nearer.
Settled(nb, topo, st) ==
    /\ Linked(nb, topo, st)
    /\ \A u \in DOMAIN st.dist : \A v \in Links(nb, topo, u) :
           v \in DOMAIN st.dist /\ st.dist[v] <= st.dist[u] + Weight(nb, topo, u, v)

\* The predecessors are right from the beginning of the loop.
LEMMA LoopLinked ==
    ASSUME NEW nb, NEW topo, NEW st, LoopInv(nb, topo, st)
    PROVE  Linked(nb, topo, st)
  <1>1. st.dist \in UNION {[D -> Nat] : D \in SUBSET Ids}
    BY DEF LoopInv, LoopTyped, DijkstraState
  <1>2. DOMAIN st.dist \subseteq Ids /\ \A v \in DOMAIN st.dist : st.dist[v] \in Nat
    BY <1>1
  <1> QED
    BY <1>2 DEF LoopInv, LoopTyped, PrevIsClosed, Closed, Linked

\* With an empty heap all nodes found are final.
LEMMA EmptyHeapSettled ==
    ASSUME NEW nb, NEW topo, NEW st, LoopInv(nb, topo, st), st.heap = {}
    PROVE  Settled(nb, topo, st)
  <1>1. \A u : Closed(st, u) <=> u \in DOMAIN st.dist
    BY DEF Closed
  <1> QED
    BY <1>1, LoopLinked DEF LoopInv, ClosedIsRelaxed, Settled

\* A walk over links.
IsWalk(nb, topo, p) ==
    /\ p \in Seq(Ids) /\ Len(p) \in Nat \ {0}
    /\ \A i \in 1 .. Len(p) - 1 : p[i + 1] \in Links(nb, topo, p[i])

\* The costs along a walk add up.
LEMMA CostsUnfold ==
    ASSUME NEW nb, NEW topo, IsGraph(nb, topo), NEW p, IsWalk(nb, topo, p)
    PROVE  LET sum == CostsAlong(Local, nb, topo, p)
           IN  /\ sum[0] = 0
               /\ \A i \in 1 .. Len(p) - 1 :
                      sum[i] = sum[i - 1] + Weight(nb, topo, p[i], p[i + 1])
  <1> DEFINE last == Len(p) - 1
             W(i) == Weight(nb, topo, p[i], p[i + 1])
             cost == [i \in 1 .. last |-> W(i)]
             step == [x \in Nat \X Nat |-> IF x[1] + 1 \in 1 .. last
                                           THEN x[2] + cost[x[1] + 1] ELSE 0]
             eq(g) == [i \in 0 .. last |-> IF i = 0 THEN 0 ELSE g[i - 1] + W(i)]
             sum == CostsAlong(Local, nb, topo, p)
  <1>1. last \in Nat /\ \A i \in 1 .. last : cost[i] = W(i) /\ W(i) \in Nat
    <2>1. last \in Nat
      BY DEF IsWalk
    <2>2. ASSUME NEW i \in 1 .. last PROVE W(i) \in Nat
      <3>1. p[i] \in Ids /\ p[i + 1] \in Links(nb, topo, p[i])
        BY DEF IsWalk
      <3> QED
        BY <3>1 DEF IsGraph
    <2> HIDE DEF W, last
    <2> QED
      BY <2>1, <2>2
  <1> HIDE DEF W, last, cost
  <1>2. step \in [Nat \X Nat -> Nat]
    <2>1. ASSUME NEW x \in Nat \X Nat
          PROVE  (IF x[1] + 1 \in 1 .. last THEN x[2] + cost[x[1] + 1] ELSE 0) \in Nat
      <3>1. CASE x[1] + 1 \in 1 .. last
        <4>1. cost[x[1] + 1] \in Nat /\ x[2] \in Nat
          BY <1>1, <3>1
        <4> QED
          BY <3>1, <4>1
      <3> QED
        BY <3>1
    <2> QED
      BY <2>1
  <1>3. PICK f : Iterates(f, Nat, 0, step)
    <2> HIDE DEF step
    <2>1. 0 \in Nat
      OBVIOUS
    <2> QED
      BY <1>2, <2>1, Recursion
  <1> DEFINE g == [i \in 0 .. last |-> f[i]]
  <1>4. g = eq(g)
    <2>1. ASSUME NEW i \in 0 .. last PROVE g[i] = IF i = 0 THEN 0 ELSE g[i - 1] + W(i)
      <3>1. CASE i = 0
        BY <1>3, <3>1 DEF Iterates
      <3>2. CASE i # 0
        <4>1. /\ i - 1 \in Nat /\ i - 1 \in 0 .. last /\ (i - 1) + 1 = i
              /\ i \in 1 .. last /\ i \in Nat
          BY <1>1, <3>2
        <4>2. f[i] = step[<<i - 1, f[i - 1]>>] /\ f[i - 1] \in Nat
          BY <1>3, <4>1 DEF Iterates
        <4>3. f[i] = f[i - 1] + cost[i]
          BY <4>1, <4>2
        <4> QED
          BY <1>1, <3>2, <4>1, <4>3
      <3> QED
        BY <3>1, <3>2
    <2> HIDE DEF g
    <2>2. g = [i \in 0 .. last |-> g[i]]
      BY DEF g
    <2> QED
      BY <2>1, <2>2
  <1>5. sum = CHOOSE h : h = eq(h)
    BY DEF CostsAlong, W, last, Weight
  <1>6. sum = eq(sum)
    <2> HIDE DEF sum, eq, g
    <2> QED
      BY <1>4, <1>5
  <1> HIDE DEF sum, g
  <1>7. sum[0] = 0 /\ \A i \in 1 .. last : sum[i] = sum[i - 1] + W(i)
    BY <1>1, <1>6
  <1> QED
    BY <1>7 DEF last, W, sum

\* No walk from the local node is cheaper than the distance computed for its
\* end, and all walks end at nodes that were found.
LEMMA WalksCostMore ==
    ASSUME NEW nb, NEW topo, IsGraph(nb, topo), NEW st, Settled(nb, topo, st),
           NEW p, IsWalk(nb, topo, p), p[1] = Local
    PROVE  LET sum == CostsAlong(Local, nb, topo, p)
           IN  \A i \in 0 .. Len(p) - 1 : /\ p[i + 1] \in DOMAIN st.dist
                                          /\ sum[i] \in Nat
                                          /\ st.dist[p[i + 1]] <= sum[i]
  <1> DEFINE last == Len(p) - 1
             sum == CostsAlong(Local, nb, topo, p)
             Good(i) == /\ p[i + 1] \in DOMAIN st.dist
                        /\ sum[i] \in Nat
                        /\ st.dist[p[i + 1]] <= sum[i]
             N == {i \in Nat : i <= last => Good(i)}
  <1>1. /\ sum[0] = 0
        /\ \A i \in 1 .. last : sum[i] = sum[i - 1] + Weight(nb, topo, p[i], p[i + 1])
    BY CostsUnfold
  <1>2. last \in Nat
    BY DEF IsWalk
  <1> HIDE DEF sum
  <1>3. 0 \in N
    BY <1>1 DEF Settled, Linked
  <1>4. ASSUME NEW i \in N PROVE i + 1 \in N
    <2> SUFFICES ASSUME i + 1 <= last PROVE Good(i + 1)
      OBVIOUS
    <2>1. Good(i)
      BY <1>2
    <2>2. i + 1 \in 1 .. last /\ (i + 1) - 1 = i
      BY <1>2
    <2>3. sum[i + 1] = sum[i] + Weight(nb, topo, p[i + 1], p[(i + 1) + 1])
      BY <1>1, <2>2
    <2> DEFINE u == p[i + 1]
               v == p[(i + 1) + 1]
    <2>4. v \in Links(nb, topo, u)
      BY <2>2 DEF IsWalk
    <2>5. u \in DOMAIN st.dist /\ u \in Ids /\ st.dist[u] \in Nat /\ st.dist[u] <= sum[i]
          /\ sum[i] \in Nat
      BY <2>1 DEF Settled, Linked
    <2> HIDE DEF u, v
    <2>6. Weight(nb, topo, u, v) \in Nat
      BY <2>4, <2>5 DEF IsGraph
    <2>7. v \in DOMAIN st.dist /\ st.dist[v] <= st.dist[u] + Weight(nb, topo, u, v)
          /\ st.dist[v] \in Nat
      BY <2>4, <2>5 DEF Settled, Linked
    <2>8. sum[i + 1] \in Nat /\ st.dist[v] <= sum[i + 1]
      BY <2>3, <2>5, <2>6, <2>7 DEF u, v
    <2> QED
      BY <2>7, <2>8 DEF v
  <1>5. N \in SUBSET Nat
    OBVIOUS
  <1> HIDE DEF N
  <1>6. \A i \in Nat : i \in N
    BY <1>3, <1>4, <1>5, Induction
  <1>7. \A i \in 0 .. last : i \in Nat /\ i <= last
    BY <1>2
  <1>8. \A i \in 0 .. last : Good(i)
    BY <1>6, <1>7 DEF N
  <1> QED
    BY <1>8 DEF sum

---------------------------------------------------------------------------
(* The walk back along the predecessors *)

\* p leads from the local node to v in h links, each from a predecessor.
IsChain(st, v, h, p) ==
    /\ p \in [1 .. h + 1 -> DOMAIN st.dist]
    /\ p[1] = Local /\ p[h + 1] = v
    /\ \A i \in 1 .. h : p[i + 1] # Local /\ st.prev[p[i + 1]] = p[i]

\* Distances fall along predecessors, so the walk from any node found reaches
\* the local node.
LEMMA ChainExists ==
    ASSUME NEW nb, NEW topo, IsGraph(nb, topo), NEW st, Linked(nb, topo, st),
           NEW d \in DOMAIN st.dist
    PROVE  \E h \in Nat : \E p : IsChain(st, d, h, p)
  <1> DEFINE D == DOMAIN st.dist
             Has(v) == \E h \in Nat : \E p : IsChain(st, v, h, p)
             T == {st.dist[v] : v \in {w \in D : ~Has(w)}}
  <1> SUFFICES ASSUME ~Has(d) PROVE FALSE
    OBVIOUS
  <1>1. D \subseteq Ids /\ Local \in D /\ \A v \in D : st.dist[v] \in Nat
    BY DEF Linked
  <1>2. T \in SUBSET Nat /\ T # {}
    <2> HIDE DEF Has
    <2> QED
      BY <1>1
  <1> HIDE DEF T
  <1>3. PICK x \in T : \A y \in T : x <= y
    BY <1>2, LeastNatural
  <1>4. PICK v \in D : ~Has(v) /\ st.dist[v] = x
    <2> HIDE DEF Has
    <2> QED
      BY DEF T
  <1>5. v # Local
    <2> SUFFICES ASSUME v = Local PROVE FALSE
      OBVIOUS
    <2> DEFINE p == [i \in 1 .. 0 + 1 |-> Local]
    <2>1. IsChain(st, v, 0, p)
      BY <1>1 DEF IsChain
    <2> QED
      BY <1>4, <2>1
  <1> DEFINE u == st.prev[v]
  <1>6. /\ u \in D /\ u \in Ids /\ v \in Links(nb, topo, u)
        /\ st.dist[v] = st.dist[u] + Weight(nb, topo, u, v)
    BY <1>1, <1>4, <1>5 DEF Linked
  <1>7. Weight(nb, topo, u, v) \in Nat \ {0}
    BY <1>6 DEF IsGraph
  <1>8. Has(u)
    <2> SUFFICES ASSUME ~Has(u) PROVE FALSE
      OBVIOUS
    <2> HIDE DEF Has, u
    <2>1. st.dist[u] \in T
      BY <1>6 DEF T
    <2> QED
      BY <1>1, <1>3, <1>4, <1>6, <1>7, <2>1
  <1>9. \E h \in Nat : \E p : IsChain(st, u, h, p)
    BY <1>8
  <1>10. PICK h \in Nat : \E p : IsChain(st, u, h, p)
    BY <1>9
  <1>11. PICK p : IsChain(st, u, h, p)
    BY <1>10
  <1> DEFINE q == [i \in 1 .. (h + 1) + 1 |-> IF i = h + 2 THEN v ELSE p[i]]
  <1>12. /\ p \in [1 .. h + 1 -> D] /\ p[1] = Local /\ p[h + 1] = u
         /\ \A i \in 1 .. h : p[i + 1] # Local /\ st.prev[p[i + 1]] = p[i]
    BY <1>11 DEF IsChain
  <1>13. \A i \in 1 .. (h + 1) + 1 : i = h + 2 \/ i \in 1 .. h + 1
    OBVIOUS
  <1>14. /\ q \in [1 .. (h + 1) + 1 -> D] /\ q[h + 2] = v
         /\ \A i \in 1 .. h + 1 : q[i] = p[i]
    BY <1>4, <1>12, <1>13
  <1> HIDE DEF q
  <1>15. q[1] = Local /\ q[h + 1] = u /\ q[(h + 1) + 1] = v
    BY <1>12, <1>14
  <1>16. ASSUME NEW i \in 1 .. h + 1 PROVE q[i + 1] # Local /\ st.prev[q[i + 1]] = q[i]
    <2>1. CASE i = h + 1
      BY <1>5, <1>15, <2>1
    <2>2. CASE i # h + 1
      <3>1. i \in 1 .. h /\ i + 1 \in 1 .. h + 1
        BY <2>2
      <3> QED
        BY <1>12, <1>14, <3>1
    <2> QED
      BY <2>1, <2>2
  <1>17. IsChain(st, v, h + 1, q)
    BY <1>14, <1>15, <1>16 DEF IsChain
  <1> QED
    BY <1>4, <1>17

\* Along the chain the distances grow.
LEMMA ChainGrows ==
    ASSUME NEW nb, NEW topo, IsGraph(nb, topo), NEW st, Linked(nb, topo, st),
           NEW v, NEW h \in Nat, NEW p, IsChain(st, v, h, p)
    PROVE  \A i, j \in 1 .. h + 1 : i < j => st.dist[p[i]] < st.dist[p[j]]
  <1>1. \A i \in 1 .. h + 1 : p[i] \in DOMAIN st.dist /\ st.dist[p[i]] \in Nat
    BY DEF IsChain, Linked
  <1>2. ASSUME NEW i \in 1 .. h PROVE st.dist[p[i]] < st.dist[p[i + 1]]
    <2>1. /\ i \in 1 .. h + 1 /\ i + 1 \in 1 .. h + 1
      OBVIOUS
    <2>2. p[i + 1] \in DOMAIN st.dist \ {Local} /\ st.prev[p[i + 1]] = p[i]
      BY <1>1, <2>1 DEF IsChain
    <2>3. /\ p[i + 1] \in Links(nb, topo, p[i])
          /\ st.dist[p[i + 1]] = st.dist[p[i]] + Weight(nb, topo, p[i], p[i + 1])
      BY <2>2 DEF Linked
    <2>4. p[i] \in Ids
      BY <1>1, <2>1 DEF Linked
    <2>5. Weight(nb, topo, p[i], p[i + 1]) \in Nat \ {0}
      BY <2>3, <2>4 DEF IsGraph
    <2> QED
      BY <1>1, <2>1, <2>3, <2>5
  <1> DEFINE N == {n \in Nat : \A i \in 1 .. h + 1 :
                      i + n + 1 <= h + 1 => st.dist[p[i]] < st.dist[p[i + n + 1]]}
  <1>3. 0 \in N
    BY <1>2
  <1>4. ASSUME NEW n \in N PROVE n + 1 \in N
    <2> SUFFICES ASSUME NEW i \in 1 .. h + 1, i + (n + 1) + 1 <= h + 1
                 PROVE  st.dist[p[i]] < st.dist[p[i + (n + 1) + 1]]
      OBVIOUS
    <2> DEFINE k == i + n + 1
    <2>1. k \in 1 .. h /\ k \in 1 .. h + 1 /\ k + 1 = i + (n + 1) + 1 /\ k + 1 \in 1 .. h + 1
      OBVIOUS
    <2>2. st.dist[p[i]] < st.dist[p[k]]
      BY <2>1
    <2> HIDE DEF k
    <2>3. st.dist[p[k]] < st.dist[p[k + 1]]
      BY <1>2, <2>1
    <2>4. st.dist[p[i]] < st.dist[p[k + 1]]
      BY <1>1, <2>1, <2>2, <2>3
    <2> QED
      BY <2>1, <2>4
  <1>5. N \in SUBSET Nat
    OBVIOUS
  <1> HIDE DEF N
  <1>6. \A n \in Nat : n \in N
    BY <1>3, <1>4, <1>5, Induction
  <1>7. \A n \in Nat : \A i \in 1 .. h + 1 :
            i + n + 1 <= h + 1 => st.dist[p[i]] < st.dist[p[i + n + 1]]
    BY <1>6 DEF N
  <1> SUFFICES ASSUME NEW i \in 1 .. h + 1, NEW j \in 1 .. h + 1, i < j
               PROVE  st.dist[p[i]] < st.dist[p[j]]
    OBVIOUS
  <1> DEFINE m == (j - i) - 1
  <1>8. m \in Nat /\ i + m + 1 = j
    OBVIOUS
  <1> HIDE DEF m
  <1>9. i + m + 1 <= h + 1
    BY <1>8
  <1> QED
    BY <1>7, <1>8, <1>9

\* So the nodes of the chain differ, and it is no longer than the nodes found.
LEMMA ChainIsSimple ==
    ASSUME OlsrConstants, NEW nb, NEW topo, IsGraph(nb, topo),
           NEW st, Linked(nb, topo, st),
           NEW v, NEW h \in Nat, NEW p, IsChain(st, v, h, p)
    PROVE  /\ \A i, j \in 1 .. h + 1 : p[i] = p[j] => i = j
           /\ Cardinality(DOMAIN st.dist) \in Nat
           /\ h + 1 <= Cardinality(DOMAIN st.dist)
  <1>1. ASSUME NEW i \in 1 .. h + 1, NEW j \in 1 .. h + 1, p[i] = p[j] PROVE i = j
    <2>1. st.dist[p[i]] \in Nat
      BY DEF IsChain, Linked
    <2>2. ~(st.dist[p[i]] < st.dist[p[j]]) /\ ~(st.dist[p[j]] < st.dist[p[i]])
      BY <1>1, <2>1
    <2>3. ~(i < j) /\ ~(j < i)
      BY <2>2, ChainGrows
    <2> QED
      BY <2>3
  <1>2. p \in Injection(1 .. h + 1, DOMAIN st.dist)
    BY <1>1, Fun_IsInj DEF IsChain
  <1>3. IsFiniteSet(DOMAIN st.dist)
    BY IdsAreFinite, FS_Subset DEF Linked
  <1>4. Cardinality(1 .. h + 1) <= Cardinality(DOMAIN st.dist)
    BY <1>2, <1>3, FS_Injection
  <1>5. Cardinality(1 .. h + 1) = h + 1
    <2>1. 1 \in Int /\ h + 1 \in Int /\ ~(1 > h + 1) /\ (h + 1) - 1 + 1 = h + 1
      OBVIOUS
    <2>2. Cardinality(1 .. h + 1) = IF 1 > h + 1 THEN 0 ELSE (h + 1) - 1 + 1
      BY <2>1, FS_Interval
    <2> QED
      BY <2>1, <2>2
  <1> QED
    BY <1>1, <1>3, <1>4, <1>5, FS_CardinalityType

\* Walk goes back along the predecessors.
LEMMA WalkUnfolds ==
    ASSUME NEW nb, NEW topo, NEW st, Linked(nb, topo, st), NEW d \in DOMAIN st.dist
    PROVE  LET trace == Walk(Local, st.prev, d)
           IN  /\ trace[0] = d
               /\ \A n \in Nat : trace[n + 1] = IF trace[n] = Local THEN Local
                                               ELSE st.prev[trace[n]]
  <1> DEFINE D == DOMAIN st.dist
             Before(x) == IF x = Local THEN Local ELSE st.prev[x]
             step == [x \in Nat \X D |-> Before(x[2])]
             eq(g) == [n \in Nat |-> IF n = 0 THEN d ELSE Before(g[n - 1])]
             trace == Walk(Local, st.prev, d)
  <1>1. \A x \in D : Before(x) \in D
    BY DEF Linked
  <1> HIDE DEF D, Before
  <1>2. step \in [Nat \X D -> D]
    BY <1>1
  <1>3. PICK f : Iterates(f, D, d, step)
    <2> HIDE DEF step
    <2>1. d \in D
      BY DEF D
    <2> QED
      BY <1>2, <2>1, Recursion
  <1>4. f = eq(f)
    <2>1. ASSUME NEW n \in Nat PROVE f[n] = IF n = 0 THEN d ELSE Before(f[n - 1])
      <3>1. CASE n = 0
        BY <1>3, <3>1 DEF Iterates
      <3>2. CASE n # 0
        <4>1. n - 1 \in Nat /\ (n - 1) + 1 = n
          BY <3>2
        <4>2. f[n] = step[<<n - 1, f[n - 1]>>] /\ f[n - 1] \in D
          BY <1>3, <4>1 DEF Iterates
        <4> QED
          BY <3>2, <4>1, <4>2
      <3> QED
        BY <3>1, <3>2
    <2> QED
      BY <1>3, <2>1 DEF Iterates
  <1>5. trace = CHOOSE g : g = eq(g)
    BY DEF Walk, Before
  <1>6. trace = eq(trace)
    <2> HIDE DEF trace, eq
    <2> QED
      BY <1>4, <1>5
  <1> HIDE DEF trace
  <1>7. trace[0] = d
    BY <1>6
  <1>8. ASSUME NEW n \in Nat PROVE trace[n + 1] = Before(trace[n])
    <2>1. n + 1 \in Nat /\ n + 1 # 0 /\ (n + 1) - 1 = n
      OBVIOUS
    <2> QED
      BY <1>6, <2>1
  <1> QED
    BY <1>7, <1>8 DEF trace, Before

\* It meets the nodes of the chain in reverse.
LEMMA WalkIsChain ==
    ASSUME NEW nb, NEW topo, NEW st, Linked(nb, topo, st),
           NEW d \in DOMAIN st.dist, NEW h \in Nat, NEW p, IsChain(st, d, h, p)
    PROVE  \A k \in 0 .. h : Walk(Local, st.prev, d)[k] = p[(h + 1) - k]
  <1> DEFINE trace == Walk(Local, st.prev, d)
             N == {k \in Nat : k <= h => trace[k] = p[(h + 1) - k]}
  <1>1. /\ trace[0] = d
        /\ \A n \in Nat : trace[n + 1] = IF trace[n] = Local THEN Local ELSE st.prev[trace[n]]
    BY WalkUnfolds
  <1> HIDE DEF trace
  <1>2. 0 \in N
    BY <1>1 DEF IsChain
  <1>3. ASSUME NEW k \in N PROVE k + 1 \in N
    <2> SUFFICES ASSUME k + 1 <= h PROVE trace[k + 1] = p[(h + 1) - (k + 1)]
      OBVIOUS
    <2> DEFINE i == h - k
    <2>1. i \in 1 .. h /\ (h + 1) - k = i + 1 /\ (h + 1) - (k + 1) = i /\ k \in Nat /\ k <= h
      OBVIOUS
    <2> HIDE DEF i
    <2>2. trace[k] = p[i + 1]
      BY <2>1
    <2>3. p[i + 1] # Local /\ st.prev[p[i + 1]] = p[i]
      BY <2>1 DEF IsChain
    <2> QED
      BY <1>1, <2>1, <2>2, <2>3
  <1>4. N \in SUBSET Nat
    OBVIOUS
  <1> HIDE DEF N
  <1>5. \A k \in Nat : k \in N
    BY <1>2, <1>3, <1>4, Induction
  <1>6. \A k \in 0 .. h : k \in Nat /\ k <= h
    OBVIOUS
  <1>7. \A k \in 0 .. h : trace[k] = p[(h + 1) - k]
    BY <1>5, <1>6 DEF N
  <1> QED
    BY <1>7 DEF trace

---------------------------------------------------------------------------
(* The paths of the reference definition *)

\* A walk from the local node to d, another node.
IsWalkTo(nb, topo, p, d) ==
    IsWalk(nb, topo, p) /\ Len(p) >= 2 /\ p[1] = Local /\ p[Len(p)] = d

\* A path of the reference definition is a walk from the local node to d.
LEMMA PathIsWalk ==
    ASSUME OlsrConstants, NEW nb, NEW topo, IsGraph(nb, topo), NEW d \in Ids,
           NEW p \in PathsTo(Local, nb, topo, Ids, d)
    PROVE  IsWalkTo(nb, topo, p, d)
  <1>1. PICK mid \in SetToAllKPermutations(Ids \ {Local, d}) : p = <<Local>> \o mid \o <<d>>
    BY DEF PathsTo
  <1>2. mid \in Seq(Ids)
    <2>1. PICK s \in SUBSET (Ids \ {Local, d}) : mid \in SetToSeqs(s)
      BY <1>1 DEF SetToAllKPermutations
    <2>2. IsFiniteSet(s)
      BY IdsAreFinite, FS_Subset
    <2>3. Cardinality(s) \in Nat
      BY <2>2, FS_CardinalityType
    <2>4. mid \in [1 .. Cardinality(s) -> s]
      BY <2>1 DEF SetToSeqs
    <2>5. mid \in [1 .. Cardinality(s) -> Ids]
      BY <2>4
    <2> QED
      BY <2>3, <2>5, SeqDef
  <1>3. Local \in Ids
    BY DEF Ids
  <1>4. /\ <<Local>> \o mid \in Seq(Ids) /\ Len(<<Local>> \o mid) = 1 + Len(mid)
        /\ (<<Local>> \o mid)[1] = Local /\ Len(mid) \in Nat
    BY <1>2, <1>3
  <1>5. p \in Seq(Ids) /\ Len(p) = Len(mid) + 2 /\ p[1] = Local /\ p[Len(p)] = d
    BY <1>1, <1>4
  <1>6. \A i \in 1 .. Len(p) - 1 : p[i + 1] \in Links(nb, topo, p[i])
    BY DEF PathsTo, Links
  <1> QED
    BY <1>4, <1>5, <1>6 DEF IsWalkTo, IsWalk

\* The chain of predecessors is such a path.
LEMMA ChainIsPath ==
    ASSUME OlsrConstants, NEW nb, NEW topo, IsGraph(nb, topo),
           NEW st, Linked(nb, topo, st),
           NEW d \in DOMAIN st.dist \ {Local}, NEW h \in Nat, NEW p, IsChain(st, d, h, p)
    PROVE  h >= 1 /\ p \in PathsTo(Local, nb, topo, Ids, d)
  <1>1. /\ p \in [1 .. h + 1 -> DOMAIN st.dist] /\ DOMAIN st.dist \subseteq Ids
        /\ p[1] = Local /\ p[h + 1] = d
        /\ \A i \in 1 .. h : p[i + 1] # Local /\ st.prev[p[i + 1]] = p[i]
    BY DEF IsChain, Linked
  <1>2. h >= 1
    BY <1>1
  <1>3. \A i, j \in 1 .. h + 1 : p[i] = p[j] => i = j
    BY ChainIsSimple
  <1> DEFINE n == h - 1
             mid == [i \in 1 .. n |-> p[i + 1]]
             s == {mid[i] : i \in 1 .. n}
  <1>4. n \in Nat /\ h = n + 1
    BY <1>2
  <1>5. \A i \in 1 .. n : i + 1 \in 1 .. h + 1 /\ i + 1 # 1 /\ i + 1 # h + 1
    BY <1>4
  <1>6. ASSUME NEW i \in 1 .. n PROVE mid[i] = p[i + 1] /\ mid[i] \in Ids \ {Local, d}
    <2>1. p[i + 1] \in Ids
      BY <1>1, <1>5
    <2>2. 1 \in 1 .. h + 1 /\ h + 1 \in 1 .. h + 1
      OBVIOUS
    <2>3. p[i + 1] # p[1] /\ p[i + 1] # p[h + 1]
      BY <1>3, <1>5, <2>2
    <2> QED
      BY <1>1, <2>1, <2>3
  <1>7. \A i, j \in 1 .. n : i # j => mid[i] # mid[j]
    <2> TAKE i, j \in 1 .. n
    <2> HAVE i # j
    <2>1. p[i + 1] # p[j + 1]
      BY <1>3, <1>4, <1>5
    <2> QED
      BY <1>6, <2>1
  <1>8. mid \in [1 .. n -> s]
    OBVIOUS
  <1>9. s \in SUBSET (Ids \ {Local, d})
    BY <1>6
  <1>10. Len(mid) = n /\ mid \in Seq(Ids)
    <2>1. mid \in [1 .. n -> Ids]
      BY <1>6
    <2> QED
      BY <1>4, <2>1, SeqDef
  <1>11. Cardinality(s) = n
    <2>1. \A x \in s : \E i \in 1 .. n : mid[i] = x
      OBVIOUS
    <2> HIDE DEF mid, s, n
    <2>2. mid \in Bijection(1 .. n, s)
      BY <1>7, <1>8, <2>1, Fun_IsBij
    <2>3. ExistsBijection(1 .. n, s)
      BY <2>2 DEF ExistsBijection
    <2>4. 1 \in Int /\ n \in Int /\ (IF 1 > n THEN 0 ELSE n - 1 + 1) = n
      BY <1>4
    <2>5. IsFiniteSet(1 .. n) /\ Cardinality(1 .. n) = IF 1 > n THEN 0 ELSE n - 1 + 1
      BY <2>4, FS_Interval
    <2> QED
      BY <2>3, <2>4, <2>5, FS_Bijection
  <1>12. mid \in SetToSeqs(s)
    <2> HIDE DEF mid, s, n
    <2> QED
      BY <1>7, <1>8, <1>11 DEF SetToSeqs
  <1>13. mid \in SetToAllKPermutations(Ids \ {Local, d})
    <2> HIDE DEF mid, s
    <2> QED
      BY <1>9, <1>12 DEF SetToAllKPermutations
  <1>14. p = <<Local>> \o mid \o <<d>>
    <2> DEFINE a == <<Local>> \o mid
               q == a \o <<d>>
    <2>1. Local \in Ids /\ d \in Ids
      BY <1>1 DEF Ids
    <2> HIDE DEF mid
    <2>2. /\ a \in Seq(Ids) /\ Len(a) = n + 1 /\ a[1] = Local
          /\ \A i \in 2 .. n + 1 : a[i] = mid[i - 1]
      BY <1>4, <1>10, <2>1
    <2> HIDE DEF a
    <2>3. /\ q \in Seq(Ids) /\ Len(q) = n + 2 /\ q[1] = Local /\ q[n + 2] = d
          /\ \A i \in 2 .. n + 1 : q[i] = mid[i - 1]
      BY <1>4, <2>1, <2>2
    <2>4. p \in Seq(Ids) /\ Len(p) = n + 2
      <3>1. p \in [1 .. h + 1 -> Ids] /\ h + 1 \in Nat /\ h + 1 = n + 2
        BY <1>1, <1>4
      <3> QED
        BY <3>1, SeqDef
    <2> HIDE DEF q
    <2>5. ASSUME NEW i \in 1 .. n + 2 PROVE p[i] = q[i]
      <3>1. CASE i = 1
        BY <1>1, <2>3, <3>1
      <3>2. CASE i = n + 2
        BY <1>1, <1>4, <2>3, <3>2
      <3>3. CASE i # 1 /\ i # n + 2
        <4>1. i \in 2 .. n + 1 /\ i - 1 \in 1 .. n /\ (i - 1) + 1 = i
          BY <1>4, <3>3
        <4> QED
          BY <1>6, <2>3, <4>1
      <3> QED
        BY <3>1, <3>2, <3>3
    <2>6. p = q
      BY <2>3, <2>4, <2>5
    <2> QED
      BY <2>6 DEF q, a
  <1>15. ASSUME NEW i \in 1 .. h PROVE p[i + 1] \in Links(nb, topo, p[i])
    <2>1. i + 1 \in 1 .. h + 1
      OBVIOUS
    <2>2. p[i + 1] \in DOMAIN st.dist
      BY <1>1, <2>1
    <2>3. p[i + 1] # Local /\ st.prev[p[i + 1]] = p[i]
      BY <1>1
    <2> QED
      BY <2>2, <2>3 DEF Linked
  <1>16. Len(p) = h + 1
    BY <1>1
  <1>17. p \in PathsTo(Local, nb, topo, Ids, d)
    <2>1. \A i \in 1 .. Len(p) - 1 : p[i + 1] \in DOMAIN Edges(Local, nb, topo, p[i])
      BY <1>15, <1>16 DEF Links
    <2> HIDE DEF mid
    <2>2. p \in {<<Local>> \o m \o <<d>> : m \in SetToAllKPermutations(Ids \ {Local, d})}
      BY <1>13, <1>14, Zenon
    <2> QED
      BY <2>1, <2>2, Zenon DEF PathsTo
  <1> QED
    BY <1>2, <1>17

\* Its cost is the distance computed for its end.
LEMMA ChainCost ==
    ASSUME OlsrConstants, NEW nb, NEW topo, IsGraph(nb, topo),
           NEW st, Linked(nb, topo, st),
           NEW d \in DOMAIN st.dist \ {Local}, NEW h \in Nat, NEW p, IsChain(st, d, h, p)
    PROVE  PathCost(Local, nb, topo, p) = st.dist[d]
  <1>1. p \in PathsTo(Local, nb, topo, Ids, d)
    BY ChainIsPath
  <1>2. d \in Ids
    BY DEF Linked
  <1>3. IsWalk(nb, topo, p) /\ p[1] = Local
    <2>1. IsWalkTo(nb, topo, p, d)
      BY <1>1, <1>2, PathIsWalk
    <2> QED
      BY <2>1 DEF IsWalkTo
  <1>4. Len(p) = h + 1
    BY DEF IsChain
  <1> DEFINE sum == CostsAlong(Local, nb, topo, p)
             N == {i \in Nat : i <= h => sum[i] = st.dist[p[i + 1]]}
  <1>5. /\ sum[0] = 0
        /\ \A i \in 1 .. h : sum[i] = sum[i - 1] + Weight(nb, topo, p[i], p[i + 1])
    <2>1. Len(p) - 1 = h
      BY <1>4
    <2> QED
      BY <1>3, <2>1, CostsUnfold
  <1> HIDE DEF sum
  <1>6. 0 \in N
    BY <1>3, <1>5 DEF Linked
  <1>7. ASSUME NEW i \in N PROVE i + 1 \in N
    <2> SUFFICES ASSUME i + 1 <= h PROVE sum[i + 1] = st.dist[p[(i + 1) + 1]]
      OBVIOUS
    <2> DEFINE j == i + 1
    <2>1. j \in 1 .. h /\ j - 1 = i /\ i <= h /\ j + 1 \in 1 .. h + 1
      OBVIOUS
    <2>2. sum[j] = st.dist[p[j]] + Weight(nb, topo, p[j], p[j + 1])
      BY <1>5, <2>1
    <2> HIDE DEF j
    <2>3. p[j + 1] \in DOMAIN st.dist \ {Local} /\ st.prev[p[j + 1]] = p[j]
      BY <2>1 DEF IsChain
    <2>4. st.dist[p[j + 1]] = st.dist[p[j]] + Weight(nb, topo, p[j], p[j + 1])
      BY <2>3 DEF Linked
    <2> QED
      BY <2>2, <2>4 DEF j
  <1>8. N \in SUBSET Nat
    OBVIOUS
  <1> HIDE DEF N
  <1>9. h \in N
    BY <1>6, <1>7, <1>8, Induction
  <1>10. sum[h] = st.dist[p[h + 1]]
    BY <1>9 DEF N
  <1> QED
    BY <1>4, <1>10 DEF PathCost, sum, IsChain

\* The entry written for d: the length and the first hop of the chain, as far
\* as the walk goes.
LEMMA EntryOfChain ==
    ASSUME OlsrConstants, NEW nb, NEW topo, IsGraph(nb, topo),
           NEW st, Linked(nb, topo, st),
           NEW d \in DOMAIN st.dist \ {Local}, NEW h \in Nat, NEW p, IsChain(st, d, h, p)
    PROVE  LET r == RouteEntry(Local, st, d, MAX_HOPS)
           IN  /\ r.cost = st.dist[d]
               /\ r.hop_count = IF h <= MAX_HOPS THEN h ELSE MAX_HOPS
               /\ h <= MAX_HOPS + 1 => r.next_hop = p[2]
  <1> DEFINE trace == Walk(Local, st.prev, d)
             max == Cardinality(DOMAIN st.dist)
             Ends(k) == trace[k] = Local /\ \A j \in 1 .. k - 1 : trace[j] # Local
             length == CHOOSE k \in 1 .. max : Ends(k)
             r == RouteEntry(Local, st, d, MAX_HOPS)
  <1>1. h >= 1 /\ MAX_HOPS \in Nat \ {0}
    BY ChainIsPath DEF OlsrConstants
  <1>2. max \in Nat /\ h + 1 <= max
    BY ChainIsSimple
  <1>3. \A k \in 0 .. h : trace[k] = p[(h + 1) - k]
    BY WalkIsChain
  <1>4. p[1] = Local /\ \A i \in 1 .. h : p[i + 1] # Local
    BY DEF IsChain
  <1>5. r = [next_hop |-> IF length <= MAX_HOPS THEN trace[length - 1] ELSE trace[MAX_HOPS],
             cost |-> st.dist[d],
             hop_count |-> IF length <= MAX_HOPS THEN length ELSE MAX_HOPS]
    BY DEF RouteEntry
  <1> HIDE DEF trace, max
  <1>6. trace[h] = Local
    <2>1. h \in 0 .. h /\ (h + 1) - h = 1
      OBVIOUS
    <2> QED
      BY <1>3, <1>4, <2>1
  <1>7. ASSUME NEW j \in 1 .. h - 1 PROVE trace[j] # Local
    <2>1. j \in 0 .. h /\ h - j \in 1 .. h /\ (h + 1) - j = (h - j) + 1
      OBVIOUS
    <2> QED
      BY <1>3, <1>4, <2>1
  <1>8. Ends(h) /\ h \in 1 .. max
    BY <1>1, <1>2, <1>6, <1>7
  <1>9. ASSUME NEW k \in 1 .. max, Ends(k) PROVE k = h
    <2>1. ~(k < h)
      <3> SUFFICES ASSUME k < h PROVE FALSE
        OBVIOUS
      <3>1. k \in 1 .. h - 1
        BY <1>2
      <3> QED
        BY <1>7, <1>9, <3>1
    <2>2. ~(h < k)
      <3> SUFFICES ASSUME h < k PROVE FALSE
        OBVIOUS
      <3>1. h \in 1 .. k - 1
        BY <1>1, <1>2
      <3> QED
        BY <1>6, <1>9, <3>1
    <2> QED
      BY <1>2, <2>1, <2>2
  <1>10. length = h
    <2> HIDE DEF Ends
    <2> QED
      BY <1>8, <1>9
  <1> HIDE DEF length, r
  <1>11. /\ r.cost = st.dist[d]
         /\ r.hop_count = IF h <= MAX_HOPS THEN h ELSE MAX_HOPS
         /\ r.next_hop = IF h <= MAX_HOPS THEN trace[h - 1] ELSE trace[MAX_HOPS]
    BY <1>5, <1>10
  <1>12. trace[h - 1] = p[2]
    <2>1. h - 1 \in 0 .. h /\ (h + 1) - (h - 1) = 2
      BY <1>1
    <2> QED
      BY <1>3, <2>1
  <1>13. h <= MAX_HOPS + 1 => r.next_hop = p[2]
    <2> HAVE h <= MAX_HOPS + 1
    <2>1. CASE h <= MAX_HOPS
      BY <1>11, <1>12, <2>1
    <2>2. CASE ~(h <= MAX_HOPS)
      <3>1. MAX_HOPS = h - 1
        BY <1>1, <2>2
      <3> QED
        BY <1>11, <1>12, <2>2, <3>1
    <2> QED
      BY <2>1, <2>2
  <1> QED
    BY <1>11, <1>13 DEF r

---------------------------------------------------------------------------
(* The routes *)

\* What RoutesAreBest says of routes r, for a given graph.
BestRoutes(r, nb, topo) ==
    LET Paths(d) == PathsTo(Local, nb, topo, Ids, d)
        Cost(path) == PathCost(Local, nb, topo, path)
    IN  /\ DOMAIN r = {d \in Peers : Paths(d) # {}}
        /\ \A d \in DOMAIN r :
               /\ \A path \in Paths(d) : r[d].cost <= Cost(path)
               /\ \E path \in Paths(d) :
                      /\ Cost(path) = r[d].cost
                      /\ LET hops == Len(path) - 1
                         IN  /\ r[d].hop_count =
                                    IF hops <= MAX_HOPS THEN hops ELSE MAX_HOPS
                             /\ hops <= MAX_HOPS + 1 => path[2] = r[d].next_hop

\* Every path of the reference definition ends at a node that was found and
\* costs at least its distance.
LEMMA PathsCostMore ==
    ASSUME OlsrConstants, NEW nb, NEW topo, IsGraph(nb, topo),
           NEW st, Settled(nb, topo, st),
           NEW d \in Ids, NEW p \in PathsTo(Local, nb, topo, Ids, d)
    PROVE  d \in DOMAIN st.dist /\ st.dist[d] <= PathCost(Local, nb, topo, p)
  <1>1. IsWalkTo(nb, topo, p, d)
    BY PathIsWalk
  <1>2. /\ IsWalk(nb, topo, p) /\ p[1] = Local /\ p[Len(p)] = d
        /\ Len(p) - 1 \in 0 .. Len(p) - 1 /\ (Len(p) - 1) + 1 = Len(p)
    BY <1>1 DEF IsWalkTo, IsWalk
  <1>3. LET sum == CostsAlong(Local, nb, topo, p)
        IN  \A i \in 0 .. Len(p) - 1 : /\ p[i + 1] \in DOMAIN st.dist
                                       /\ sum[i] \in Nat
                                       /\ st.dist[p[i + 1]] <= sum[i]
    BY <1>2, WalksCostMore
  <1> QED
    BY <1>2, <1>3 DEF PathCost

\* recompute_routes finds the best routes of any graph.
LEMMA DijkstraIsBest ==
    ASSUME OlsrConstants, NEW nb, NEW topo, IsGraph(nb, topo)
    PROVE  BestRoutes(RoutesFor(Local, nb, topo, Ids, MAX_HOPS), nb, topo)
  <1> DEFINE links == {e \in Ids \X Ids : e[2] \in Links(nb, topo, e[1])}
             st == DijkstraRun(Local, nb, topo)[Cardinality(links) + 1]
             D == DOMAIN st.dist \ {Local}
             r == RoutesFor(Local, nb, topo, Ids, MAX_HOPS)
             Paths(d) == PathsTo(Local, nb, topo, Ids, d)
             Cost(path) == PathCost(Local, nb, topo, path)
             Shape(d, path) ==
                 LET hops == Len(path) - 1
                 IN  /\ r[d].hop_count = IF hops <= MAX_HOPS THEN hops ELSE MAX_HOPS
                     /\ hops <= MAX_HOPS + 1 => path[2] = r[d].next_hop
  <1>1. LoopInv(nb, topo, st) /\ st.heap = {}
    BY RunEnds
  <1>2. r = [d \in D |-> RouteEntry(Local, st, d, MAX_HOPS)]
    BY DEF RoutesFor, Links
  <1> HIDE DEF st, r
  <1>3. Settled(nb, topo, st) /\ Linked(nb, topo, st)
    BY <1>1, EmptyHeapSettled, LoopLinked
  <1>4. D \subseteq Peers /\ Peers \subseteq Ids /\ Local \notin Peers
    BY <1>3 DEF Linked, Ids, OlsrConstants
  <1>5. ASSUME NEW d \in D
        PROVE  \E path \in Paths(d) : Cost(path) = r[d].cost /\ Shape(d, path)
    <2> PICK h \in Nat : \E p : IsChain(st, d, h, p)
      BY <1>3, ChainExists
    <2>1. PICK p : IsChain(st, d, h, p)
      OBVIOUS
    <2>2. p \in Paths(d)
      BY <1>3, <2>1, ChainIsPath
    <2>3. Cost(p) = st.dist[d]
      BY <1>3, <2>1, ChainCost
    <2>4. Len(p) - 1 = h
      BY <2>1 DEF IsChain
    <2>5. r[d] = RouteEntry(Local, st, d, MAX_HOPS)
      BY <1>2
    <2>6. /\ r[d].cost = st.dist[d]
          /\ r[d].hop_count = IF h <= MAX_HOPS THEN h ELSE MAX_HOPS
          /\ h <= MAX_HOPS + 1 => r[d].next_hop = p[2]
      BY <1>3, <2>1, <2>5, EntryOfChain
    <2>7. Shape(d, p)
      BY <2>4, <2>6
    <2> HIDE DEF Paths, Cost, Shape
    <2> QED
      BY <2>2, <2>3, <2>6, <2>7
  <1>6. ASSUME NEW d \in Peers, NEW path \in Paths(d)
        PROVE  d \in D /\ st.dist[d] <= Cost(path)
    BY <1>3, <1>4, PathsCostMore
  <1>7. ASSUME NEW d \in D PROVE r[d].cost = st.dist[d]
    BY <1>2 DEF RouteEntry
  <1>8. DOMAIN r = D
    BY <1>2
  <1> HIDE DEF Paths, Cost, Shape, D
  <1>9. DOMAIN r = {d \in Peers : Paths(d) # {}}
    <2>1. \A d \in D : d \in Peers /\ Paths(d) # {}
      BY <1>4, <1>5
    <2>2. \A d \in Peers : Paths(d) # {} => d \in D
      BY <1>6
    <2> QED
      BY <1>4, <1>8, <2>1, <2>2
  <1>10. ASSUME NEW d \in D
         PROVE  \A path \in Paths(d) : r[d].cost <= Cost(path)
    BY <1>4, <1>6, <1>7
  <1>11. \A d \in DOMAIN r :
             /\ \A path \in Paths(d) : r[d].cost <= Cost(path)
             /\ \E path \in Paths(d) : Cost(path) = r[d].cost /\ Shape(d, path)
    BY <1>5, <1>8, <1>10
  <1> QED
    BY <1>9, <1>11, Zenon DEF BestRoutes, Paths, Cost, Shape, r

---------------------------------------------------------------------------
(* The routes are the best ones at any time *)

\* The entries of a map are its values.
IsMap(map) == map = [x \in DOMAIN map |-> map[x]]

\* Neighbours carry link qualities, read from a HELLO.
NeighborsTyped(nb) ==
    /\ IsMap(nb) /\ DOMAIN nb \subseteq Peers
    /\ \A p \in DOMAIN nb : nb[p].quality \in LinkQuality

\* So do the links that TCs advertise.
TopologyTyped(topo) ==
    /\ IsMap(topo) /\ DOMAIN topo \subseteq Peers
    /\ \A p \in DOMAIN topo : /\ DOMAIN topo[p] \subseteq Peers
                              /\ \A x \in DOMAIN topo[p] : topo[p][x] \in LinkQuality

AdvertsTyped == \A tc \in sent : \A x \in DOMAIN tc.adv : tc.adv[x] \in LinkQuality

RoutesInv ==
    /\ TableInv
    /\ NeighborsTyped(neighbors)
    /\ TopologyTyped(topology)
    /\ AdvertsTyped
    /\ BestRoutes(routes, Qualities(neighbors), topology)

\* The links of typed tables join nodes and have a quality.
LEMMA EdgesTyped ==
    ASSUME NEW nb, NeighborsTyped(nb), NEW topo, TopologyTyped(topo), NEW u
    PROVE  LET E == Edges(Local, Qualities(nb), topo, u)
           IN  DOMAIN E \subseteq Peers /\ \A v \in DOMAIN E : E[v] \in LinkQuality
  <1> DEFINE E == Edges(Local, Qualities(nb), topo, u)
  <1>1. CASE u = Local
    <2>1. E = Qualities(nb)
      BY <1>1 DEF Edges
    <2> HIDE DEF E
    <2>2. DOMAIN E \subseteq Peers /\ \A v \in DOMAIN E : E[v] \in LinkQuality
      BY <2>1 DEF Qualities, NeighborsTyped
    <2> QED
      BY <2>2 DEF E
  <1>2. CASE u # Local /\ u \in DOMAIN topo
    <2>1. E = topo[u]
      BY <1>2 DEF Edges
    <2> HIDE DEF E
    <2>2. DOMAIN E \subseteq Peers /\ \A v \in DOMAIN E : E[v] \in LinkQuality
      BY <1>2, <2>1 DEF TopologyTyped
    <2> QED
      BY <2>2 DEF E
  <1>3. CASE u # Local /\ u \notin DOMAIN topo
    <2>1. DOMAIN E = {}
      BY <1>3 DEF Edges, EmptyMap
    <2> QED
      BY <2>1
  <1> QED
    BY <1>1, <1>2, <1>3

\* Typed tables make a graph.
LEMMA TablesAreGraph ==
    ASSUME OlsrConstants, NEW nb, NeighborsTyped(nb), NEW topo, TopologyTyped(topo)
    PROVE  IsGraph(Qualities(nb), topo)
  <1> SUFFICES ASSUME NEW u \in Ids
               PROVE  /\ Links(Qualities(nb), topo, u) \subseteq Ids
                      /\ \A v \in Links(Qualities(nb), topo, u) :
                             Weight(Qualities(nb), topo, u, v) \in Nat \ {0}
    BY DEF IsGraph
  <1> DEFINE E == Edges(Local, Qualities(nb), topo, u)
  <1>1. DOMAIN E \subseteq Peers /\ \A v \in DOMAIN E : E[v] \in LinkQuality
    BY EdgesTyped
  <1> HIDE DEF E
  <1>2. \A v \in DOMAIN E : LinkCost(E[v]) \in Nat \ {0}
    BY <1>1, LinkCostPositive
  <1> QED
    BY <1>1, <1>2 DEF Links, Weight, E, Ids

\* So the recomputed routes are the best ones of the tables.
LEMMA RecomputedIsBest ==
    ASSUME OlsrConstants, NEW nb, NeighborsTyped(nb), NEW topo, TopologyTyped(topo)
    PROVE  BestRoutes(Recomputed(nb, topo), Qualities(nb), topo)
  BY TablesAreGraph, DijkstraIsBest DEF Recomputed

\* Without neighbours nothing can be reached.
LEMMA NoNeighborsNoRoutes ==
    ASSUME OlsrConstants, NEW nb, NeighborsTyped(nb), DOMAIN nb = {},
           NEW topo, TopologyTyped(topo)
    PROVE  BestRoutes(EmptyMap, Qualities(nb), topo)
  <1>1. DOMAIN EmptyMap = {}
    BY DEF EmptyMap
  <1>2. Links(Qualities(nb), topo, Local) = {}
    BY DEF Links, Edges, Qualities
  <1>3. ASSUME NEW d \in Peers, NEW p \in PathsTo(Local, Qualities(nb), topo, Ids, d)
        PROVE  FALSE
    <2>1. IsWalkTo(Qualities(nb), topo, p, d)
      BY TablesAreGraph, PathIsWalk DEF Ids
    <2>2. p[1] = Local /\ 1 \in 1 .. Len(p) - 1
      BY <2>1 DEF IsWalkTo, IsWalk
    <2>3. p[1 + 1] \in Links(Qualities(nb), topo, Local)
      BY <2>1, <2>2 DEF IsWalkTo, IsWalk
    <2> QED
      BY <1>2, <2>3
  <1> QED
    BY <1>1, <1>3 DEF BestRoutes

\* Empty tables have no routes.
LEMMA InitRoutesInv == ASSUME OlsrConstants, Init PROVE RoutesInv
  <1>1. IsMap(EmptyMap) /\ DOMAIN EmptyMap = {}
    BY DEF IsMap, EmptyMap
  <1>2. neighbors = EmptyMap /\ topology = EmptyMap /\ routes = EmptyMap /\ sent = {}
    BY DEF Init
  <1>3. NeighborsTyped(neighbors) /\ TopologyTyped(topology) /\ AdvertsTyped
    BY <1>1, <1>2 DEF NeighborsTyped, TopologyTyped, AdvertsTyped
  <1>4. BestRoutes(routes, Qualities(neighbors), topology)
    BY <1>1, <1>2, <1>3, NoNeighborsNoRoutes
  <1> QED
    BY <1>3, <1>4, InitTableInv DEF RoutesInv

\* process_hello writes a typed neighbour and recomputes.
LEMMA HelloRoutesInv ==
    ASSUME OlsrConstants, RoutesInv, TableInv',
           NEW p \in Ids, NEW rssi \in Rssis, NEW listed \in Listings[p],
           RxHello(p, listed, rssi)
    PROVE  RoutesInv'
  <1> DEFINE entry == HelloEntry(listed, rssi)
             nb == Overlay([x \in {p} |-> entry], neighbors)
  <1>1. p \in Peers
    BY DEF RxHello, IsOwn, Ids
  <1>2. entry.quality \in LinkQuality
    BY HelloQuality
  <1> HIDE DEF entry
  <1>3. /\ IsMap(nb) /\ DOMAIN nb = {p} \cup DOMAIN neighbors /\ nb[p] = entry
        /\ \A q \in DOMAIN neighbors \ {p} : nb[q] = neighbors[q]
    BY DEF Overlay, IsMap
  <1> HIDE DEF nb
  <1>4. NeighborsTyped(nb)
    BY <1>1, <1>2, <1>3 DEF NeighborsTyped, RoutesInv
  <1>5. neighbors' = nb /\ topology' = topology /\ sent' = sent
        /\ routes' = Recomputed(nb, topology)
    BY DEF RxHello, nb, entry
  <1>6. BestRoutes(Recomputed(nb, topology), Qualities(nb), topology)
    BY <1>4, RecomputedIsBest DEF RoutesInv
  <1> QED
    BY <1>4, <1>5, <1>6 DEF RoutesInv, AdvertsTyped

\* process_tc stores typed links and recomputes.
LEMMA NewTcRoutesInv ==
    ASSUME OlsrConstants, RoutesInv, TableInv', NEW tc \in sent, RxTcNew(tc)
    PROVE  RoutesInv'
  <1> DEFINE links == Without(tc.adv, {Local})
             topo == Overlay([x \in {tc.sender} |-> links], topology)
  <1>1. tc.sender \in Peers /\ DOMAIN tc.adv \subseteq Ids
        /\ \A x \in DOMAIN tc.adv : tc.adv[x] \in LinkQuality
    BY DEF RxTcNew, IsOwn, Ids, RoutesInv, TableInv, MessagesTyped, AdvertsTyped
  <1>2. DOMAIN links \subseteq Peers /\ \A x \in DOMAIN links : links[x] \in LinkQuality
    BY <1>1 DEF Without, Ids
  <1> HIDE DEF links
  <1>3. /\ IsMap(topo) /\ DOMAIN topo = {tc.sender} \cup DOMAIN topology
        /\ topo[tc.sender] = links
        /\ \A q \in DOMAIN topology \ {tc.sender} : topo[q] = topology[q]
    BY DEF Overlay, IsMap
  <1> HIDE DEF topo
  <1>4. TopologyTyped(topo)
    BY <1>1, <1>2, <1>3 DEF TopologyTyped, RoutesInv
  <1>5. topology' = topo /\ neighbors' = neighbors /\ sent' = sent
        /\ routes' = Recomputed(neighbors, topo)
    BY DEF RxTcNew, topo, links
  <1>6. BestRoutes(Recomputed(neighbors, topo), Qualities(neighbors), topo)
    BY <1>4, RecomputedIsBest DEF RoutesInv
  <1> QED
    BY <1>4, <1>5, <1>6 DEF RoutesInv, AdvertsTyped

\* The aging loop recomputes when it removes a neighbour, and leaves all as it
\* was otherwise.
LEMMA AgingRoutesInv ==
    ASSUME OlsrConstants, RoutesInv, TableInv', AgingTick
    PROVE  RoutesInv'
  <1> DEFINE nb == Without(neighbors, Stale)
             topo == Without(topology, Stale)
  <1>1. /\ neighbors' = nb /\ topology' = topo /\ sent' = sent
        /\ routes' = AgedRoutes(nb, topo)
    BY DEF AgingTick
  <1>2. /\ IsMap(nb) /\ DOMAIN nb = DOMAIN neighbors \ Stale
        /\ \A p \in DOMAIN nb : nb[p] = neighbors[p]
        /\ IsMap(topo) /\ DOMAIN topo = DOMAIN topology \ Stale
        /\ \A p \in DOMAIN topo : topo[p] = topology[p]
    BY DEF Without, IsMap
  <1>3. Stale = {} => nb = neighbors /\ topo = topology
    <2> HAVE Stale = {}
    <2>1. nb = [x \in DOMAIN neighbors |-> neighbors[x]]
          /\ topo = [x \in DOMAIN topology |-> topology[x]]
      BY DEF Without
    <2> QED
      BY <2>1 DEF RoutesInv, NeighborsTyped, TopologyTyped, IsMap
  <1> HIDE DEF nb, topo
  <1>4. NeighborsTyped(nb) /\ TopologyTyped(topo)
    BY <1>2 DEF NeighborsTyped, TopologyTyped, RoutesInv
  <1>5. BestRoutes(AgedRoutes(nb, topo), Qualities(nb), topo)
    <2>1. CASE Stale = {}
      BY <1>3, <2>1 DEF AgedRoutes, RoutesInv
    <2>2. CASE Stale # {} /\ DOMAIN nb = {}
      BY <1>4, <2>2, NoNeighborsNoRoutes DEF AgedRoutes
    <2>3. CASE Stale # {} /\ DOMAIN nb # {}
      BY <1>4, <2>3, RecomputedIsBest DEF AgedRoutes
    <2> QED
      BY <2>1, <2>2, <2>3
  <1> QED
    BY <1>1, <1>4, <1>5 DEF RoutesInv, AdvertsTyped

\* A TC advertises link qualities.
LEMMA SendTcRoutesInv ==
    ASSUME OlsrConstants, RoutesInv, TableInv', NEW p \in Ids, SendTc(p)
    PROVE  RoutesInv'
  <1>1. PICK adv \in Adverts[p] : \E seq :
            sent' = sent \cup {[sender |-> p, seq |-> seq, adv |-> adv,
                                run |-> restarts, nth |-> Cardinality(SentBy(p))]}
    BY DEF SendTc
  <1>2. \A x \in DOMAIN adv : adv[x] \in LinkQuality
    BY DEF OlsrConstants, Ids
  <1>3. AdvertsTyped'
    BY <1>1, <1>2 DEF AdvertsTyped, RoutesInv
  <1>4. neighbors' = neighbors /\ topology' = topology /\ routes' = routes
    BY DEF SendTc, tables
  <1> QED
    BY <1>3, <1>4 DEF RoutesInv

\* Every step keeps the routes those of the tables.
LEMMA NextRoutesInv ==
    ASSUME OlsrConstants, RoutesInv, [Next]_vars PROVE RoutesInv'
  <1>1. TableInv'
    BY NextTableInv DEF RoutesInv
  <1>2. CASE AgingTick
    BY <1>1, <1>2, AgingRoutesInv
  <1>3. CASE \E p \in Ids, rssi \in Rssis :
                 \E listed \in Listings[p] : RxHello(p, listed, rssi)
    BY <1>1, <1>3, HelloRoutesInv
  <1>4. CASE \E p \in Ids : SendTc(p)
    BY <1>1, <1>4, SendTcRoutesInv
  <1>5. CASE \E tc \in sent : RxTcNew(tc)
    BY <1>1, <1>5, NewTcRoutesInv
  <1>6. CASE UNCHANGED <<neighbors, topology, routes, sent>>
    BY <1>1, <1>6 DEF RoutesInv, AdvertsTyped
  <1>7. ASSUME \/ Tick \/ StepBack \/ StepAhead \/ UNCHANGED vars
               \/ \E p \in Peers : RestartPeer(p)
               \/ \E tc \in sent : RxTcDropped(tc)
        PROVE  UNCHANGED <<neighbors, topology, routes, sent>>
    BY <1>7 DEF Tick, StepBack, StepAhead, RestartPeer, RxTcDropped, tables, vars
  <1> QED
    BY <1>2, <1>3, <1>4, <1>5, <1>6, <1>7 DEF Next

\* The routes are always exactly those of the current tables: every reachable
\* destination and no other, at the least cost over all loop-free paths, with
\* the first hop and the length of such a path as far as the walk back along
\* the predecessors goes.
THEOREM RoutesAreTheBest == Spec => []RoutesAreBest
  <1>1. Init => RoutesInv
    BY OlsrConstants, InitRoutesInv
  <1>2. RoutesInv /\ [Next]_vars => RoutesInv'
    BY OlsrConstants, NextRoutesInv
  <1>3. RoutesInv => RoutesAreBest
    BY Zenon DEF RoutesInv, BestRoutes, RoutesAreBest
  <1> QED
    BY <1>1, <1>2, <1>3, PTL DEF Spec

---------------------------------------------------------------------------
(* The width of the distances *)

U32_MAX == 4294967295

\* The cost of the worst link: mcs 0, all frames lost, -127 dBm.
MaxLinkCost == 100 + 10 * 255 + 2 * (127 - 30)

\* No link costs more.
LEMMA LinkCostBounded ==
    ASSUME NEW q \in LinkQuality
    PROVE  LinkCost(q) <= MaxLinkCost
  <1>1. BaseCost(q.mcs) \in 0 .. 100
    BY DEF BaseCost, LinkQuality
  <1>2. RssiPenalty(q.rssi) \in 0 .. 194
    <2>1. NegI8(q.rssi) \in -128 .. 127
      BY DEF NegI8, LinkQuality
    <2> QED
      BY <2>1 DEF RssiPenalty
  <1>3. q.loss \in 0 .. 255
    BY DEF LinkQuality
  <1>4. \A a \in 0 .. 100, b \in 0 .. 255, c \in 0 .. 194 : a + 10 * b + c <= MaxLinkCost
    BY DEF MaxLinkCost
  <1> HIDE DEF BaseCost, RssiPenalty
  <1> QED
    BY <1>1, <1>2, <1>3, <1>4 DEF LinkCost

\* Distances grow by at most that per link of the chain.
LEMMA ChainIsCheap ==
    ASSUME NEW nb, NEW topo, IsGraph(nb, topo), NEW st, Linked(nb, topo, st),
           \A u \in Ids : \A w \in Links(nb, topo, u) :
               Weight(nb, topo, u, w) <= MaxLinkCost,
           NEW v, NEW h \in Nat, NEW p, IsChain(st, v, h, p)
    PROVE  st.dist[v] <= h * MaxLinkCost
  <1> DEFINE N == {i \in Nat : i <= h => st.dist[p[i + 1]] <= i * MaxLinkCost}
  <1>1. \A i \in 1 .. h + 1 : p[i] \in DOMAIN st.dist /\ st.dist[p[i]] \in Nat
    BY DEF IsChain, Linked
  <1>2. 0 \in N
    BY DEF IsChain, Linked, MaxLinkCost
  <1>3. ASSUME NEW i \in N PROVE i + 1 \in N
    <2> SUFFICES ASSUME i + 1 <= h PROVE st.dist[p[(i + 1) + 1]] <= (i + 1) * MaxLinkCost
      OBVIOUS
    <2> DEFINE j == i + 1
    <2>1. j \in 1 .. h /\ j \in 1 .. h + 1 /\ j + 1 \in 1 .. h + 1 /\ i <= h
      OBVIOUS
    <2>2. st.dist[p[j]] <= i * MaxLinkCost
      BY <2>1
    <2> HIDE DEF j
    <2>3. p[j + 1] \in DOMAIN st.dist \ {Local} /\ st.prev[p[j + 1]] = p[j]
      BY <1>1, <2>1 DEF IsChain
    <2>4. /\ p[j + 1] \in Links(nb, topo, p[j])
          /\ st.dist[p[j + 1]] = st.dist[p[j]] + Weight(nb, topo, p[j], p[j + 1])
      BY <2>3 DEF Linked
    <2>5. p[j] \in Ids
      BY <1>1, <2>1 DEF Linked
    <2>6. Weight(nb, topo, p[j], p[j + 1]) \in Nat
          /\ Weight(nb, topo, p[j], p[j + 1]) <= MaxLinkCost
      BY <2>4, <2>5 DEF IsGraph
    <2>7. st.dist[p[j + 1]] <= (i + 1) * MaxLinkCost
      BY <1>1, <2>1, <2>2, <2>4, <2>6 DEF MaxLinkCost
    <2> QED
      BY <2>7 DEF j
  <1>4. N \in SUBSET Nat
    OBVIOUS
  <1> HIDE DEF N
  <1>5. h \in N
    BY <1>2, <1>3, <1>4, Induction
  <1> QED
    BY <1>5 DEF N, IsChain

\* There are at most 256 nodes.
LEMMA FewIds == ASSUME OlsrConstants PROVE Cardinality(Ids) <= 256
  <1>1. Ids \in SUBSET (0 .. 255)
    BY IdsAreBytes
  <1>2. 0 \in Int /\ 255 \in Int
    OBVIOUS
  <1>3. IsFiniteSet(0 .. 255) /\ Cardinality(0 .. 255) = IF 0 > 255 THEN 0 ELSE 255 - 0 + 1
    BY <1>2, FS_Interval, Zenon
  <1>4. Cardinality(Ids) <= Cardinality(0 .. 255)
    BY <1>1, <1>3, FS_Subset, Zenon
  <1>5. Cardinality(0 .. 255) = 256
    BY <1>3
  <1> QED
    BY <1>4, <1>5

\* So chains have at most 255 links.
LEMMA ChainIsShort ==
    ASSUME OlsrConstants, NEW nb, NEW topo, IsGraph(nb, topo),
           NEW st, Linked(nb, topo, st),
           NEW v, NEW h \in Nat, NEW p, IsChain(st, v, h, p)
    PROVE  h <= 255
  <1>1. DOMAIN st.dist \in SUBSET Ids
    BY DEF Linked
  <1>2. Cardinality(DOMAIN st.dist) <= Cardinality(Ids)
    BY <1>1, IdsAreFinite, FS_Subset
  <1>3. Cardinality(DOMAIN st.dist) \in Nat /\ h + 1 <= Cardinality(DOMAIN st.dist)
    BY ChainIsSimple
  <1>4. Cardinality(Ids) \in Nat
    BY IdsAreFinite, FS_CardinalityType
  <1> QED
    BY <1>2, <1>3, <1>4, FewIds

\* The loop keeps its invariant in every iteration.
LEMMA RunLoopInv ==
    ASSUME OlsrConstants, NEW nb, NEW topo, IsGraph(nb, topo)
    PROVE  \A n \in Nat : LoopInv(nb, topo, DijkstraRun(Local, nb, topo)[n])
  <1> DEFINE run == DijkstraRun(Local, nb, topo)
             N == {n \in Nat : LoopInv(nb, topo, run[n])}
  <1>1. run[0] = StartState /\ \A n \in Nat : run[n + 1] = LoopStep(nb, topo, run[n])
    BY RunUnfolds
  <1> HIDE DEF run
  <1>2. 0 \in N
    BY <1>1, StartLoopInv
  <1>3. ASSUME NEW n \in N PROVE n + 1 \in N
    <2>1. run[n + 1] = LoopStep(nb, topo, run[n])
      BY <1>1
    <2>2. LoopInv(nb, topo, run[n + 1])
      BY <2>1, PopLoopInv DEF LoopStep
    <2> QED
      BY <2>2
  <1>4. N \in SUBSET Nat
    OBVIOUS
  <1> HIDE DEF N
  <1>5. \A n \in Nat : n \in N
    BY <1>2, <1>3, <1>4, Induction
  <1> QED
    BY <1>5 DEF N, run

\* What is added up when a link is relaxed, in any iteration, is less than the
\* value that the code takes for "no distance yet".
DistancesFit ==
    LET nb == Qualities(neighbors)
    IN  \A n \in Nat :
            LET st == DijkstraRun(Local, nb, topology)[n]
            IN  \A u \in DOMAIN st.dist : \A v \in Links(nb, topology, u) :
                    st.dist[u] + Weight(nb, topology, u, v) < U32_MAX

\* It follows from the types of the tables.
LEMMA TypedDistancesFit == ASSUME OlsrConstants, RoutesInv PROVE DistancesFit
  <1> DEFINE nb == Qualities(neighbors)
  <1>1. IsGraph(nb, topology)
    BY TablesAreGraph DEF RoutesInv
  <1>2. ASSUME NEW u \in Ids, NEW v \in Links(nb, topology, u)
        PROVE  Weight(nb, topology, u, v) <= MaxLinkCost
    <2> DEFINE E == Edges(Local, nb, topology, u)
    <2>1. \A w \in DOMAIN E : E[w] \in LinkQuality
      BY EdgesTyped DEF RoutesInv
    <2> HIDE DEF E
    <2>2. \A w \in DOMAIN E : LinkCost(E[w]) <= MaxLinkCost
      BY <2>1, LinkCostBounded
    <2> QED
      BY <2>2 DEF Links, Weight, E
  <1> HIDE DEF nb
  <1>3. SUFFICES ASSUME NEW n \in Nat
                 PROVE  LET st == DijkstraRun(Local, nb, topology)[n]
                        IN  \A u \in DOMAIN st.dist : \A v \in Links(nb, topology, u) :
                                st.dist[u] + Weight(nb, topology, u, v) < U32_MAX
    BY DEF DistancesFit, nb
  <1> DEFINE st == DijkstraRun(Local, nb, topology)[n]
  <1>4. Linked(nb, topology, st)
    BY <1>1, RunLoopInv, LoopLinked
  <1> HIDE DEF st
  <1>5. ASSUME NEW u \in DOMAIN st.dist, NEW v \in Links(nb, topology, u)
        PROVE  st.dist[u] + Weight(nb, topology, u, v) < U32_MAX
    <2> PICK h \in Nat : \E p : IsChain(st, u, h, p)
      BY <1>1, <1>4, ChainExists
    <2>1. PICK p : IsChain(st, u, h, p)
      OBVIOUS
    <2>2. h <= 255
      BY <1>1, <1>4, <2>1, ChainIsShort
    <2>3. st.dist[u] <= h * MaxLinkCost
      BY <1>1, <1>2, <1>4, <2>1, ChainIsCheap
    <2>4. u \in Ids /\ st.dist[u] \in Nat
      BY <1>4 DEF Linked
    <2>5. Weight(nb, topology, u, v) \in Nat /\ Weight(nb, topology, u, v) <= MaxLinkCost
      BY <1>1, <1>2, <2>4 DEF IsGraph
    <2> QED
      BY <2>2, <2>3, <2>4, <2>5 DEF MaxLinkCost, U32_MAX
  <1> QED
    BY <1>5 DEF st

\* However the tables are filled, the saturating_add of recompute_routes never
\* saturates and a node found for the first time is always entered: distances
\* as 32-bit numbers are the natural numbers of the model.
THEOREM CostsNeverSaturate == Spec => []DistancesFit
  <1>1. Init => RoutesInv
    BY OlsrConstants, InitRoutesInv
  <1>2. RoutesInv /\ [Next]_vars => RoutesInv'
    BY OlsrConstants, NextRoutesInv
  <1>3. RoutesInv => DistancesFit
    BY OlsrConstants, TypedDistancesFit
  <1> QED
    BY <1>1, <1>2, <1>3, PTL DEF Spec
============================================================================
