----------------------------- MODULE OlsrState -----------------------------
(***************************************************************************)
(* The routing tables of one node (olsr state.rs) under the loops that     *)
(* feed them (olsr loops.rs): HELLOs and TCs of its peers arrive late,     *)
(* repeatedly, out of order or not at all, peers restart, and the aging    *)
(* loop expires neighbours.  It ticks by a timer of its own but judges by  *)
(* the system clock, which may be set in between.  All table updates hold  *)
(* the write lock, so each is one step.                                    *)
(***************************************************************************)
EXTENDS OlsrRoutes

CONSTANTS
    Local,                \* local_id
    Peers,                \* the other node ids
    Rssis,                \* rssi readings of received HELLOs
    Listings,             \* Listings[p]: neighbour lists (id -> mcs) p may put in a HELLO
    Adverts,              \* Adverts[p]: neighbour lists (id -> quality) p may put in a TC
    StartSeqs,            \* StartSeqs[p]: where p's TC counter may stand when the node starts
    SeqModulus,           \* number of TC sequence numbers (2^16)
    DupWindow,            \* TCs this far behind count as duplicates (100)
    MAX_HOPS,             \* limit of the predecessor walk (8)
    NEIGHBOR_TIMEOUT_MS, AGING_TICK_MS,
    MaxClock,             \* bound: last instant modelled
    MaxBack, MaxAhead,    \* bound: how far the system clock is set back, set ahead
    MaxTcs,               \* bound: TCs per peer
    MaxRestarts           \* bound: restarts of peers

ASSUME OlsrConstants ==
    /\ Local \in 0 .. 255 /\ Peers \subseteq 0 .. 255 /\ Local \notin Peers
    /\ Rssis \subseteq -128 .. 127
    /\ SeqModulus \in Nat \ {0}
    /\ \A p \in {Local} \cup Peers :
           /\ StartSeqs[p] \subseteq 0 .. SeqModulus - 1
           /\ \A map \in Listings[p] :
                  /\ DOMAIN map \subseteq {Local} \cup Peers
                  /\ \A x \in DOMAIN map : map[x] \in 0 .. 255
           /\ \A map \in Adverts[p] :
                  /\ DOMAIN map \subseteq {Local} \cup Peers
                  /\ \A x \in DOMAIN map : map[x] \in LinkQuality
    /\ DupWindow \in Nat \ {0}
    /\ MAX_HOPS \in Nat \ {0}
    /\ NEIGHBOR_TIMEOUT_MS \in Nat
    /\ AGING_TICK_MS \in Nat \ {0}
    /\ MaxClock \in Nat /\ MaxTcs \in Nat /\ MaxRestarts \in Nat
    /\ MaxBack \in Nat /\ MaxAhead \in Nat

VARIABLES
    clock,        \* true time, which tokio's interval follows
    back, ahead,  \* how far the system clock has been set back, set ahead
    nextAging,    \* when the aging loop ticks next
    neighbors,    \* id -> [quality, last, listed] and, as history, when it was heard
    two_hop,      \* id -> gateways
    topology,     \* TC sender -> (neighbour -> quality)
    routes,       \* destination -> [next_hop, cost, hop_count]
    last_tc_seq,  \* TC sender -> sequence number
    tcSeq,        \* the sequence counter of each node's tc_loop
    restarts,     \* peers restarted so far
    sent,         \* TCs originated so far, with their place in the sender's run;
                  \* copies of them arrive at any time
    received      \* history: TCs given to process_tc

tables == <<neighbors, two_hop, topology, routes, last_tc_seq>>
time == <<clock, back, ahead, nextAging>>
vars == <<clock, back, ahead, nextAging, neighbors, two_hop, topology, routes,
          last_tc_seq, tcSeq, restarts, sent, received>>

Ids == {Local} \cup Peers

\* The values the TC counters may have.
StartingCounters ==
    {seqs \in [Ids -> UNION {StartSeqs[p] : p \in Ids}] :
        \A p \in Ids : seqs[p] \in StartSeqs[p]}

\* The node starts with empty tables, among peers that may have sent TCs for
\* days: about every 36 hours their counter wraps.
Init ==
    /\ clock = 0 /\ back = 0 /\ ahead = 0
    /\ nextAging = 0
    /\ neighbors = EmptyMap
    /\ two_hop = EmptyMap
    /\ topology = EmptyMap
    /\ routes = EmptyMap
    /\ last_tc_seq = EmptyMap
    /\ tcSeq \in StartingCounters
    /\ restarts = 0
    /\ sent = {}
    /\ received = {}

\* now_ms: the system clock.  It starts so late that it is never set back to
\* before the epoch.
NowMs == MaxBack + clock + ahead - back

Without(map, keys) == [x \in DOMAIN map \ keys |-> map[x]]

\* Remove gateways from every two-hop entry and drop the emptied entries.
WithoutGateways(map, gone) ==
    [x \in {y \in DOMAIN map : map[y] \ gone # {}} |-> map[x] \ gone]

Qualities(nb) == [n \in DOMAIN nb |-> nb[n].quality]

Recomputed(nb, topo) == RoutesFor(Local, Qualities(nb), topo, Ids, MAX_HOPS)

---------------------------------------------------------------------------
(* process_hello *)

\* Deviation: the node does not recognise its own messages.
IsOwnNever(p) == FALSE

\* A node's own messages come back to it through its peers' rebroadcasts.
IsOwn(p) == p = Local

HelloEntry(listed, rssi) ==
    [quality |-> [rssi |-> rssi, loss |-> 0,
                  mcs |-> IF Local \in DOMAIN listed THEN listed[Local] ELSE 0],
     last |-> NowMs,
     listed |-> DOMAIN listed,
     heard |-> clock, back |-> back, ahead |-> ahead]

\* Deviation: the sender's earlier contribution is left in place.
RefreshedTwoHopKeepsOld(p, listed, nb) ==
    LET reach == {x \in DOMAIN listed : x # Local /\ x \notin DOMAIN nb}
    IN  [x \in reach \cup DOMAIN two_hop |->
            (IF x \in DOMAIN two_hop THEN two_hop[x] ELSE {})
            \cup (IF x \in reach THEN {p} ELSE {})]

\* p's contribution is removed and added again for what it lists now.
RefreshedTwoHop(p, listed, nb) ==
    LET old == WithoutGateways(two_hop, {p})
        reach == {x \in DOMAIN listed : x # Local /\ x \notin DOMAIN nb}
    IN  [x \in reach \cup DOMAIN old |->
            (IF x \in DOMAIN old THEN old[x] ELSE {})
            \cup (IF x \in reach THEN {p} ELSE {})]

RxHello(p, listed, rssi) ==
    LET nb == Overlay([x \in {p} |-> HelloEntry(listed, rssi)], neighbors)
    IN  /\ ~IsOwn(p)
        /\ neighbors' = nb
        /\ two_hop' = RefreshedTwoHop(p, listed, nb)
        /\ routes' = Recomputed(nb, topology)
        /\ UNCHANGED <<time, topology, last_tc_seq, tcSeq, restarts, sent, received>>

---------------------------------------------------------------------------
(* tc_loop of the peers, process_tc *)

SentBy(p) == {tc \in sent : tc.sender = p}

\* tc_loop: the counter is advanced before each TC.
SendTc(p) ==
    /\ Cardinality(SentBy(p)) < MaxTcs
    /\ \E adv \in Adverts[p] :
           LET seq == (tcSeq[p] + 1) % SeqModulus
           IN  /\ tcSeq' = [tcSeq EXCEPT ![p] = seq]
               /\ sent' = sent \cup {[sender |-> p, seq |-> seq, adv |-> adv,
                                     run |-> restarts, nth |-> Cardinality(SentBy(p))]}
    /\ UNCHANGED <<time, tables, restarts, received>>

LastSeq(p) == IF p \in DOMAIN last_tc_seq THEN last_tc_seq[p] ELSE 0

\* Deviation: every TC with another number than the last counts as new.
IsDuplicateExact(tc) == tc.seq = LastSeq(tc.sender)

\* Deviation: every lower number counts as a duplicate.
IsDuplicateLower(tc) == tc.seq <= LastSeq(tc.sender)

IsDuplicate(tc) == IsOldSeq(tc.seq, LastSeq(tc.sender), DupWindow)

RxTcDropped(tc) ==
    /\ IsOwn(tc.sender) \/ IsDuplicate(tc)
    /\ received' = received \cup {tc}
    /\ UNCHANGED <<time, tables, tcSeq, restarts, sent>>

RxTcNew(tc) ==
    LET topo == Overlay([x \in {tc.sender} |-> Without(tc.adv, {Local})], topology)
    IN  /\ ~IsOwn(tc.sender)
        /\ ~IsDuplicate(tc)
        /\ last_tc_seq' = Overlay([x \in {tc.sender} |-> tc.seq], last_tc_seq)
        /\ topology' = topo
        /\ routes' = Recomputed(neighbors, topo)
        /\ received' = received \cup {tc}
        /\ UNCHANGED <<time, neighbors, two_hop, tcSeq, restarts, sent>>

\* A peer's process is killed and started again: its tc_loop counts from 0.
RestartPeer(p) ==
    /\ restarts < MaxRestarts
    /\ tcSeq[p] > 0
    /\ restarts' = restarts + 1
    /\ tcSeq' = [tcSeq EXCEPT ![p] = 0]
    /\ UNCHANGED <<time, tables, sent, received>>

---------------------------------------------------------------------------
(* Time and the aging loop *)

\* The aging loop is never late: time waits for it.
Tick ==
    /\ clock < MaxClock
    /\ clock < nextAging
    /\ clock' = clock + 1
    /\ UNCHANGED <<back, ahead, nextAging, tables, tcSeq, restarts, sent, received>>

\* NTP or an administrator sets the system clock.
StepBack ==
    /\ back < MaxBack
    /\ back' = back + 1
    /\ UNCHANGED <<clock, ahead, nextAging, tables, tcSeq, restarts, sent, received>>

StepAhead ==
    /\ ahead < MaxAhead
    /\ ahead' = ahead + 1
    /\ UNCHANGED <<clock, back, nextAging, tables, tcSeq, restarts, sent, received>>

\* Deviation: abs_diff, so that an entry from the future may be stale too.
StaleEitherWay ==
    {p \in DOMAIN neighbors :
        \/ NowMs - neighbors[p].last > NEIGHBOR_TIMEOUT_MS
        \/ neighbors[p].last - NowMs > NEIGHBOR_TIMEOUT_MS}

\* now.saturating_sub(last_hello_ms) > NEIGHBOR_TIMEOUT_MS
Stale == {p \in DOMAIN neighbors : NowMs - neighbors[p].last > NEIGHBOR_TIMEOUT_MS}

\* Deviation: routes are left as they were unless no neighbour remains.
AgedRoutesKept(nb, topo) ==
    IF DOMAIN nb = {} THEN EmptyMap ELSE routes

AgedRoutes(nb, topo) ==
    IF Stale = {} THEN routes
    ELSE IF DOMAIN nb = {} THEN EmptyMap
    ELSE Recomputed(nb, topo)

AgingTick ==
    LET nb == Without(neighbors, Stale)
        topo == Without(topology, Stale)
    IN  /\ clock = nextAging
        /\ nextAging' = nextAging + AGING_TICK_MS
        /\ neighbors' = nb
        /\ topology' = topo
        /\ two_hop' = WithoutGateways(two_hop, Stale)
        /\ routes' = AgedRoutes(nb, topo)
        /\ UNCHANGED <<clock, back, ahead, last_tc_seq, tcSeq, restarts, sent, received>>

Next ==
    \/ Tick \/ StepBack \/ StepAhead
    \/ AgingTick
    \/ \E p \in Ids, rssi \in Rssis :
           \E listed \in Listings[p] : RxHello(p, listed, rssi)
    \/ \E p \in Ids : SendTc(p)
    \/ \E p \in Peers : RestartPeer(p)
    \/ \E tc \in sent : RxTcDropped(tc)
    \/ \E tc \in sent : RxTcNew(tc)

Spec == Init /\ [][Next]_vars

---------------------------------------------------------------------------
(* Properties *)

\* The tables are keyed by other nodes only: the local node is never its own
\* neighbour, two-hop node, TC source or advertised neighbour.  A HELLO is dated
\* in the future only by as much as the system clock was set back since.  (What
\* the routes are is RoutesAreBest.)
TypeOK ==
    /\ clock \in 0 .. MaxClock /\ back \in 0 .. MaxBack /\ ahead \in 0 .. MaxAhead
    /\ DOMAIN neighbors \subseteq Peers
    /\ \A p \in DOMAIN neighbors :
           neighbors[p].last \in 0 .. NowMs + (back - neighbors[p].back)
    /\ DOMAIN two_hop \subseteq Peers
    /\ DOMAIN topology \subseteq Peers
    /\ \A p \in DOMAIN topology : DOMAIN topology[p] \subseteq Peers
    /\ DOMAIN last_tc_seq \subseteq Peers
    /\ \A p \in DOMAIN last_tc_seq : last_tc_seq[p] \in 0 .. SeqModulus - 1

\* Two-hop reachability stays backed by evidence: every gateway recorded for a
\* node is a live neighbour that listed that node in its latest HELLO.
TwoHopBacked ==
    \A x \in DOMAIN two_hop :
        /\ two_hop[x] # {}
        /\ \A g \in two_hop[x] :
               g \in DOMAIN neighbors /\ x \in neighbors[g].listed

\* How long p has really been silent.
Silence(p) == clock - neighbors[p].heard

\* "Neighbors not heard within 3 seconds are removed": aging_loop removes a
\* neighbour only when it has been silent for longer than the timeout, less what
\* the system clock was set ahead meanwhile, and none stays in the table longer
\* than timeout and one aging tick, plus what the clock was set back meanwhile.
ExpiryIsTimely ==
    [][\A p \in DOMAIN neighbors :
          /\ p \notin DOMAIN neighbors' =>
                 Silence(p) > NEIGHBOR_TIMEOUT_MS - (ahead - neighbors[p].ahead)
          /\ Silence(p) <=
                 NEIGHBOR_TIMEOUT_MS + AGING_TICK_MS + (back - neighbors[p].back)]_vars

HeardFrom(p) == {tc \in received : tc.sender = p}

\* The numbers received from p lie within the window of the duplicate check.
SeqsAreClose(p) == \A a, b \in HeardFrom(p) : a.seq - b.seq < DupWindow

\* However copies of TCs are reordered or repeated, process_tc keeps for each
\* sender the content of the TC with the highest number received so far, as
\* long as the numbers lie within the window of its duplicate check.
NewestTcKept ==
    \A p \in DOMAIN last_tc_seq :
        /\ SeqsAreClose(p) => \A tc \in HeardFrom(p) : tc.seq <= last_tc_seq[p]
        /\ p \in DOMAIN topology =>
               \E tc \in HeardFrom(p) :
                   /\ tc.seq = last_tc_seq[p]
                   /\ topology[p] = Without(tc.adv, {Local})

\* Later than everything received from its sender, whose process has not been
\* restarted in between; the number 0 of a sender never heard is excepted,
\* since process_tc takes it for the default.
IsFresh(tc) ==
    /\ \A old \in HeardFrom(tc.sender) : old.run = tc.run /\ old.nth < tc.nth
    /\ HeardFrom(tc.sender) = {} => tc.seq # 0

\* "Duplicate detection with wraparound": a TC that really is newer is taken by
\* process_tc and replaces the links known of its sender, also when the
\* sender's counter has passed from 65535 to 0 since.
FreshIsTaken ==
    [][\A tc \in received' \ received :
          tc.sender # Local /\ IsFresh(tc) =>
              /\ last_tc_seq'[tc.sender] = tc.seq
              /\ topology'[tc.sender] = Without(tc.adv, {Local})]_vars

\* At any time the routes are those of the current tables: exactly the
\* reachable destinations, each with the least cost over all loop-free paths
\* and the first hop and length of such a path.  The walk back along the
\* predecessors stops after MAX_HOPS hops: longer lengths are cut there, and
\* the first hop is still right one hop beyond.
RoutesAreBest ==
    LET nb == Qualities(neighbors)
        Paths(d) == PathsTo(Local, nb, topology, Ids, d)
        Cost(path) == PathCost(Local, nb, topology, path)
    IN  /\ DOMAIN routes = {d \in Peers : Paths(d) # {}}
        /\ \A d \in DOMAIN routes :
               /\ \A path \in Paths(d) : routes[d].cost <= Cost(path)
               /\ \E path \in Paths(d) :
                      /\ Cost(path) = routes[d].cost
                      /\ LET hops == Len(path) - 1
                         IN  /\ routes[d].hop_count =
                                    IF hops <= MAX_HOPS THEN hops ELSE MAX_HOPS
                             /\ hops <= MAX_HOPS + 1 => path[2] = routes[d].next_hop
=============================================================================
