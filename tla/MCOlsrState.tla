---------------------------- MODULE MCOlsrState ----------------------------
(* A small instance of OlsrState: what peers list in HELLOs and TCs, and    *)
(* the behaviours that TLC follows.                                         *)
EXTENDS OlsrState

Good == [rssi |-> -30, loss |-> 0, mcs |-> 0]
Weak == [rssi |-> -80, loss |-> 0, mcs |-> 0]

ReadRssis == {Good.rssi, Weak.rssi}

\* All TC counters at 0, and node 2's counter there or two steps from the wrap.
NearWrap == [p \in Ids |-> IF p = 2 THEN {0, 65534} ELSE {0}]

\* HELLOs of all but node 4, which is out of range, that list nobody, everybody,
\* or everybody but the local node; and the local node's own coming back.
AnyListing ==
    [p \in Ids |-> IF p = 4 THEN {}
                   ELSE {[x \in nbs |-> 0] : nbs \in {{}, Ids \ {p}, Peers \ {p}}}]

\* Every choice of neighbours, each link good or weak.
AnyLinks(ids) == UNION {[nbs -> {Good, Weak}] : nbs \in SUBSET ids}

\* TCs of nodes 2 and 3 over any links to the other peers, and the local node's
\* own coming back.
AnyAdvert ==
    [p \in Ids |->
        CASE p \in {2, 3} -> AnyLinks(Peers \ {p})
          [] p = 4 -> {}
          [] OTHER -> {EmptyMap}]

ClockSet == back + ahead > 0

\* Three sets of behaviours, each followed as far as its subject needs.  HELLOs
\* at the better signal strength, while the system clock is set:
SettingTheClock ==
    /\ sent = {} /\ restarts = 0 /\ tcSeq[2] = 0
    /\ \A p \in DOMAIN neighbors : neighbors[p].quality.rssi = Good.rssi

\* ... while time passes and node 2 sends TCs with and without its links:
ChangingTables ==
    /\ ~ClockSet /\ clock <= 3
    /\ \A p \in DOMAIN neighbors : neighbors[p].quality.rssi = Good.rssi
    /\ \A tc \in sent : tc.sender = 2 /\ tc.adv \in {[x \in {3, 4} |-> Good], EmptyMap}

\* ... and one TC of each peer over any links, at one instant.
AnyGraph ==
    /\ ~ClockSet /\ clock = 0 /\ nextAging = 0 /\ restarts = 0 /\ tcSeq[2] < 65534
    /\ \A p \in DOMAIN neighbors : neighbors[p].listed = {}
    /\ \A p \in Ids : Cardinality(SentBy(p)) <= 1

Followed == SettingTheClock \/ ChangingTables \/ AnyGraph

\* A step out of these is not taken (a CONSTRAINT would take it, check the state
\* and then drop it, again and again).
MCSpec == Init /\ [][Next /\ Followed']_vars
============================================================================
