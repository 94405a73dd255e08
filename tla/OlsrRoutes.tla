----------------------------- MODULE OlsrRoutes -----------------------------
(***************************************************************************)
(* The pure part of the routing layer (olsr state.rs): link_cost and       *)
(* recompute_routes, Dijkstra over the neighbour table and the link-state  *)
(* database followed by a walk along the predecessors, next to a reference *)
(* definition of the best path.                                            *)
(*                                                                         *)
(* A map is a function; `nb` maps neighbours to link qualities, `topo`     *)
(* maps TC senders to such maps.                                           *)
(***************************************************************************)
EXTENDS Integers, Sequences, SequencesExt, FiniteSets

EmptyMap == [x \in {} |-> {}]

---------------------------------------------------------------------------
(* link_cost *)

\* An i8 and two u8.
LinkQuality == [rssi : -128 .. 127, loss : 0 .. 255, mcs : 0 .. 255]

\* Negation of an i8 as the optimised build computes it: -128 wraps.
NegI8(x) == IF x = -128 THEN -128 ELSE -x

BaseCost(mcs) == IF mcs < 5 THEN 100 - 10 * mcs ELSE 50

RssiPenalty(rssi) == IF NegI8(rssi) > 30 THEN 2 * (NegI8(rssi) - 30) ELSE 0

LinkCost(q) == BaseCost(q.mcs) + 10 * q.loss + RssiPenalty(q.rssi)

---------------------------------------------------------------------------
(* Duplicate check of process_tc and should_forward_tc: the number is not above *)
(* the last one accepted and less than `window` behind it.                     *)

IsOldSeq(seq, last, window) == seq <= last /\ last - seq < window

---------------------------------------------------------------------------
(* recompute_routes *)

\* Edges of the local node come from HELLOs, all others from TCs.
Edges(local, nb, topo, u) ==
    IF u = local THEN nb
    ELSE IF u \in DOMAIN topo THEN topo[u] ELSE EmptyMap

\* Insert or overwrite several keys of a map.
Overlay(new, old) ==
    [x \in DOMAIN new \cup DOMAIN old |->
        IF x \in DOMAIN new THEN new[x] ELSE old[x]]

\* The nodes whose distance the popped node lowers.
ImprovedBy(st, edges, top) ==
    {v \in DOMAIN edges :
        v \in DOMAIN st.dist => top[1] + LinkCost(edges[v]) < st.dist[v]}

\* One iteration of the while loop: pop the least (distance, node) pair, skip
\* it if outdated, otherwise relax its edges.
PopHeap(local, nb, topo, st) ==
    LET top == CHOOSE x \in st.heap : \A y \in st.heap :
                   x[1] < y[1] \/ (x[1] = y[1] /\ x[2] <= y[2])
        rest == st.heap \ {top}
        edges == Edges(local, nb, topo, top[2])
        better == ImprovedBy(st, edges, top)
        lower == [v \in better |-> top[1] + LinkCost(edges[v])]
    IN  IF top[1] > st.dist[top[2]]
        THEN [st EXCEPT !.heap = rest]
        ELSE [dist |-> Overlay(lower, st.dist),
              prev |-> Overlay([v \in better |-> top[2]], st.prev),
              heap |-> rest \cup {<<lower[v], v>> : v \in better}]

\* The state after each iteration; it stands still once the heap is empty.
DijkstraRun(local, nb, topo) ==
    LET run[n \in Nat] ==
            IF n = 0
            THEN [dist |-> [x \in {local} |-> 0], prev |-> EmptyMap,
                  heap |-> {<<0, local>>}]
            ELSE LET st == run[n - 1]
                 IN  IF st.heap = {} THEN st ELSE PopHeap(local, nb, topo, st)
    IN  run

\* The predecessors of dest: the h-th is h steps before it, up to the local node.
Walk(local, prev, dest) ==
    LET back[h \in Nat] ==
            IF h = 0 THEN dest
            ELSE LET next == back[h - 1] IN IF next = local THEN local ELSE prev[next]
    IN  back

\* Walk from dest towards the local node, at most MAX_HOPS steps.
RouteEntry(local, st, dest, MAX_HOPS) ==
    LET back == Walk(local, st.prev, dest)
        length == CHOOSE h \in 1 .. Cardinality(DOMAIN st.dist) :
                      back[h] = local /\ \A k \in 1 .. h - 1 : back[k] # local
    IN  [next_hop |-> IF length <= MAX_HOPS THEN back[length - 1] ELSE back[MAX_HOPS],
         cost |-> st.dist[dest],
         hop_count |-> IF length <= MAX_HOPS THEN length ELSE MAX_HOPS]

\* Every node is expanded once, so the heap sees at most one push per edge and
\* the one of the local node.
RoutesFor(local, nb, topo, ids, MAX_HOPS) ==
    LET links == {e \in ids \X ids : e[2] \in DOMAIN Edges(local, nb, topo, e[1])}
        st == DijkstraRun(local, nb, topo)[Cardinality(links) + 1]
    IN  [d \in DOMAIN st.dist \ {local} |-> RouteEntry(local, st, d, MAX_HOPS)]

---------------------------------------------------------------------------
(* Reference: loop-free paths and their cost *)

PathsTo(local, nb, topo, ids, d) ==
    {p \in {<<local>> \o mid \o <<d>> :
                mid \in SetToAllKPermutations(ids \ {local, d})} :
        \A i \in 1 .. Len(p) - 1 : p[i + 1] \in DOMAIN Edges(local, nb, topo, p[i])}

\* The sum of the costs of the first i links, for every i.
CostsAlong(local, nb, topo, p) ==
    LET sum[i \in 0 .. Len(p) - 1] ==
            IF i = 0 THEN 0
            ELSE sum[i - 1] + LinkCost(Edges(local, nb, topo, p[i])[p[i + 1]])
    IN  sum

PathCost(local, nb, topo, p) == CostsAlong(local, nb, topo, p)[Len(p) - 1]
=============================================================================
