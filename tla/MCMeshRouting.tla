--------------------------- MODULE MCMeshRouting ---------------------------
(* Small instances of MeshRouting: nodes 1, 2, 3, ... in a line. *)
EXTENDS MeshRouting

\* Each node is in range of the ones next to it.
Line == [n \in Nodes |-> {n - 1, n + 1} \cap Nodes]

\* Nodes 1, 2 and 3 hear each other along the line; from 3 on nodes hear only
\* the one before them, whose radio is stronger.
LineWithTail == [n \in Nodes |-> {m \in Nodes : m = n + 1 \/ (m = n - 1 /\ n <= 3)}]

\* Only node 2 has routes.
RelayRoutes == [n \in Nodes |-> IF n = 2 THEN Nodes \ {2} ELSE {}]

\* Every node has a route to every other.
AllRoutes == [n \in Nodes |-> Nodes \ {n}]

Mixed == {<<1, "OlsrTc", BROADCAST>>, <<1, "OlsrHello", BROADCAST>>,
          <<2, "Data", BROADCAST>>, <<2, "Data", 3>>}
ToEnd == {<<1, "Data", 3>>}
============================================================================
