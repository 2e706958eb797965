----------------------------- MODULE MCRouting ------------------------------
(* Hosts 1 and 2 are joined by each of the switches 3, 4 and 5, the first two *)
(* of which are also linked to each other; no two nodes share two links, as   *)
(* connect_fabric() demands.  Arcs 2k - 1 and 2k are the directions of link k. *)
EXTENDS Routing

Ends == <<<<1, 3>>, <<1, 4>>, <<1, 5>>, <<3, 2>>, <<4, 2>>, <<5, 2>>, <<3, 4>>>>
MCNodes == 1..5
MCArcs == 1..2 * Len(Ends)
LinkOf(a) == (a + 1) \div 2
MCSource == [a \in MCArcs |-> Ends[LinkOf(a)][IF a % 2 = 1 THEN 1 ELSE 2]]
MCDestination == [a \in MCArcs |-> Ends[LinkOf(a)][IF a % 2 = 1 THEN 2 ELSE 1]]
(* The port of host 2 is the only one that fails here. *)
MCParts ==
  [a \in MCArcs |-> {<<"link", LinkOf(a)>>} \cup
     {<<"switch", n>> : n \in {MCSource[a], MCDestination[a]} \cap {3, 4, 5}}
     \cup (IF LinkOf(a) = 4 THEN {<<"port", 2>>} ELSE {})]
MCBandwidth == [a \in MCArcs |-> IF LinkOf(a) = 3 THEN 1 ELSE 2]
MCPropagation == [a \in MCArcs |-> 1]
MCPairs ==
  {[source |-> 1, destination |-> 2], [source |-> 2, destination |-> 1],
   [source |-> 1, destination |-> 4]}
MCLoads ==
  {[a \in MCArcs |-> 0], [a \in MCArcs |-> IF LinkOf(a) \in {1, 4} THEN 2 ELSE 1]}
MCHash == [flow \in 1..2 |-> 3 * flow]

=============================================================================
