---------------------------- MODULE MCTransport ----------------------------
(* Two hosts a and b around one switch s: link l1 joins a and s, link l2     *)
(* joins s and b.  Traffic flows from a to b over two arcs, the second with  *)
(* a slower serializer and no buffer, and back from s to a over the reverse  *)
(* arc of l1.  The links and the switch fail in one configuration, the links *)
(* and the port of b in the other, where chunks are registered and started   *)
(* one by one.                                                               *)
EXTENDS Transport

CONSTANTS a1, r1, a2, l1, l2, p, s

MCArcs == <<a1, r1, a2>>
MCConfig ==
  [x \in {a1, r1, a2} |->
     IF x = a2 THEN [capacity |-> 0, threshold |-> None, delay |-> 2, propagation |-> 1]
               ELSE [capacity |-> 3, threshold |-> 2, delay |-> 1, propagation |-> 1]]
MCSource == [x \in {a1, r1, a2} |-> IF x = a1 THEN "a" ELSE "s"]
MCDestination == [x \in {a1, r1, a2} |-> CASE x = a1 -> "s" [] x = r1 -> "a" [] x = a2 -> "b"]
MCLink == [x \in {a1, r1, a2} |-> IF x = a2 THEN l2 ELSE l1]
MCPorts == [x \in {a1, r1, a2} |-> {}]
MCEndPort == [x \in {a1, r1, a2} |-> IF x = a2 THEN {p} ELSE {}]
MCSwitches == [x \in {a1, r1, a2} |-> {s}]
MCRequests ==
  {[bytes |-> 5, maximumChunk |-> 2, route |-> <<a1, a2>>, source |-> "a", destination |-> "b"],
   [bytes |-> 3, maximumChunk |-> 2, route |-> <<a1, a2>>, source |-> "a", destination |-> "b"],
   [bytes |-> 1, maximumChunk |-> 2, route |-> <<r1>>, source |-> "s", destination |-> "a"],
   [bytes |-> 1, maximumChunk |-> 2, route |-> <<a2, a1>>, source |-> "s", destination |-> "s"]}
MCRegistrations == {[bytes |-> 1, route |-> <<a1, a2>>], [bytes |-> 2, route |-> <<a1>>]}
MCNone == {}

=============================================================================
