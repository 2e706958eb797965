------------------------- MODULE MCCollectiveFabric -------------------------
(* NICs a and b and a switch s: link l1 joins a and s, links l2 and l3 join  *)
(* s and b, so that there are two routes from a to b; no route back uses l3. *)
(* Rings of one, two and three ranks; in the last two ranks share NIC a.     *)
(* With two bytes they have an empty shard.  With four bytes the shards are  *)
(* of two, one and one: the transfer on NIC a takes five when it has two and *)
(* then ends after those over the fabric, which take four, and ends the      *)
(* round; in the other rounds it takes three and a delivery ends the round.  *)
(* When l2 is down, the ring of two finds no route for its first transfer    *)
(* but would for its second; the ring of three has it the other way round.   *)
(* A buffer holds one chunk besides the one in service, so that two rings    *)
(* at once also lose chunks.                                                 *)
EXTENDS CollectiveFabric

MCArcs == <<"u1", "d1", "u2", "d2", "u3">>
MCArcSet == {"u1", "d1", "u2", "d2", "u3"}
MCConfig == [x \in MCArcSet |-> [capacity |-> 1, threshold |-> None, delay |-> 1, propagation |-> 1]]
MCSource == [x \in MCArcSet |-> CASE x = "u1" -> "a" [] x = "d2" -> "b" [] OTHER -> "s"]
MCDestination ==
  [x \in MCArcSet |-> CASE x = "d1" -> "a" [] x \in {"u2", "u3"} -> "b" [] OTHER -> "s"]
MCLink == [x \in MCArcSet |-> CASE x \in {"u1", "d1"} -> "l1"
                                [] x \in {"u2", "d2"} -> "l2" [] OTHER -> "l3"]
MCNone == [x \in MCArcSet |-> {}]
MCNothing == {}
MCPaths ==
  [x \in {<<"a", "b">>, <<"b", "a">>} |->
     IF x = <<"a", "b">> THEN {<<"u1", "u2">>, <<"u1", "u3">>} ELSE {<<"d2", "d1">>}]
MCCollectives ==
  {[participants |-> 1, bytes |-> 1, colocated |-> {0}, nics |-> <<"b">>, chunk |-> 1],
   [participants |-> 2, bytes |-> 3, colocated |-> {}, nics |-> <<"b", "a">>, chunk |-> 1],
   [participants |-> 3, bytes |-> 2, colocated |-> {0}, nics |-> <<"a", "a", "b">>, chunk |-> 1],
   [participants |-> 3, bytes |-> 4, colocated |-> {0}, nics |-> <<"a", "a", "b">>, chunk |-> 2]}

=============================================================================
