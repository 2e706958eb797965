-------------------------- MODULE MCRingCollective --------------------------
(* Rings of one to four ranks, with fewer bytes than ranks (empty shards), as *)
(* many, and a remainder; in one of them two ranks share a NIC.               *)
EXTENDS RingCollective

MCRequests ==
  {[participants |-> 1, bytes |-> 3, colocated |-> {0}],
   [participants |-> 2, bytes |-> 1, colocated |-> {}],
   [participants |-> 2, bytes |-> 2, colocated |-> {0, 1}],
   [participants |-> 3, bytes |-> 4, colocated |-> {0}],
   [participants |-> 4, bytes |-> 2, colocated |-> {1}]}

=============================================================================
