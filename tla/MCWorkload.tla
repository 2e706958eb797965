----------------------------- MODULE MCWorkload -----------------------------
(* Four GPUs in two racks, so that two jobs can reduce at the same time.  Two *)
(* jobs want two GPUs, one pinned and overlapping communication, one is small *)
(* and one asks for more than there are; the last of two buckets is short.    *)
(* At time 3 collectives are in flight, at time 1 none is.                    *)
EXTENDS Workload

MCGpus == 1..4
MCRack == [gpu \in MCGpus |-> IF gpu <= 2 THEN 1 ELSE 2]
MCNic == MCRack
MCScore == [job \in 1..3 |-> [gpu \in MCGpus |-> gpu]]
MCSpecs ==
  {[pinned |-> <<2, 1>>, compute |-> <<1, 2>>, arrival |-> 1, steps |-> 1, gradient |-> 3,
    bucket |-> 2, overlap |-> TRUE, priority |-> 0],
   [pinned |-> <<>>, compute |-> <<2, 1>>, arrival |-> 0, steps |-> 2, gradient |-> 1,
    bucket |-> 2, overlap |-> FALSE, priority |-> 1],
   [pinned |-> <<2>>, compute |-> <<1>>, arrival |-> 1, steps |-> 2, gradient |-> 3,
    bucket |-> 2, overlap |-> FALSE, priority |-> 1],
   [pinned |-> <<>>, compute |-> <<1, 1, 1, 1, 1>>, arrival |-> 0, steps |-> 1, gradient |-> 1,
    bucket |-> 1, overlap |-> FALSE, priority |-> 0]}

=============================================================================
