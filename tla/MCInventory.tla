---------------------------- MODULE MCInventory -----------------------------
(* Five GPUs in two racks on three NICs, two jobs, pinned requests in and out *)
(* of order, duplicated, and too large.                                       *)
EXTENDS Inventory

MCGpus == 1..5
MCRack == [gpu \in MCGpus |-> IF gpu \in {1, 4} THEN 1 ELSE 2]
MCNic == [gpu \in MCGpus |-> IF gpu \in {1, 4} THEN 1 ELSE IF gpu = 2 THEN 2 ELSE 3]
MCScore == [job \in 1..2 |-> [gpu \in MCGpus |-> (gpu * (2 + job)) % 4]]
MCRequests ==
  {[workers |-> n, pinned |-> <<>>] : n \in {2, 3, 6}} \cup
  {[workers |-> 2, pinned |-> <<4, 1>>], [workers |-> 2, pinned |-> <<3, 3>>],
   [workers |-> 1, pinned |-> <<2>>]}

=============================================================================
