----------------------------- MODULE Placement ------------------------------
(***************************************************************************)
(* The scheduler's decisions (src/scheduling/policy.cpp) and the GPU       *)
(* inventory they are made from (src/scheduling/inventory.cpp), as         *)
(* operators.  A view of the cluster maps every GPU to its health and its  *)
(* owner; a request asks for a number of workers or pins them in rank      *)
(* order.                                                                  *)
(***************************************************************************)
EXTENDS Integers, FiniteSets, Sequences, Functions

CONSTANTS Gpus,   \* a set of numbers
          Rack,   \* the rack of a GPU
          Nic,    \* the NIC of a GPU
          Score,  \* Score[job][gpu]: the seeded hash of the random policy
          None

ASSUME PlacementAssumption ==
  /\ Gpus \subseteq Nat /\ Gpus # {} /\ IsFiniteSet(Gpus)
  /\ Rack \in [Gpus -> Nat] /\ Nic \in [Gpus -> Nat]
  /\ None \notin Nat

Policies == {"first-fit", "random", "rack-local", "compact"}

(* ResourceInventory(): every GPU is healthy and free. *)
FullInventory == [gpu \in Gpus |-> [healthy |-> TRUE, owner |-> None]]

(* Mutated form: the owner of a GPU is not looked at. *)
FreeGpusOwnedToo(view) == {gpu \in Gpus : view[gpu].healthy}

FreeGpus(view) == {gpu \in Gpus : view[gpu].healthy /\ view[gpu].owner = None}

InRack(free, rack) == {gpu \in free : Rack[gpu] = rack}

(* allocate(): the placement has been checked, it takes every worker. *)
Allocated(view, job, workers) ==
  [gpu \in Gpus |-> IF gpu \in Range(workers) THEN [view[gpu] EXCEPT !.owner = job] ELSE view[gpu]]

(* What allocate() throws on. *)
MayAllocate(view, job, workers) ==
  /\ workers # <<>>
  /\ \A gpu \in Gpus : view[gpu].owner # job
  /\ Range(workers) \subseteq FreeGpus(view)
  /\ IsInjective(workers)

(* Mutated form: a failed GPU keeps its owner. *)
ReleasedHealthyOnly(view, job) ==
  [gpu \in Gpus |-> IF view[gpu].owner = job /\ view[gpu].healthy
                    THEN [view[gpu] EXCEPT !.owner = None] ELSE view[gpu]]

(* release(): whatever the health of the GPUs. *)
Released(view, job) ==
  [gpu \in Gpus |-> IF view[gpu].owner = job THEN [view[gpu] EXCEPT !.owner = None] ELSE view[gpu]]

(* set_health(): a GPU that fails keeps its owner. *)
WithHealth(view, gpu, healthy) == [view EXCEPT ![gpu].healthy = healthy]

----------------------------------------------------------------------------
(* fragmentation(): the free GPUs outside the rack that has most of them. *)
Fragmentation(view) ==
  LET free == FreeGpus(view)
      sizes == {Cardinality(InRack(free, Rack[gpu])) : gpu \in free} \cup {0}
  IN Cardinality(free) - (CHOOSE n \in sizes : \A m \in sizes : m <= n)

(* locality(): the racks of an allocation and the edges of its ring that     *)
(* leave a rack.                                                             *)
Locality(workers) ==
  [racks |-> Cardinality({Rack[gpu] : gpu \in Range(workers)}),
   nics |-> Cardinality({Nic[gpu] : gpu \in Range(workers)}),
   crossRackRingEdges |->
     Cardinality({i \in DOMAIN workers :
                    Rack[workers[i]] # Rack[workers[(i % Len(workers)) + 1]]})]

----------------------------------------------------------------------------
(* The orders of the policies; the first GPUs of the order are placed.       *)

(* std::sort by a strict total order: before[a] holds what precedes a. *)
Ranked(free, before) ==
  [i \in 1..Cardinality(free) |-> CHOOSE a \in free : Cardinality(before[a]) = i - 1]

(* order(), before a policy reorders: by id. *)
IdOrder(free) == Ranked(free, [a \in free |-> {b \in free : b < a}])

RandomOrder(free, job) ==
  Ranked(free, [a \in free |->
    {b \in free : \/ Score[job][b] < Score[job][a]
                  \/ Score[job][b] = Score[job][a] /\ b < a}])

(* Mutated form: a rack is chosen that has one GPU too few. *)
FirstFittingShort(free, count) ==
  LET fitting == {Rack[gpu] : gpu \in {g \in free : Cardinality(InRack(free, Rack[g])) + 1 >= count}}
  IN {gpu \in free : fitting # {} /\ Rack[gpu] = CHOOSE r \in fitting : \A q \in fitting : r <= q}

(* rack_local(): the free GPUs of the first rack that holds the whole job. *)
FirstFitting(free, count) ==
  LET fitting == {Rack[gpu] : gpu \in {g \in free : Cardinality(InRack(free, Rack[g])) >= count}}
  IN {gpu \in free : fitting # {} /\ Rack[gpu] = CHOOSE r \in fitting : \A q \in fitting : r <= q}

(* rack_local(): those GPUs, then the others, each in their order. *)
RackLocalOrder(free, count) ==
  LET local == FirstFitting(free, count)
  IN Ranked(free, [a \in free |->
       IF a \in local THEN {b \in local : b < a} ELSE local \cup {b \in free : b < a}])

(* compact(): the racks with most free GPUs first, in a rack the NICs with   *)
(* most free GPUs first.                                                     *)
CompactOrder(free) ==
  LET inRack(gpu) == Cardinality(InRack(free, Rack[gpu]))
      onNic(gpu) == Cardinality({g \in free : Nic[g] = Nic[gpu]})
  IN Ranked(free, [a \in free |-> {b \in free :
       IF Rack[b] # Rack[a]
       THEN inRack(b) > inRack(a) \/ (inRack(b) = inRack(a) /\ Rack[b] < Rack[a])
       ELSE IF Nic[b] # Nic[a]
       THEN onNic(b) > onNic(a) \/ (onNic(b) = onNic(a) /\ Nic[b] < Nic[a])
       ELSE b < a}])

Order(policy, free, request) ==
  CASE policy = "random" -> RandomOrder(free, request.job)
    [] policy = "rack-local" -> RackLocalOrder(free, request.workers)
    [] policy = "compact" -> CompactOrder(free)
    [] OTHER -> IdOrder(free)

Decision(outcome, workers) == [outcome |-> outcome, workers |-> workers]

(* pinned() *)
Pinned(request, view) ==
  IF ~(Range(request.pinned) \subseteq Gpus /\ IsInjective(request.pinned))
  THEN Decision("Rejected", <<>>)
  ELSE IF Range(request.pinned) \subseteq FreeGpus(view)
  THEN Decision("Placed", request.pinned)
  ELSE Decision("Waiting", <<>>)

(* place() *)
Place(policy, request, view) ==
  LET free == FreeGpus(view)
  IN IF \/ request.workers = 0 \/ request.workers > Cardinality(Gpus)
        \/ request.pinned # <<>> /\ Len(request.pinned) # request.workers
     THEN Decision("Rejected", <<>>)
     ELSE IF request.pinned # <<>> THEN Pinned(request, view)
     ELSE IF Cardinality(free) < request.workers THEN Decision("Waiting", <<>>)
     ELSE Decision("Placed", SubSeq(Order(policy, free, request), 1, request.workers))

=============================================================================
