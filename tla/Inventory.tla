----------------------------- MODULE Inventory ------------------------------
(* The GPU inventory under any sequence of placements, releases and health    *)
(* changes: what the four policies promise of a decision.                     *)
EXTENDS Placement

CONSTANTS Jobs,     \* job ids
          Requests  \* what a job may ask for: workers and pinned GPUs

ASSUME InventoryAssumption ==
  /\ None \notin Jobs
  /\ \A job \in Jobs : Score[job] \in [Gpus -> Nat]
  /\ \A wanted \in Requests : wanted.workers \in Nat /\ wanted.pinned \in Seq(Nat)

VARIABLES gpus,    \* gpus_
          granted, \* granted[job]: the workers of the job's live allocation
          last     \* the decision just made: request, policy, view before, result

ivars == <<gpus, granted, last>>

Init ==
  /\ gpus = FullInventory
  /\ granted = [job \in Jobs |-> <<>>]
  /\ last = None

(* A decision of a policy for a job that has no GPUs, and its allocation. *)
Decide(job, policy, wanted) ==
  LET request == [job |-> job, workers |-> wanted.workers, pinned |-> wanted.pinned]
      decision == Place(policy, request, gpus)
  IN /\ granted[job] = <<>>
     /\ last' = [request |-> request, policy |-> policy, before |-> gpus, result |-> decision,
                 loose |-> Fragmentation(gpus)]
     /\ IF decision.outcome = "Placed"
        THEN /\ gpus' = Allocated(gpus, job, decision.workers)
             /\ granted' = [granted EXCEPT ![job] = decision.workers]
        ELSE UNCHANGED <<gpus, granted>>

Release(job) ==
  /\ gpus' = Released(gpus, job)
  /\ granted' = [granted EXCEPT ![job] = <<>>]
  /\ last' = None

SetHealth(gpu, healthy) ==
  /\ gpus' = WithHealth(gpus, gpu, healthy)
  /\ last' = None
  /\ UNCHANGED granted

Next ==
  \/ \E job \in Jobs, policy \in Policies, wanted \in Requests : Decide(job, policy, wanted)
  \/ \E job \in Jobs : Release(job)
  \/ \E gpu \in Gpus, healthy \in BOOLEAN : SetHealth(gpu, healthy)

Spec == Init /\ [][Next]_ivars

----------------------------------------------------------------------------
(* A placement is one allocate() accepts: free, healthy and distinct GPUs,   *)
(* as many as asked, pinned ones in their order; a job waits only when they  *)
(* are not all free.  Allocations stay whole and never overlap, also when    *)
(* GPUs fail while they are owned.                                           *)
PlacementSound ==
  /\ \A job \in Jobs : {gpu \in Gpus : gpus[gpu].owner = job} = Range(granted[job])
  /\ last # None =>
       LET free == FreeGpus(last.before)
           result == last.result
           request == last.request
       IN /\ result.outcome = "Placed" =>
               /\ MayAllocate(last.before, request.job, result.workers)
               /\ \A gpu \in Range(result.workers) :
                    last.before[gpu].healthy /\ last.before[gpu].owner = None
               /\ Len(result.workers) = request.workers
               /\ request.pinned # <<>> => result.workers = request.pinned
          /\ result.outcome = "Waiting" =>
               IF request.pinned = <<>> THEN Cardinality(free) < request.workers
               ELSE ~(Range(request.pinned) \subseteq free)

(* The rack-local and compact policies keep a job in one rack whenever some  *)
(* rack has enough free GPUs, no matter how the free GPUs are scattered; and *)
(* the ring of an allocation leaves racks twice or more, or not at all.      *)
LocalWhenPossible ==
  last # None /\ last.result.outcome = "Placed" =>
    LET free == FreeGpus(last.before)
        local == Locality(last.result.workers)
        fits == \E gpu \in free : Cardinality(InRack(free, Rack[gpu])) >= last.request.workers
    IN /\ last.policy \in {"rack-local", "compact"} /\ last.request.pinned = <<>> =>
            (local.racks = 1) = fits
       /\ local.racks = 1 => local.crossRackRingEdges = 0
       /\ local.racks > 1 => local.crossRackRingEdges >= local.racks
       /\ last.loose = 0 /\ last.request.pinned = <<>> => local.racks = 1

=============================================================================
