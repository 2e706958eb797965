------------------------------ MODULE Routing -------------------------------
(***************************************************************************)
(* Routing (src/routing): the shortest-path service with its cache of path *)
(* sets (paths.cpp), the policies (policy.cpp) and the router that records *)
(* decisions (router.cpp), over a topology whose links, ports and switches *)
(* change state (src/topology/graph.cpp).  Arcs are numbered in the order  *)
(* of their DirectedLinkId.  The load of the links is read from the        *)
(* transport when a policy asks for it, so any load may be met.            *)
(***************************************************************************)
EXTENDS Integers, FiniteSets, SequencesExt

CONSTANTS
  Nodes, Arcs,      \* Arcs is a set of numbers
  Source, Destination,  \* the nodes of an arc
  Parts,            \* Parts[arc]: its link, its ports and the switches it touches
  Bandwidth, Propagation,  \* of the configured arcs, per unit of load
  Pairs,            \* the endpoint pairs that are asked for
  Loads,            \* what the transport may report: outstanding bytes by arc
  Hash,             \* Hash[flow]: ecmp_hash of the flow
  MaxPaths, MaxHops, MaxPairs, MaxEntries,  \* PathLimits
  MaxDecisions,     \* maximum_decisions
  MaxRevision,      \* the largest value of the revision counter
  None

ASSUME RoutingAssumption ==
  /\ MaxPaths > 0 /\ MaxHops > 0 /\ MaxPairs > 0 /\ MaxEntries > 0 /\ MaxDecisions > 0
  /\ \A p \in Pairs : p.source \in Nodes /\ p.destination \in Nodes /\ p.source # p.destination

Entities == UNION {Parts[a] : a \in Arcs}

Policies == {"shortest-path", "ecmp", "least-loaded", "queue-aware"}

VARIABLES
  down,       \* the links, ports and switches that are down
  revision,   \* operational_revision_
  cacheRevision,  \* revision_ of the path service
  cache,      \* cache_, in the order of order_
  paths, routeEntries,  \* statistics_.paths, statistics_.route_entries
  decisions   \* decisions_

vars == <<down, revision, cacheRevision, cache, paths, routeEntries, decisions>>

store == <<cacheRevision, cache, paths, routeEntries>>

----------------------------------------------------------------------------
(* Path enumeration on the topology with the given parts down.               *)

(* is_operational() *)
Usable(gone) == {a \in Arcs : Parts[a] \cap gone = {}}

Size == Cardinality(Nodes)

(* The breadth-first search of enumerate(): layer k + 1 holds the nodes at k *)
(* hops.  Links work in both directions or not at all.                       *)
Layers(gone, start) ==
  LET next(layers) ==
        {Destination[a] : a \in {b \in Usable(gone) : Source[b] \in layers[Len(layers)]}}
          \ UNION ToSet(layers)
  IN FoldLeft(LAMBDA layers, k : Append(layers, next(layers)), <<{start}>>,
              [k \in 1..Size - 1 |-> k])

(* The hops to a node, or Size when it is not reached. *)
HopsTo(layers, node) ==
  LET at == {k \in DOMAIN layers : node \in layers[k]}
  IN IF at = {} THEN Size ELSE (CHOOSE k \in at : TRUE) - 1

(* walk(): all ways down the distances from the source. *)
Walks(gone, pair) ==
  LET layers == Layers(gone, pair.destination)
      distance == HopsTo(layers, pair.source)
      down1(walks, k) ==
        {[node |-> Destination[x[1]], path |-> Append(x[2].path, x[1])] :
           x \in {y \in Usable(gone) \X walks :
                    Source[y[1]] = y[2].node /\ Destination[y[1]] \in layers[k]}}
  IN IF distance = Size THEN {}
     ELSE {w.path : w \in FoldLeft(down1, {[node |-> pair.source, path |-> <<>>]},
                                  [i \in 1..distance |-> distance + 1 - i])}

LexLess(p, q) ==
  \E i \in DOMAIN p : p[i] < q[i] /\ \A j \in 1..i - 1 : p[j] = q[j]

Hops(set) == IF set = {} THEN 0 ELSE Len(CHOOSE p \in set : TRUE)

(* What enumerate() and walk() throw on. *)
TooMany(set) ==
  \/ Hops(set) > MaxHops
  \/ Cardinality(set) > MaxPaths
  \/ set # {} /\ Cardinality(set) > MaxEntries \div Hops(set)

(* enumerate(), when it does not throw. *)
Enumerate(set) == SetToSortSeq(set, LexLess)

Entries(set) == Cardinality(set) * Hops(set)

(* shortest_path_summary(): hops and number of the shortest paths, counted   *)
(* forwards from the source; None when there is none.                        *)
ShortestPathSummary(gone, pair) ==
  LET layers == Layers(gone, pair.source)
      hops == HopsTo(layers, pair.destination)
      into(counts, node) ==
        FoldSet(LAMBDA x, sum : sum + x[2].paths, 0,
                {y \in Usable(gone) \X counts :
                   Source[y[1]] = y[2].node /\ Destination[y[1]] = node})
      counted(counts, k) == {[node |-> n, paths |-> into(counts, n)] : n \in layers[k]}
      last == FoldLeft(counted, {[node |-> pair.source, paths |-> 1]},
                       [k \in 1..hops |-> k + 1])
  IN IF hops = Size THEN None
     ELSE [hops |-> hops,
           paths |-> (CHOOSE c \in last : c.node = pair.destination).paths]

----------------------------------------------------------------------------
(* The cache. *)

CachedEntries(c) == FoldLeft(LAMBDA n, e : n + Entries(ToSet(e.paths)), 0, c)
CachedPaths(c) == FoldLeft(LAMBDA n, e : n + Len(e.paths), 0, c)

(* The numbers of oldest pairs whose eviction makes room; lookup() evicts    *)
(* one after the other until there is room.                                  *)
Evictions(c, count, entries) ==
  {k \in 0..Len(c) :
     /\ Len(c) - k < MaxPairs
     /\ entries <= MaxEntries - (count - CachedEntries(SubSeq(c, 1, k)))}

LeastOf(s) == CHOOSE k \in s : \A j \in s : k <= j

(* Mutated form: the cache is not compared with the revision. *)
StaleNever == FALSE

(* lookup() drops everything when the topology has changed. *)
Stale == cacheRevision # revision

Fresh == IF Stale THEN <<>> ELSE cache
FreshEntries == IF Stale THEN 0 ELSE routeEntries
FreshPaths == IF Stale THEN 0 ELSE paths

IsCached(pair) == \E i \in DOMAIN Fresh : Fresh[i].pair = pair

(* lookup(), up to an exception of enumerate(). *)
LookupHit(pair) ==
  /\ IsCached(pair)
  /\ cacheRevision' = revision
  /\ UNCHANGED <<cache, paths, routeEntries>>

(* evict_oldest() takes the paths of a pair off the statistics. *)
AfterEviction(count, evicted) == count - evicted

LookupMiss(pair) ==
  LET set == Walks(down, pair)
      room == Evictions(Fresh, FreshEntries, Entries(set))
      k == LeastOf(room)
      gone == SubSeq(Fresh, 1, k)
  IN /\ ~IsCached(pair)
     /\ ~TooMany(set)
     /\ room # {}
     /\ cacheRevision' = revision
     /\ cache' = Append(SubSeq(Fresh, k + 1, Len(Fresh)), [pair |-> pair, paths |-> Enumerate(set)])
     /\ paths' = AfterEviction(FreshPaths, CachedPaths(gone)) + Cardinality(set)
     /\ routeEntries' = FreshEntries - CachedEntries(gone) + Entries(set)

LookupThrows(pair) ==
  /\ ~IsCached(pair)
  /\ TooMany(Walks(down, pair))
  /\ cacheRevision' = revision
  /\ cache' = Fresh
  /\ paths' = FreshPaths
  /\ routeEntries' = FreshEntries

(* What lookup() returns, after it. *)
Found(pair) == LET i == CHOOSE i \in DOMAIN cache' : cache'[i].pair = pair IN cache'[i].paths

----------------------------------------------------------------------------
(* The policies.                                                            *)

CeilDiv(a, b) == (a + b - 1) \div b

LinkScore(policy, arc, load, chunk) ==
  IF policy = "least-loaded" THEN load[arc]
  ELSE CeilDiv(load[arc] + chunk, Bandwidth[arc]) + Propagation[arc]

(* score() *)
Score(policy, path, load, chunk) ==
  FoldLeft(LAMBDA sum, a : sum + LinkScore(policy, a, load, chunk), 0, path)

(* Mutated form: a later candidate with the same score wins. *)
BestLast(scores) ==
  CHOOSE i \in DOMAIN scores :
    /\ \A j \in DOMAIN scores : scores[i] <= scores[j]
    /\ \A j \in i + 1..Len(scores) : scores[j] # scores[i]

(* The first candidate with the least score. *)
Best(scores) ==
  CHOOSE i \in DOMAIN scores :
    /\ \A j \in DOMAIN scores : scores[i] <= scores[j]
    /\ \A j \in 1..i - 1 : scores[j] # scores[i]

(* choose(): the index of a candidate. *)
Choose(policy, candidates, flow, load, chunk) ==
  CASE policy = "shortest-path" -> 1
    [] policy = "ecmp" -> (Hash[flow] % Len(candidates)) + 1
    [] OTHER -> Best([i \in DOMAIN candidates |-> Score(policy, candidates[i], load, chunk)])

(* The part of submit() after the lookup: a decision without a path, or with *)
(* the one chosen. *)
Decide(pair, policy, flow, load, chunk) ==
  LET candidates == Found(pair)
      path == candidates[Choose(policy, candidates, flow, load, chunk)]
      decision == [pair |-> pair, policy |-> policy, flow |-> flow, load |-> load,
                   chunk |-> chunk, revision |-> revision, candidates |-> Len(candidates),
                   path |-> IF candidates = <<>> THEN None ELSE path]
  IN decisions' = Append(decisions, decision)

----------------------------------------------------------------------------
Init ==
  /\ down = {} /\ revision = 0
  /\ cacheRevision = 0 /\ cache = <<>> /\ paths = 0 /\ routeEntries = 0
  /\ decisions = <<>>

(* set_{link,port,switch}_state(): a change needs a new revision. *)
SetState(entity, up) ==
  /\ IF (entity \notin down) = up \/ revision = MaxRevision
     THEN UNCHANGED <<down, revision>>
     ELSE /\ down' = IF up THEN down \ {entity} ELSE down \cup {entity}
          /\ revision' = revision + 1
  /\ UNCHANGED <<store, decisions>>

(* submit() *)
Submit(pair, policy, flow, load, chunk) ==
  /\ Len(decisions) < MaxDecisions
  /\ \/ LookupHit(pair) /\ Decide(pair, policy, flow, load, chunk)
     \/ LookupMiss(pair) /\ Decide(pair, policy, flow, load, chunk)
     \/ LookupThrows(pair) /\ UNCHANGED decisions
  /\ UNCHANGED <<down, revision>>

(* take_decisions() *)
TakeDecisions ==
  /\ decisions # <<>>
  /\ decisions' = <<>>
  /\ UNCHANGED <<down, revision, store>>

Next ==
  \/ \E entity \in Entities, up \in BOOLEAN : SetState(entity, up)
  \/ \E pair \in Pairs, policy \in Policies, flow \in DOMAIN Hash, load \in Loads :
       Submit(pair, policy, flow, load, 1)
  \/ TakeDecisions

Spec == Init /\ [][Next]_vars

----------------------------------------------------------------------------
(* Reference definition: the operational arc sequences between two nodes     *)
(* that no shorter one connects, enumerated without distances.               *)
Connected(gone, length) ==
  FoldLeft(LAMBDA seqs, k :
             {Append(x[1], x[2]) : x \in {y \in seqs \X Usable(gone) :
                                          Destination[Last(y[1])] = Source[y[2]]}},
           {<<a>> : a \in Usable(gone)}, [k \in 1..length - 1 |-> k])

Connecting(gone, pair, length) ==
  {p \in Connected(gone, length) :
     Source[p[1]] = pair.source /\ Destination[p[length]] = pair.destination}

Shortest(gone, pair) ==
  LET lengths == {k \in 1..Size - 1 : Connecting(gone, pair, k) # {}}
  IN IF lengths = {} THEN {} ELSE Connecting(gone, pair, LeastOf(lengths))

(* What the cache answers is true now: while its revision is current, every  *)
(* cached set is the set of shortest operational paths of its pair, whatever *)
(* failed and recovered, and was evicted and found again, in between; the    *)
(* count of shortest_path_summary agrees with it.  Pairs are cached once,    *)
(* within the limits, and the running totals are exact, so that eviction can *)
(* always make room: no path set that enumerate() returns needs more entries *)
(* than an empty cache has, and lookup() never evicts from an empty queue.   *)
CacheCoherent ==
  /\ cacheRevision = revision =>
       \A i \in DOMAIN cache :
         LET set == Shortest(down, cache[i].pair)
             summary == ShortestPathSummary(down, cache[i].pair)
         IN /\ ToSet(cache[i].paths) = set
            /\ Len(cache[i].paths) = Cardinality(set)
            /\ summary = IF set = {} THEN None
                         ELSE [hops |-> Hops(set), paths |-> Cardinality(set)]
  /\ paths = CachedPaths(cache)
  /\ routeEntries = CachedEntries(cache)
  /\ Len(cache) <= MaxPairs /\ routeEntries <= MaxEntries
  /\ \A i, j \in DOMAIN cache : cache[i].pair = cache[j].pair => i = j
  /\ \A pair \in Pairs :
       LET set == Walks(down, pair)
       IN ~TooMany(set) => Entries(set) <= MaxEntries

(* A decision just made routes over arcs that are up, along a shortest path, *)
(* and the load-aware policies take the canonically first path of least      *)
(* score; without a path there is none at all.                               *)
DecisionSound ==
  \A i \in DOMAIN decisions :
    LET d == decisions[i]
        set == Shortest(down, d.pair)
        score(p) == Score(d.policy, p, d.load, d.chunk)
    IN d.revision = revision =>
         /\ d.path = None <=> set = {}
         /\ d.path # None =>
              /\ d.path \in set /\ d.candidates = Cardinality(set)
              /\ d.policy = "shortest-path" => \A p \in set \ {d.path} : LexLess(d.path, p)
              /\ d.policy \in {"least-loaded", "queue-aware"} =>
                   \A p \in set \ {d.path} :
                     score(d.path) < score(p) \/ (score(d.path) = score(p) /\ LexLess(d.path, p))

=============================================================================
