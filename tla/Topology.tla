------------------------------ MODULE Topology ------------------------------
(***************************************************************************)
(* The topology graph (src/topology): construction by add_* and            *)
(* connect_fabric (graph.cpp), the generators (families.cpp, clos.cpp),    *)
(* validation (validation.cpp), and export and import of a topology as a   *)
(* document (export.cpp, import.cpp).  Identifiers count from 1 here and   *)
(* from 0 in the code.  A call that throws leaves the graph as it was.     *)
(***************************************************************************)
EXTENDS Integers, FiniteSets, SequencesExt, TLC

CONSTANTS
  MaxRacks, MaxNics, MaxGpus, MaxSwitches, MaxLinks,  \* bounds of construction
  RolePairs,        \* the port roles connect_fabric is called with
  SingleRackConfigs, LeafSpineConfigs, ClosConfigs,
  MaxRevision,      \* the largest value of the revision counter
  None

VARIABLES
  graph,            \* the TopologyGraph
  generated         \* the configuration it was generated from, or None

vars == <<graph, generated>>

----------------------------------------------------------------------------
(* Construction.  next holds the SequentialIdGenerators, out the adjacency.  *)

EmptyGraph ==
  [racks |-> <<>>, nics |-> <<>>, gpus |-> <<>>, switches |-> <<>>,
   ports |-> <<>>, links |-> <<>>, out |-> <<>>, revision |-> 0,
   next |-> [rack |-> 1, nic |-> 1, gpu |-> 1, switch |-> 1, port |-> 1, link |-> 1]]

(* find_dense() finds the entity. *)
Known(entities, id) == id \in 1..Len(entities) /\ entities[id].id = id

(* contains(); a node is its kind and its identifier. *)
HasNode(g, node) ==
  CASE node[1] = "Gpu" -> Known(g.gpus, node[2])
    [] node[1] = "Nic" -> Known(g.nics, node[2])
    [] OTHER -> Known(g.switches, node[2])

DirectedLinks(link) ==
  <<[link |-> link.id, direction |-> "AToB", source |-> link.a, destination |-> link.b],
    [link |-> link.id, direction |-> "BToA", source |-> link.b, destination |-> link.a]>>

AppendLink(g, link, a, b) ==
  LET directions == DirectedLinks(link)
  IN [g EXCEPT !.links = Append(@, link),
               !.out[a] = Append(@, directions[1]),
               !.out[b] = Append(@, directions[2])]

AppendOwnerPort(g, owner, port) ==
  IF owner[1] = "Nic" THEN [g EXCEPT !.nics[owner[2]].ports = Append(@, port)]
  ELSE [g EXCEPT !.switches[owner[2]].ports = Append(@, port)]

AddRack(g) ==
  [g EXCEPT !.next.rack = @ + 1,
            !.racks = Append(@, [id |-> g.next.rack, gpus |-> <<>>, nics |-> <<>>,
                                 leafSwitches |-> <<>>])]

AddNic(g, rack) ==
  IF ~Known(g.racks, rack) THEN g
  ELSE [g EXCEPT !.next.nic = @ + 1,
                 !.nics = Append(@, [id |-> g.next.nic, rack |-> rack,
                                     attachedGpus |-> <<>>, ports |-> <<>>]),
                 !.out = @ @@ (<<"Nic", g.next.nic>> :> <<>>),
                 !.racks[rack].nics = Append(@, g.next.nic)]

AddGpu(g, nic) ==
  LET gpu == g.next.gpu
      gpuPort == g.next.port
      nicPort == gpuPort + 1
      rack == g.nics[nic].rack
      port(id, owner) == [id |-> id, owner |-> owner, role |-> "Local", state |-> "Up"]
      added ==
        [g EXCEPT !.next.gpu = @ + 1, !.next.port = @ + 2, !.next.link = @ + 1,
                  !.gpus = Append(@, [id |-> gpu, rack |-> rack, attachedNic |-> nic,
                                      port |-> gpuPort]),
                  !.out = @ @@ (<<"Gpu", gpu>> :> <<>>),
                  !.nics[nic].attachedGpus = Append(@, gpu),
                  !.nics[nic].ports = Append(@, nicPort),
                  !.racks[rack].gpus = Append(@, gpu),
                  !.ports = @ \o <<port(gpuPort, <<"Gpu", gpu>>),
                                   port(nicPort, <<"Nic", nic>>)>>]
  IN IF ~Known(g.nics, nic) THEN g
     ELSE AppendLink(added, [id |-> g.next.link, a |-> gpuPort, b |-> nicPort,
                             kind |-> "LocalAttachment", state |-> "Up"],
                     <<"Gpu", gpu>>, <<"Nic", nic>>)

AddSwitch(g, rack, role) ==
  [g EXCEPT !.next.switch = @ + 1,
            !.switches = Append(@, [id |-> g.next.switch, rack |-> rack, role |-> role,
                                    ports |-> <<>>, state |-> "Up"]),
            !.out = @ @@ (<<"Switch", g.next.switch>> :> <<>>)]

AddLeafSwitch(g, rack) ==
  IF ~Known(g.racks, rack) THEN g
  ELSE [AddSwitch(g, rack, "Leaf") EXCEPT
          !.racks[rack].leafSwitches = Append(@, g.next.switch)]

AddSpineSwitch(g) == AddSwitch(g, None, "Spine")

DirectlyConnected(g, a, b) ==
  \E i \in DOMAIN g.out[a] : g.ports[g.out[a][i].destination].owner = b

(* What connect_fabric() does not throw on. *)
Connectable(g, a, roleA, b, roleB) ==
  /\ HasNode(g, a) /\ HasNode(g, b)
  /\ a # b
  /\ a[1] # "Gpu" /\ b[1] # "Gpu"
  /\ roleA # "Local" /\ roleB # "Local"
  /\ ~DirectlyConnected(g, a, b)

Connected(g, a, roleA, b, roleB) ==
  LET portA == g.next.port
      portB == portA + 1
      port(id, owner, role) == [id |-> id, owner |-> owner, role |-> role, state |-> "Up"]
      owned == AppendOwnerPort(AppendOwnerPort(g, a, portA), b, portB)
      added == [owned EXCEPT !.next.port = @ + 2, !.next.link = @ + 1,
                             !.ports = @ \o <<port(portA, a, roleA), port(portB, b, roleB)>>]
  IN AppendLink(added, [id |-> g.next.link, a |-> portA, b |-> portB,
                        kind |-> "Fabric", state |-> "Up"], a, b)

(* Mutated form: the identifiers are taken before the checks. *)
ConnectFabricIdsFirst(g, a, roleA, b, roleB) ==
  IF Connectable(g, a, roleA, b, roleB) THEN Connected(g, a, roleA, b, roleB)
  ELSE [g EXCEPT !.next.port = @ + 2, !.next.link = @ + 1]

ConnectFabric(g, a, roleA, b, roleB) ==
  IF Connectable(g, a, roleA, b, roleB) THEN Connected(g, a, roleA, b, roleB) ELSE g

(* set_link_state(), set_port_state() and set_switch_state(), by the field   *)
(* of the graph they change: when they return true, and what they do.        *)
Settable(g, field, id, state) ==
  Known(g[field], id) /\ (g[field][id].state = state \/ g.revision < MaxRevision)

SetState(g, field, id, state) ==
  IF Settable(g, field, id, state) /\ g[field][id].state # state
  THEN [g EXCEPT ![field][id].state = state, !.revision = @ + 1]
  ELSE g

----------------------------------------------------------------------------
(* Generators. *)

Upto(n) == [i \in 1..n |-> i]

(* A loop: Op on the value so far for each element of seq.  It goes through  *)
(* sets of one value so that TLC evaluates a call before the next.           *)
Loop(Op(_, _), g, seq) ==
  LET calls(start) ==
        FoldLeft(LAMBDA values, x : {Op(v, x) : v \in values}, {start}, seq)
  IN CHOOSE v \in UNION {calls(start) : start \in {g}} : TRUE

AddLeafRack(g, nicCount, gpusPerNic) ==
  LET rack == g.next.rack
      leaf == g.next.switch
      withNic(h, i) ==
        ConnectFabric(Loop(LAMBDA k, j : AddGpu(k, h.next.nic), AddNic(h, rack), Upto(gpusPerNic)),
                      <<"Nic", h.next.nic>>, "FabricUplink", <<"Switch", leaf>>, "FabricDownlink")
  IN Loop(withNic, AddLeafSwitch(AddRack(g), rack), Upto(nicCount))

TwoGpuDirect ==
  LET endpoint(g, i) == AddGpu(AddNic(AddRack(g), g.next.rack), g.next.nic)
  IN ConnectFabric(Loop(endpoint, EmptyGraph, Upto(2)),
                   <<"Nic", 1>>, "FabricUplink", <<"Nic", 2>>, "FabricUplink")

ValidSingleRack(c) ==
  c.gpuCount > 0 /\ c.gpusPerNic > 0 /\ c.gpuCount % c.gpusPerNic = 0

SingleRack(c) == AddLeafRack(EmptyGraph, c.gpuCount \div c.gpusPerNic, c.gpusPerNic)

ValidLeafSpine(c) ==
  c.leafCount > 0 /\ c.nicsPerLeaf > 0 /\ c.gpusPerNic > 0 /\ c.spineCount > 0

(* Every leaf with every spine, in the order of the two loops. *)
ConnectLeavesAndSpines(g, leaves, spines) ==
  Loop(LAMBDA h, leaf :
         Loop(LAMBDA k, spine : ConnectFabric(k, <<"Switch", leaf>>, "FabricUplink",
                                                 <<"Switch", spine>>, "FabricDownlink"),
              h, spines),
       g, leaves)

SwitchIds(g, role) ==
  SelectSeq(Upto(Len(g.switches)), LAMBDA i : g.switches[i].role = role)

(* Mutated form: the loop over the leaves misses the last one. *)
LeafSpineShort(c) ==
  LET racks == Loop(LAMBDA g, i : AddLeafRack(g, c.nicsPerLeaf, c.gpusPerNic),
                    EmptyGraph, Upto(c.leafCount))
      g == Loop(LAMBDA h, i : AddSpineSwitch(h), racks, Upto(c.spineCount))
  IN ConnectLeavesAndSpines(g, Front(SwitchIds(g, "Leaf")), SwitchIds(g, "Spine"))

LeafSpine(c) ==
  LET racks == Loop(LAMBDA g, i : AddLeafRack(g, c.nicsPerLeaf, c.gpusPerNic),
                    EmptyGraph, Upto(c.leafCount))
      g == Loop(LAMBDA h, i : AddSpineSwitch(h), racks, Upto(c.spineCount))
  IN ConnectLeavesAndSpines(g, SwitchIds(g, "Leaf"), SwitchIds(g, "Spine"))

ValidClos(c) ==
  /\ c.gpuCount > 0 /\ c.gpusPerNic > 0 /\ c.nicsPerLeaf > 0 /\ c.spineCount > 0
  /\ c.gpuCount % c.gpusPerNic = 0
  /\ (c.gpuCount \div c.gpusPerNic) % c.nicsPerLeaf = 0

ClosDimensions(c) ==
  LET nicCount == c.gpuCount \div c.gpusPerNic
      leafCount == nicCount \div c.nicsPerLeaf
      linkCount == c.gpuCount + nicCount + leafCount * c.spineCount
  IN [gpus |-> c.gpuCount, nics |-> nicCount, racks |-> leafCount,
      switches |-> leafCount + c.spineCount, ports |-> 2 * linkCount, links |-> linkCount]

Clos(c) ==
  LeafSpine([leafCount |-> ClosDimensions(c).racks, nicsPerLeaf |-> c.nicsPerLeaf,
             gpusPerNic |-> c.gpusPerNic, spineCount |-> c.spineCount])

----------------------------------------------------------------------------
(* Validation: the set of codes of the errors in the report. *)

Count(seq, value) == Cardinality({i \in DOMAIN seq : seq[i] = value})

Error(code, wrong) == IF wrong THEN {code} ELSE {}

Dense(entities) == \A i \in DOMAIN entities : entities[i].id = i

IdentityErrors(g) ==
  Error("EmptyTopology", g.gpus = <<>>)
    \cup Error("NonDenseId", ~(/\ Dense(g.gpus) /\ Dense(g.nics) /\ Dense(g.switches)
                               /\ Dense(g.racks) /\ Dense(g.ports) /\ Dense(g.links)))

(* Each of ids is known, listed once, and one of those that refer back. *)
MemberErrors(ids, entities, referring, mismatch) ==
  UNION {IF ~Known(entities, id) THEN {"UnknownReference"}
         ELSE Error(mismatch, id \notin referring \/ Count(ids, id) # 1) :
         id \in ToSet(ids)}

RackErrors(g, rack) ==
  LET mismatch == "RelationshipMismatch"
      inRack(entities) == {i \in DOMAIN entities : entities[i].rack = rack.id}
      leaves == {i \in DOMAIN g.switches : g.switches[i].role = "Leaf"}
  IN MemberErrors(rack.gpus, g.gpus, inRack(g.gpus), mismatch)
       \cup MemberErrors(rack.nics, g.nics, inRack(g.nics), mismatch)
       \cup MemberErrors(rack.leafSwitches, g.switches, leaves \cap inRack(g.switches), mismatch)

GpuErrors(g, gpu) ==
  LET nic == g.nics[gpu.attachedNic]
      port == g.ports[gpu.port]
  IN IF ~(Known(g.nics, gpu.attachedNic) /\ Known(g.racks, gpu.rack) /\ Known(g.ports, gpu.port))
     THEN {"UnknownReference"}
     ELSE Error("RelationshipMismatch",
                \/ nic.rack # gpu.rack
                \/ Count(nic.attachedGpus, gpu.id) # 1
                \/ Count(g.racks[gpu.rack].gpus, gpu.id) # 1)
            \cup Error("PortOwnershipMismatch",
                       port.owner # <<"Gpu", gpu.id>> \/ port.role # "Local")

(* validate_owned_ports() *)
OwnedPortErrors(g, owner, ids) ==
  MemberErrors(ids, g.ports, {i \in DOMAIN g.ports : g.ports[i].owner = owner},
               "PortOwnershipMismatch")

NicErrors(g, nic) ==
  LET attached == {i \in DOMAIN g.gpus : g.gpus[i].attachedNic = nic.id}
  IN (IF ~Known(g.racks, nic.rack) THEN {"UnknownReference"}
      ELSE Error("RelationshipMismatch", Count(g.racks[nic.rack].nics, nic.id) # 1))
       \cup MemberErrors(nic.attachedGpus, g.gpus, attached, "RelationshipMismatch")
       \cup OwnedPortErrors(g, <<"Nic", nic.id>>, nic.ports)

SwitchErrors(g, s) ==
  (IF s.role # "Leaf" THEN Error("RelationshipMismatch", s.rack # None)
   ELSE IF s.rack = None \/ ~Known(g.racks, s.rack) THEN {"UnknownReference"}
   ELSE Error("RelationshipMismatch", Count(g.racks[s.rack].leafSwitches, s.id) # 1))
    \cup OwnedPortErrors(g, <<"Switch", s.id>>, s.ports)

OwnerReferences(g, port) ==
  LET id == port.owner[2]
  IN /\ HasNode(g, port.owner)
     /\ CASE port.owner[1] = "Gpu" -> g.gpus[id].port = port.id
          [] port.owner[1] = "Nic" -> Count(g.nics[id].ports, port.id) = 1
          [] OTHER -> Count(g.switches[id].ports, port.id) = 1

(* port_link_counts(), without its cap at two *)
PortLinkCount(g, port) ==
  Cardinality({i \in DOMAIN g.links : g.links[i].a = port})
    + Cardinality({i \in DOMAIN g.links : g.links[i].b = port})

PortErrors(g, port) ==
  Error("PortOwnershipMismatch", ~OwnerReferences(g, port))
    \cup Error("PortLinkCountMismatch",
               port.id \notin DOMAIN g.ports \/ PortLinkCount(g, port.id) # 1)

ValidLinkKind(link, a, b) ==
  \/ /\ link.kind = "LocalAttachment"
     /\ {a.owner[1], b.owner[1]} = {"Gpu", "Nic"}
     /\ a.role = "Local" /\ b.role = "Local"
  \/ /\ link.kind = "Fabric"
     /\ a.owner[1] # "Gpu" /\ b.owner[1] # "Gpu"
     /\ a.role # "Local" /\ b.role # "Local"

LinkErrors(g, link) ==
  LET a == g.ports[link.a]
      b == g.ports[link.b]
      directions == DirectedLinks(link)
  IN IF ~(Known(g.ports, link.a) /\ Known(g.ports, link.b)) THEN {"UnknownReference"}
     ELSE IF ~(HasNode(g, a.owner) /\ HasNode(g, b.owner)) THEN {"UnknownReference"}
     ELSE Error("LinkEndpointMismatch", a.id = b.id \/ a.owner = b.owner)
            \cup Error("LinkKindMismatch", ~ValidLinkKind(link, a, b))
            \cup Error("AdjacencyMismatch",
                       \/ Count(g.out[a.owner], directions[1]) # 1
                       \/ Count(g.out[b.owner], directions[2]) # 1)

(* The nodes that validate_connectivity() visits; it ignores their state. *)
Visited(g) ==
  LET neighbours(node) ==
        {g.ports[g.out[node][i].destination].owner :
           i \in {j \in DOMAIN g.out[node] : Known(g.ports, g.out[node][j].destination)}}
      visit(seen, i) == seen \cup UNION {neighbours(node) : node \in seen}
  IN Loop(visit, {<<"Gpu", g.gpus[1].id>>}, Upto(Cardinality(DOMAIN g.out)))

ConnectivityErrors(g) ==
  IF g.gpus = <<>> THEN {}
  ELSE LET nodes == {<<"Gpu", g.gpus[i].id>> : i \in DOMAIN g.gpus}
                      \cup {<<"Nic", g.nics[i].id>> : i \in DOMAIN g.nics}
                      \cup {<<"Switch", g.switches[i].id>> : i \in DOMAIN g.switches}
       IN Error("DisconnectedNode", ~(nodes \subseteq Visited(g)))

(* validate_topology() *)
Errors(g) ==
  IdentityErrors(g)
    \cup UNION {RackErrors(g, rack) : rack \in ToSet(g.racks)}
    \cup UNION {GpuErrors(g, gpu) : gpu \in ToSet(g.gpus)}
    \cup UNION {NicErrors(g, nic) : nic \in ToSet(g.nics)}
    \cup UNION {SwitchErrors(g, s) : s \in ToSet(g.switches)}
    \cup UNION {PortErrors(g, port) : port \in ToSet(g.ports)}
    \cup UNION {LinkErrors(g, link) : link \in ToSet(g.links)}
    \cup ConnectivityErrors(g)

RackMatchesClos(g, rack, c) ==
  LET leaf == rack.leafSwitches[1]
  IN /\ Len(rack.leafSwitches) = 1
     /\ Len(rack.nics) = c.nicsPerLeaf
     /\ Len(rack.gpus) = c.nicsPerLeaf * c.gpusPerNic
     /\ Len(g.switches[leaf].ports) = c.nicsPerLeaf + c.spineCount
     /\ \A nic \in ToSet(rack.nics) :
          /\ Len(g.nics[nic].attachedGpus) = c.gpusPerNic
          /\ DirectlyConnected(g, <<"Nic", nic>>, <<"Switch", leaf>>)
     /\ \A spine \in ToSet(SwitchIds(g, "Spine")) :
          DirectlyConnected(g, <<"Switch", leaf>>, <<"Switch", spine>>)

MatchesClosShape(g, c) ==
  LET expected == ClosDimensions(c)
      spines == SwitchIds(g, "Spine")
  IN /\ \A field \in DOMAIN expected : Len(g[field]) = expected[field]
     /\ Len(SwitchIds(g, "Leaf")) = expected.racks
     /\ Len(spines) = c.spineCount
     /\ \A spine \in ToSet(spines) : Len(g.switches[spine].ports) = expected.racks
     /\ \A rack \in ToSet(g.racks) : RackMatchesClos(g, rack, c)

(* validate_clos_topology() *)
ClosErrors(g, c) ==
  IF Errors(g) # {} THEN Errors(g)
  ELSE Error("TopologyShapeMismatch", ~MatchesClosShape(g, c))

----------------------------------------------------------------------------
(* Export and import.  A document holds the entities, with the names of the  *)
(* enumerators that the YAML uses; not the adjacency, the revision or the    *)
(* identifier generators.                                                    *)

Entities(g) ==
  [racks |-> g.racks, gpus |-> g.gpus, nics |-> g.nics,
   switches |-> g.switches, ports |-> g.ports, links |-> g.links]

NodeKindName == [Gpu |-> "gpu", Nic |-> "nic", Switch |-> "switch"]
SwitchRoleName == [Leaf |-> "leaf", Spine |-> "spine"]
PortRoleName ==
  [Local |-> "local", FabricDownlink |-> "fabric_downlink", FabricUplink |-> "fabric_uplink"]
LinkKindName == [LocalAttachment |-> "local_attachment", Fabric |-> "fabric"]
StateName == [Up |-> "up", Down |-> "down"]

(* serialize_topology_yaml(), when require_valid_topology() does not throw. *)
Serialize(g) ==
  [Entities(g) EXCEPT
     !.switches = [i \in DOMAIN @ |->
       [@[i] EXCEPT !.role = SwitchRoleName[@], !.state = StateName[@]]],
     !.ports = [i \in DOMAIN @ |->
       [@[i] EXCEPT !.owner = <<NodeKindName[@[1]], @[2]>>, !.role = PortRoleName[@],
                    !.state = StateName[@]]],
     !.links = [i \in DOMAIN @ |->
       [@[i] EXCEPT !.kind = LinkKindName[@], !.state = StateName[@]]]]

ParseNodeKind == [gpu |-> "Gpu", nic |-> "Nic", switch |-> "Switch"]
ParseSwitchRole == [leaf |-> "Leaf", spine |-> "Spine"]
ParsePortRole ==
  [local |-> "Local", fabric_downlink |-> "FabricDownlink", fabric_uplink |-> "FabricUplink"]
ParseLinkKind == [local_attachment |-> "LocalAttachment", fabric |-> "Fabric"]
ParseState == [up |-> "Up", down |-> "Down"]

(* parse_document(); None when an identifier is not the expected one. *)
ParseDocument(doc) ==
  IF \E field \in DOMAIN doc : ~Dense(doc[field]) THEN None
  ELSE [doc EXCEPT
     !.switches = [i \in DOMAIN @ |->
       [@[i] EXCEPT !.role = ParseSwitchRole[@], !.state = ParseState[@]]],
     !.ports = [i \in DOMAIN @ |->
       [@[i] EXCEPT !.owner = <<ParseNodeKind[@[1]], @[2]>>, !.role = ParsePortRole[@],
                    !.state = ParseState[@]]],
     !.links = [i \in DOMAIN @ |->
       [@[i] EXCEPT !.kind = ParseLinkKind[@], !.state = ParseState[@]]]]

(* A step of the reconstruction throws, and so does all that follows. *)
OrFail(holds, g) == IF holds THEN g ELSE None

CreateRacksNicsAndSwitches(parsed) ==
  LET rack(g, r) == OrFail(g # None /\ g.next.rack = r.id, AddRack(g))
      nic(g, n) == OrFail(g # None /\ Known(g.racks, n.rack) /\ g.next.nic = n.id,
                          AddNic(g, n.rack))
      switch(g, s) ==
        IF s.role = "Leaf"
        THEN OrFail(g # None /\ s.rack # None /\ Known(g.racks, s.rack) /\ g.next.switch = s.id,
                    AddLeafSwitch(g, s.rack))
        ELSE OrFail(g # None /\ g.next.switch = s.id, AddSpineSwitch(g))
  IN Loop(switch, Loop(nic, Loop(rack, EmptyGraph, parsed.racks), parsed.nics),
          parsed.switches)

ReplayLocalAttachment(g, parsed, link) ==
  LET gpuPort == parsed.ports[link.a]
      nicPort == parsed.ports[link.b]
      gpu == parsed.gpus[gpuPort.owner[2]]
      replayed == AddGpu(g, gpu.attachedNic)
  IN OrFail(/\ {link.a, link.b} \subseteq DOMAIN parsed.ports
            /\ gpuPort.owner[1] = "Gpu" /\ nicPort.owner[1] = "Nic"
            /\ gpuPort.role = "Local" /\ nicPort.role = "Local"
            /\ gpuPort.owner[2] \in DOMAIN parsed.gpus
            /\ gpu.attachedNic = nicPort.owner[2]
            /\ Known(g.nics, gpu.attachedNic) /\ g.next.gpu = gpu.id
            /\ Known(replayed.links, link.id),
            replayed)

ReplayFabricLink(g, parsed, link) ==
  LET a == parsed.ports[link.a]
      b == parsed.ports[link.b]
  IN OrFail(/\ {link.a, link.b} \subseteq DOMAIN parsed.ports
            /\ Connectable(g, a.owner, a.role, b.owner, b.role)
            /\ g.next.link = link.id,
            ConnectFabric(g, a.owner, a.role, b.owner, b.role))

ReplayLink(g, parsed, link) ==
  IF g = None THEN None
  ELSE IF link.kind = "LocalAttachment" THEN ReplayLocalAttachment(g, parsed, link)
  ELSE ReplayFabricLink(g, parsed, link)

(* Mutated form: all local attachments are replayed before the fabric. *)
ReplayLinksLocalFirst(g, parsed) ==
  Loop(LAMBDA h, link : ReplayLink(h, parsed, link), g,
       SelectSeq(parsed.links, LAMBDA link : link.kind = "LocalAttachment")
         \o SelectSeq(parsed.links, LAMBDA link : link.kind = "Fabric"))

ReplayLinks(g, parsed) == Loop(LAMBDA h, link : ReplayLink(h, parsed, link), g, parsed.links)

(* restore_operational_state(): a revision for each state that changes. *)
RestoreOperationalState(g, parsed) ==
  LET restored(field) == [i \in DOMAIN g[field] |->
                            [g[field][i] EXCEPT !.state = parsed[field][i].state]]
      changed(field) == Cardinality({i \in DOMAIN g[field] :
                                       g[field][i].state # parsed[field][i].state})
      revision == g.revision + changed("switches") + changed("ports") + changed("links")
  IN OrFail(/\ g # None
            /\ \A field \in {"switches", "ports", "links"} :
                 DOMAIN parsed[field] = DOMAIN g[field]
            /\ revision <= MaxRevision,
            [g EXCEPT !.switches = restored("switches"), !.ports = restored("ports"),
                      !.links = restored("links"), !.revision = revision])

(* deserialize_topology_yaml(); None when it throws. *)
Deserialize(doc) ==
  LET parsed == ParseDocument(doc)
      g == RestoreOperationalState(ReplayLinks(CreateRacksNicsAndSwitches(parsed), parsed), parsed)
  IN OrFail(parsed # None /\ g # None /\ Entities(g) = parsed /\ Errors(g) = {}, g)

----------------------------------------------------------------------------
(* Any calls on an empty graph, or one generator; then changes of state.     *)
(* Building on a generated graph is left out.                                *)

Nodes ==
  ({"Gpu"} \X (1..MaxGpus)) \cup ({"Nic"} \X (1..MaxNics)) \cup ({"Switch"} \X (1..MaxSwitches))

Init == graph = EmptyGraph /\ generated = None

Building == generated = None /\ UNCHANGED generated

BuildRack == Building /\ Len(graph.racks) < MaxRacks /\ graph' = AddRack(graph)

BuildNic ==
  Building /\ Len(graph.nics) < MaxNics /\ \E rack \in 1..MaxRacks : graph' = AddNic(graph, rack)

BuildGpu ==
  /\ Building
  /\ Len(graph.gpus) < MaxGpus /\ Len(graph.links) < MaxLinks
  /\ \E nic \in 1..MaxNics : graph' = AddGpu(graph, nic)

BuildLeafSwitch ==
  /\ Building
  /\ Len(graph.switches) < MaxSwitches
  /\ \E rack \in 1..MaxRacks : graph' = AddLeafSwitch(graph, rack)

BuildSpineSwitch ==
  Building /\ Len(graph.switches) < MaxSwitches /\ graph' = AddSpineSwitch(graph)

BuildFabric ==
  /\ Building
  /\ Len(graph.links) < MaxLinks
  /\ \E a, b \in Nodes, roles \in RolePairs :
       graph' = ConnectFabric(graph, a, roles[1], b, roles[2])

Generate(family, config, result) ==
  /\ generated = None /\ graph = EmptyGraph
  /\ graph' = result
  /\ generated' = [family |-> family, config |-> config]

GenerateTwoGpuDirect == Generate("two_gpu_direct", None, TwoGpuDirect)

GenerateSingleRack ==
  \E c \in SingleRackConfigs : ValidSingleRack(c) /\ Generate("single_rack", c, SingleRack(c))

GenerateLeafSpine ==
  \E c \in LeafSpineConfigs : ValidLeafSpine(c) /\ Generate("leaf_spine", c, LeafSpine(c))

GenerateClos == \E c \in ClosConfigs : ValidClos(c) /\ Generate("clos", c, Clos(c))

(* set_*_state(), which the failure handlers of the transport call. *)
ChangeState ==
  /\ \E field \in {"links", "ports", "switches"}, state \in {"Up", "Down"} :
       \E id \in DOMAIN graph[field] : graph' = SetState(graph, field, id, state)
  /\ UNCHANGED generated

Next ==
  \/ BuildRack \/ BuildNic \/ BuildGpu \/ BuildLeafSwitch \/ BuildSpineSwitch \/ BuildFabric
  \/ GenerateTwoGpuDirect \/ GenerateSingleRack \/ GenerateLeafSpine \/ GenerateClos
  \/ ChangeState

Spec == Init /\ [][Next]_vars

----------------------------------------------------------------------------
(* Properties. *)

(* Whatever add_* and connect_fabric are called with and in whatever order,  *)
(* refused calls included, the identifiers stay dense and every reference,   *)
(* port, link and arc is matched by its counterpart: validate_topology() can *)
(* only complain that there is no GPU or that a node is not connected.       *)
ConstructionConsistent == Errors(graph) \subseteq {"EmptyTopology", "DisconnectedNode"}

(* What the generators build validates, and generate_clos() builds a graph   *)
(* of the announced dimensions that validate_clos_topology() accepts.        *)
GeneratedValid ==
  generated # None =>
    /\ Errors(graph) = {}
    /\ generated.family = "clos" => ClosErrors(graph, generated.config) = {}

(* A topology that serialize_topology_yaml() accepts is read back by         *)
(* deserialize_topology_yaml(), whatever order it was built in although the  *)
(* import replays racks, NICs and switches before all links: same entities,  *)
(* same adjacency in the same order (the order of paths), and the same       *)
(* identifiers for what is added next.                                       *)
RoundTrip ==
  Errors(graph) = {} =>
    LET read == Deserialize(Serialize(graph))
    IN /\ read # None
       /\ Entities(read) = Entities(graph)
       /\ read.out = graph.out
       /\ read.next = graph.next
=============================================================================
