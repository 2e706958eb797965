CONSTANTS
  None = None
  Nodes <- MCNodes
  Arcs <- MCArcs
  Source <- MCSource
  Destination <- MCDestination
  Parts <- MCParts
  Bandwidth <- MCBandwidth
  Propagation <- MCPropagation
  Pairs <- MCPairs
  Loads <- MCLoads
  Hash <- MCHash
  MaxPaths = 3
  MaxHops = 2
  MaxPairs = 2
  MaxEntries = 5
  MaxDecisions = 1
  MaxRevision = 2
SPECIFICATION Spec
INVARIANTS
  CacheCoherent
  DecisionSound
