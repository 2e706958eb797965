CONSTANTS
  None = None
  Arcs <- MCArcs
  Config <- MCConfig
  Source <- MCSource
  Destination <- MCDestination
  Link <- MCLink
  Ports <- MCNone
  Switches <- MCNone
  Requests <- MCNothing
  Registrations <- MCNothing
  MaximumChunks = 40
  MaximumRouteEntries = 80
  MaximumRouteHops = 2
  MaxTime = 100
  MaxChanges = 1
  ChangeLeads = {2, 5}
  Collectives <- MCCollectives
  MaxCollectives = 2
  MaxParticipantEntries = 4
  Paths <- MCPaths
  LocalDelay = 2
  LocalLatency = 1
SPECIFICATION FabricSpec
INVARIANTS
  BooksAgree
PROPERTIES
  ImplementsRing
