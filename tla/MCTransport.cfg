CONSTANTS
  None = None
  a1 = a1
  r1 = r1
  a2 = a2
  l1 = l1
  l2 = l2
  p = p
  s = s
  Arcs <- MCArcs
  Config <- MCConfig
  Source <- MCSource
  Destination <- MCDestination
  Link <- MCLink
  Ports <- MCPorts
  Switches <- MCSwitches
  Requests <- MCRequests
  Registrations <- MCNone
  MaximumChunks = 3
  MaximumRouteEntries = 6
  MaximumRouteHops = 2
  MaxTime = 10
  MaxChanges = 2
  ChangeLeads = {0, 1}
SPECIFICATION Spec
INVARIANTS
  ChunkInOnePlace
  ServicesAgreeWithKernel
  TransfersAccounted
  DropsBookedOnce
  NoOvertaking
PROPERTIES
  TransfersComplete
