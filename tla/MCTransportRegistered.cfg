CONSTANTS
  None = None
  a1 = a1
  r1 = r1
  a2 = a2
  l1 = l1
  l2 = l2
  p = p
  s = s
  Arcs <- MCArcs
  Config <- MCConfig
  Source <- MCSource
  Destination <- MCDestination
  Link <- MCLink
  Ports <- MCEndPort
  Switches <- MCSwitches
  Requests <- MCNone
  Registrations <- MCRegistrations
  MaximumChunks = 2
  MaximumRouteEntries = 4
  MaximumRouteHops = 2
  MaxTime = 5
  MaxChanges = 1
  ChangeLeads = {0, 1}
SPECIFICATION Spec
INVARIANTS
  TransfersAccounted
  OnlyQueueingOverflows
