CONSTANTS
  None = None
  Gpus <- MCGpus
  Rack <- MCRack
  Nic <- MCNic
  Score <- MCScore
  Jobs = {1, 2}
  Requests <- MCRequests
SPECIFICATION Spec
INVARIANTS
  PlacementSound
  LocalWhenPossible
