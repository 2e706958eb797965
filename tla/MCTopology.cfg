CONSTANTS
  MaxRacks = 2
  MaxNics = 2
  MaxGpus = 2
  MaxSwitches = 1
  MaxLinks = 4
  RolePairs <- MCRolePairs
  SingleRackConfigs <- MCSingleRackConfigs
  LeafSpineConfigs <- MCLeafSpineConfigs
  ClosConfigs <- MCClosConfigs
  MaxRevision = 1
  None = None
SPECIFICATION Spec
INVARIANTS
  ConstructionConsistent
  GeneratedValid
  RoundTrip
