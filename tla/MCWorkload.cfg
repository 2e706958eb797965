CONSTANTS
  None = None
  Gpus <- MCGpus
  Rack <- MCRack
  Nic <- MCNic
  Score <- MCScore
  Specs <- MCSpecs
  Policy = "first-fit"
  MaxJobs = 3
  MaxWorkers = 5
  MaxSlots = 7
  MaxControls = 2
  ControlTimes = {1, 3}
  ControlGpus = {1, 3}
  MaxDelay = 1
SPECIFICATION Spec
INVARIANTS
  GpusExclusive
  NoJobLeftWaiting
  JobsHaveWork
  GradientsReduced
  ComputeWithinAllocation
  AttributionFollowsJobs
PROPERTIES
  RunEnds
