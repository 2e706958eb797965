CONSTANTS
  None = None
  Kinds <- MCKinds
  Bounds <- MCBounds
  Jobs = {1}
  Modes = {"Off", "Summary", "Sampled", "Full"}
  Observations <- MCObservations
  Interval = 2
  MaxSeries = 4
  MaxSamples = 2
  MaxDecisions = 2
  MaxRecords = 3
  MaxEdges = 6
  MaxCount = 5
  MaxTime = 4
  MaxObservations = 5
SPECIFICATION Spec
INVARIANTS
  SamplesTrue
  AttributionExact
  SummaryTellsTrace
CHECK_DEADLOCK FALSE
