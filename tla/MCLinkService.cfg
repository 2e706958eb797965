CONSTANTS
  None = None
  Config <- MCConfig
  ChunkSizes = {1, 2, 4}
  MaxChunks = 4
  MaxNow = 6
SPECIFICATION Spec
INVARIANTS
  SerializerAgreesWithKernel
  TrafficConserved
  BusyTimeExact
