CONSTANTS
  Requests <- MCRequests
  MaxCollectives = 2
  MaxParticipantEntries = 6
SPECIFICATION Spec
INVARIANTS
  AllReduced
  BytesConserved
  DrainsBeforeEnd
PROPERTIES
  ImplementsService
