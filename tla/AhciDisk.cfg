CONSTANTS
  NumSlots = 3
  NumBlocks = 2
  PerBlock = 2
  MaxSpin = 2
  ReadSector = 1
SPECIFICATION Spec
INVARIANTS DoneMeansStored
PROPERTIES SlotExclusive BufferStable TestEndsOrFails
