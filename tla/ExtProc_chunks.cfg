SPECIFICATION EpSpec
CONSTANTS
  MaxFrames = 2
  Splits = {1, 2}
  QueueCap = 2
  ChunkCap = 1
PROPERTY MutationEnds
CHECK_DEADLOCK FALSE
