\* The renderer of a recorded dataset, whose times are not in microseconds.
SPECIFICATION Spec
CONSTANTS
  Kinds = {"event"}
  Warmup = 3
  Nominal = 3
  NsPerUs = 2
  NsPerTick = 2
  Latencies = {0}
  Gaps = {1}
  BlockModulus = 5
  MaxBlocks = 1
  Width = 2
  MaxChunks = 1
  MaxTick = 2
  Readers = {"visualize_dataset"}
  DeltaT = 2
  DenoiseUs = 1
  Radius = 1
  MinNeighbors = 1
INVARIANT KeepsMicroseconds
CHECK_DEADLOCK FALSE
