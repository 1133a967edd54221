\* A camera of up to six blocks whose IDs wrap after five, or two chunks of an event
\* camera, recorded and read back.
SPECIFICATION Spec
CONSTANTS
  Kinds = {"rgb", "event"}
  Warmup = 3
  Nominal = 3
  NsPerUs = 2
  NsPerTick = 2
  Latencies = {0, 3}
  Gaps = {1, 2}
  BlockModulus = 5
  MaxBlocks = 6
  Width = 3
  MaxChunks = 2
  MaxTick = 3
  Readers = {"visualize_dataset", "visualize_events"}
  DeltaT = 2
  DenoiseUs = 2
  Radius = 1
  MinNeighbors = 1
INVARIANTS FitsEverySample ExactWithoutJitter DropsAreGaps AnalysisAgrees KeepsSupported EveryEventShown
CHECK_DEADLOCK FALSE
