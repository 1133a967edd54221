SPECIFICATION Spec
CONSTANTS
  NumFrames = 3
  Word = 16
  c1 = c1
  c2 = c2
  Chunks = {c1, c2}
  Sizes <- FullOnly
  Requests <- LatestOnly
  MaxPublished = 6
INVARIANT LatestIsNewest
