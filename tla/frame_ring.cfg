SPECIFICATION Spec
CONSTANTS
  NumFrames = 3
  Word = 8
  c1 = c1
  c2 = c2
  Chunks = {c1, c2}
  Sizes <- FullOrShort
  Requests <- LatestOldestHead
  MaxPublished = 4
INVARIANTS ExactInWindow TornShape
