\* A page and another client; numbers wrap after three.  Three slots stand for the 300 of
\* a camera, of which slot 195 is read when the head is 0.
SPECIFICATION Spec
CONSTANTS
  None = None
  p1 = p1
  c1 = c1
  Kinds = {"camera"}
  Clients = {p1, c1}
  Pages = {p1}
  Word = 4
  Gaps = {1}
  NumFrames = 3
  AtZero = 0
  MaxId = 4
  MaxRestarts = 1
  MaxAnswers = 2
INVARIANTS CachedIsCurrent CountsOnce
PROPERTIES ImagesGoForward PageCatchesUp
CHECK_DEADLOCK FALSE
