\* By hand: at the end of a lap of the ring the numbers are counted again.  A page and
\* another client; numbers may skip one and do not wrap.  Three slots stand for the 300
\* of a camera, of which slot 195 is read when the head is 0.
SPECIFICATION Spec
CONSTANTS
  None = None
  p1 = p1
  c1 = c1
  Kinds = {"camera"}
  Clients = {p1, c1}
  Pages = {p1}
  Word = 16
  Gaps = {1, 2}
  NumFrames = 3
  AtZero = 0
  MaxId = 4
  MaxRestarts = 0
  MaxAnswers = 2
INVARIANT NeverCountsAgain
CHECK_DEADLOCK FALSE
