\* Careful callers, but ::close() may report an error.
SPECIFICATION Spec
SYMMETRY Interchangeable
CONSTANTS
  Handle = {h1, h2, h3}
  Wrapper = {w1, w2}
  MaxFd = 1
  CountMod = 2
  Null = Null
  Free = Free
  Other = Other
  CloseMayFail = TRUE
  CarefulClient = TRUE
INVARIANT
  ClosedFlagTruthful
