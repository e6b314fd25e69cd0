CONSTANTS
  Scanners = {s1, s2}
  Iters = {i1, i2, i3}
  NoIter = NoIter
SPECIFICATION Spec
INVARIANT
  WellFormedScansSucceed
