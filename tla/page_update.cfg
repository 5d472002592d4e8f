SPECIFICATION Spec
CONSTANTS
  PageId = {p1, p2}
  r1 = r1
  r2 = r2
  a = a
  RegionId = {r1, r2}
  Stamp = {a}
  Drawings <- Drawing
  Versions = 2
  MaxFailures = 0
  MaxSent = 1
  MaxPackets = 3
  NULL = NULL
SYMMETRY Symmetry
INVARIANT UpdateIsComposed
CHECK_DEADLOCK FALSE
