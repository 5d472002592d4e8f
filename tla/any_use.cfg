SPECIFICATION Spec
CONSTANTS
  Pages = {p1, p2}
  Nil = Nil
  PTSValues = {0, 1}
  Speeds <- AnySpeeds
  Calls <- AnyCalls
  PlayStates = {"NULL", "READY", "PLAYING", "PAUSED"}
  HasPCR = TRUE
  PCRFails = TRUE
  PtsSync = TRUE
  MaxQueued = 3
  MaxRequests = 2
SYMMETRY PageSymmetry
INVARIANTS
  QuietAfterDelete
  NoPageLeak
PROPERTY
  StatusAdvances
