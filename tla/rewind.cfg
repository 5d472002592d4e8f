SPECIFICATION Spec
CONSTANTS
  Pages = {p1, p2}
  Nil = Nil
  PTSValues = {0, 1}
  Speeds <- AnySpeeds
  Calls <- AnyCalls
  PlayStates = {"READY", "PLAYING", "PAUSED"}
  HasPCR = TRUE
  PCRFails = FALSE
  PtsSync = FALSE
  MaxQueued = 2
  MaxRequests = 2
INVARIANT
  NullStateHasNoScreenPage
