SPECIFICATION FairSpec
CONSTANTS
  Pages = {p1, p2}
  Nil = Nil
  PTSValues = {0, 1}
  Speeds <- ForwardSpeeds
  Calls <- DocumentedCalls
  PlayStates = {"READY", "PLAYING", "PAUSED"}
  HasPCR = TRUE
  PCRFails = FALSE
  PtsSync = TRUE
  MaxQueued = 2
  MaxRequests = 2
PROPERTY
  WaitingPageIsResolved
