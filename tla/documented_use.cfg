SPECIFICATION FairSpec
CONSTANTS
  Pages = {p1, p2, p3}
  Nil = Nil
  PTSValues = {0, 1}
  Speeds <- ForwardSpeeds
  Calls <- DocumentedCalls
  PlayStates = {"READY", "PLAYING", "PAUSED"}
  HasPCR = TRUE
  PCRFails = FALSE
  PtsSync = FALSE
  MaxQueued = 3
  MaxRequests = 3
INVARIANTS
  TypeOK
  PagesListed
  LatestIsLast
  OnScreenIsDisplaying
  ScreenOwned
  TimeOutIsOnScreen
  RequestPerWaitingPage
  NoForgottenPage
  StoppedIsQuiet
PROPERTIES
  ImplementsPromise
  WaitingPageIsResolved
  SubtitleExpires
