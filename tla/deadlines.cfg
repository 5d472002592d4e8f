SPECIFICATION Spec
CONSTANTS
  FirstPTS = 2
  Times <- SubtitleTimes
  Speeds <- AllSpeeds
  Occurring = {}
  Wrap = 16
  HalfDay = 8
  MaxDelay = 4
  Lead = 2
  Second = 4
  Word = 1300
  Underflow = 1100
  Rounding = 100
  MaxRequests = 2
  MaxChanges = 2
  MaxVideo = 2200
INVARIANTS TypeOK NeverLate NeverEarly
PROPERTY TimersKept
