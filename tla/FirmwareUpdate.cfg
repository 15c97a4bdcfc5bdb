SPECIFICATION Spec
CONSTANTS
  Frames = 2
  MaxQueue = 1
  MaxOvertime = 1
  MaxFiles = 2
  Size = 5
  Slack = 1
  ShortSlack = 2
  Hash = 2
  LossSizes <- Losses
  PageFrames = 1
  MaxResets = 1
INVARIANTS UpdateTypeOK CompleteMeansStored StartedWhole
CHECK_DEADLOCK FALSE
