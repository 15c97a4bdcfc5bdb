SPECIFICATION FairSpec
CONSTANTS
  Frames = 2
  MaxQueue = 2
  MaxOvertime = 1
  MaxFiles = 1
  Size = 5
  Slack = 1
  ShortSlack = 2
  Hash = 2
  LossSizes <- Losses
  PageFrames = 1
  MaxResets = 0
PROPERTY EndsUnlessRejected
CHECK_DEADLOCK FALSE
