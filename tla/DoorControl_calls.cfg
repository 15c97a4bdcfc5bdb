SPECIFICATION FairSpec
CONSTANTS
  Client = {}
  Button = button
  Mqtt = mqtt
  TimerTask = timerTask
  NoTimer = NoTimer
  QueueLen = 1
INVARIANTS TypeOK AutoCloseArmed SerialAgreement
PROPERTY AutoCloses
