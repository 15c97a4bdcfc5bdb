SPECIFICATION Spec
CONSTANTS
  Client = {c1, c2}
  Button = button
  Mqtt = mqtt
  TimerTask = timerTask
  NoTimer = NoTimer
  QueueLen = 3
INVARIANT ShownClosedIsClosed
SYMMETRY ClientSymmetry
