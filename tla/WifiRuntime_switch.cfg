SPECIFICATION Spec
CONSTANTS
  s1 = s1
  s2 = s2
  StartTask <- StartTasks
  NoTask = NoTask
  MaxEvents = 3
  CalmSwitch = FALSE
INVARIANT ConnectedLeavesProvisioning
