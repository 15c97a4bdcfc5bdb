SPECIFICATION FairSpec
CONSTANTS
  s1 = s1
  s2 = s2
  StartTask <- StartTasks
  NoTask = NoTask
  MaxEvents = 6
  CalmSwitch = TRUE
INVARIANTS WifiTypeOK FlagTellsServices ConnectedLeavesProvisioning
           ProvisioningServed StartTaskTracked
PROPERTY ServicesStart
