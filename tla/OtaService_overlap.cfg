SPECIFICATION Spec
CONSTANTS
  c1 = c1  c2 = c2  u1 = u1  u2 = u2  http = http  https = https
  Client <- Clients
  Url <- Urls
  Https = {}
  Source <- Urls
  DefaultUrl = http
  NoTask = NoTask
  Refused = Refused
  NoUrl = NoUrl
  ImageLen = 2
  SlotLen = 2
  Updater <- Updaters
  MaxRestarts = 1
  MaxCommands = 3
SYMMETRY Names
INVARIANTS OneUpdater RunningWhole
CHECK_DEADLOCK FALSE
