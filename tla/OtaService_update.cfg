SPECIFICATION Spec
CONSTANTS
  c1 = c1  c2 = c2  u1 = u1  u2 = u2  http = http  https = https
  Client <- Clients
  Url <- Urls
  Https <- HttpsUrls
  Source <- Urls
  DefaultUrl = http
  NoTask = NoTask
  Refused = Refused
  NoUrl = NoUrl
  ImageLen = 2
  SlotLen = 2
  Updater <- OneTask
  MaxRestarts = 1
  MaxCommands = 3
INVARIANTS BootSlotWhole StatusTellsOutcome UpdatesFromAskedUrl
PROPERTY UpdateEnds
CHECK_DEADLOCK FALSE
