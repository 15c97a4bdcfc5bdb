SPECIFICATION Spec
CONSTANTS
  t1 = t1  t2 = t2  c1 = c1  s1 = s1  s2 = s2  s3 = s3
  EventTask = event
  ButtonTask = button
  Server <- Servers
  Client <- Clients
  Sock <- Socks
  NoTask = NoTask
  NoSock = NoSock
SYMMETRY Names
INVARIANTS ServerTypeOK HandleTracksServer DeletesOnlyServer SocketsOwned
  StopFreesPort OneLateCommand
