SPECIFICATION FairSpec
CONSTANTS
  command = command
  hook = hook
  Client <- Clients
  Required = {hook}
  MaxDaemons = 2
  Permits = 1
INVARIANTS
  TypeOK
PROPERTIES
  RunsAtMostOnce
  DrainWaitsForAnswers
  SocketIsOwn
  ShutdownEnds
CHECK_DEADLOCK FALSE
