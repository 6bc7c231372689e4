\* One session of two lines (the welcome and the flush of the scheduled JOIN).
SPECIFICATION FairSpec
CONSTANTS
  MaxSessions = 1
  MaxLines = 2
  MaxCommands = 0
  ClientKinds = {"PRIVMSG"}
  Lines <- LineKinds
PROPERTIES
  QueueDrains
  DisconnectEnds
CHECK_DEADLOCK FALSE
