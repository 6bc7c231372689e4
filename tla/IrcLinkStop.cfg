\* disconnect() of main while a line is being handled.
SPECIFICATION FairSpec
CONSTANTS
  MaxSessions = 1
  MaxLines = 1
  MaxCommands = 0
  ClientKinds = {"PRIVMSG"}
  Lines = {"other"}
PROPERTY
  DisconnectReturns
CHECK_DEADLOCK FALSE
