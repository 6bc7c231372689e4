\* Two sessions, two lines (the welcome, the flush of what was scheduled) and one command of
\* another thread, so that threads and commands of the first session, the urgent JOIN among
\* them, can reach the second.  IrcLinkLive.cfg has the other lines.
SPECIFICATION Spec
CONSTANTS
  MaxSessions = 2
  MaxLines = 2
  MaxCommands = 1
  ClientKinds = {"CLEARBUFFER"}
  Lines = {"001","002"}
INVARIANTS
  WelcomedFirst
  LoginFirst
PROPERTY
  DisconnectLeavesNothing
CHECK_DEADLOCK FALSE
