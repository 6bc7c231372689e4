\* Two producers of two messages each, so that messages of one producer can
\* overtake messages of the other; the queue is stopped and restarted twice.
SPECIFICATION FairSpec
CONSTANTS
  Producers = {p1, p2}
  MaxPushes = 2
  MaxStops = 2
INVARIANTS
  IInv
  NeverSleepsOnMessages
PROPERTIES
  ImplementsChannel
  NoStrandedMessage
  StopWakesSleeper
CHECK_DEADLOCK FALSE
