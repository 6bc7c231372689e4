\* Two reminders, three instants, two lives, one failure.
SPECIFICATION FairSpec
CONSTANTS
  Ids = {r1, r2}
  Owners = {"Remind"}
  MaxTime = 2
  MaxBoots = 2
  MaxFailures = 1
INVARIANTS
  SleepsUntilFirst
  DeliveredOnce
  NoneForgotten
PROPERTIES
  NeverEarly
  DueIsExecuted
  StopEnds
CHECK_DEADLOCK FALSE
