\* Commands need challenges, and one datagram is refused.
SPECIFICATION FairSpec
CONSTANTS
  MaxTrouble <- OneRefused
  MaxBuffer = 1
PROPERTY
  Reopened
CHECK_DEADLOCK FALSE
