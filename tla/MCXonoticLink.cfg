\* A fault of the first connection and one or two changes of another
\* administrator; or a disconnect(), and without challenges one more connect().
SPECIFICATION FairSpec
CONSTANTS
  MaxTrouble <- Troubles
  MaxBuffer = 1
INVARIANTS
  ToldConnected
  OneChallenge
PROPERTY
  Settles
CHECK_DEADLOCK FALSE
