\* The bot and two more, on two channels written in small letters.
SPECIFICATION Spec
CONSTANTS
  Nicks <- ThreeNicks
  Preferred = "bot"
  Channels <- TwoChannels
  lower <- SmallLetters
  MaxEvents = 5
  MaxLines = 3
INVARIANTS
  UsersAreUnique
  KnowsItself
  NoGhosts
PROPERTIES
  FollowsItsNick
CHECK_DEADLOCK FALSE
