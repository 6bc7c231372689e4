\* What get_users promises: the bot and two more, on two channels written in small letters.
SPECIFICATION Spec
CONSTANTS
  Nicks <- ThreeNicks
  Preferred = "bot"
  Channels <- TwoChannels
  lower <- SmallLetters
  MaxEvents = 4
  MaxLines = 3
INVARIANTS
  KnowsTheOthers
CHECK_DEADLOCK FALSE
