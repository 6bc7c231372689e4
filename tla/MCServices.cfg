\* Small instances of each part; the bounds are those of its module.
SPECIFICATION FairSpec
CONSTANTS
  MaxUpdates = 3
  Bad = {2}
  MaxTrouble = 3
  Listeners <- TheListeners
  Types = {"push"}
  Limit = 1
  MaxEvents = 2
  MaxTime = 3
  MaxFaults = 1
  People = {"o", "a", "t"}
  Groups = {"owner", "admin", "banned"}
  Entries <- TheEntries
  Inherits <- TheTree
  Config <- TheConfig
  Managed <- TheManaged
  Ignore = "banned"
  Edit = "admin"
  Conns = {"irc", "pipe"}
  Own = {"github"}
  Services = {"http"}
  MaxMessages = 2
  MaxLives = 2
  Entities = {1, 2}
  MaxId = 2
  MaxPolls = 2
  MaxLosses = 1
  Players = {1, 2}
  Maps <- TheMaps
  Garbage = {0, 1}
  MaxChanges = 2
  MaxRounds = 3
  MaxMishaps = 1
  Questions <- TheQuestions
  Wiki <- TheWiki
  MaxFailures = 1
  MaxTitles = 4
  Configured = "bot"
  Wanted = {"ann"}
  Longest = 1
  MaxNickEvents = 4
INVARIANTS
  ServicesTypeOK
  HandledOnce
  ToldOnce
  EndsInOrder
  NamesAreKnown
  AskedOnceTold
PROPERTIES
  AllComesThrough
  AccessKept
CHECK_DEADLOCK FALSE
