\* The inputs are the sets of MCTexts.
SPECIFICATION Spec
INVARIANTS
  SettingsReach
  MessagesAnswered
  HelpIsHonest
  RequestsAnswered
  TextsKeepTheirLook
  RepliesMeanWhatTheySay
  ServersAreShown
