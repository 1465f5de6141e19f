CONSTANTS
  Unit <- MCUnit
  Suggestions <- MCSuggestions
  Scenarios <- MCScenarios
SPECIFICATION EditorSpec
PROPERTIES
  KeysKeepGraphemes
  LineKeys
  NothingUndoneIsLost
