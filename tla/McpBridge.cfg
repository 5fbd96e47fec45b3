CONSTANTS
  one = one
  two = two
  Clients = {one, two}
  Scripts <- MCScripts
  CutAt = {1, 7}
  Workspaces <- MCWorkspaces
  AgentOn = TRUE
  MaxEdits = 1
  NumberOf <- MCNumberOf
  Place <- MCPlace
  Outside <- MCOutside
  WordsOf <- MCWordsOf
  Hint <- MCHint
  CorpusOf <- MCCorpusOf
  Rank <- MCRank
  StopWords = {"the", "do"}
  BridgeStopWords = {"the"}
  Disabled = {}
  MaxTokens = 30
  MaxScanFiles = 2
  MaxDocs = 2
  MaxTerms = 4
SPECIFICATION Spec
INVARIANTS
  AnswersItsLine
  DeletionsAreLogged
  SameReading
PROPERTIES
  EveryLineAnswered
