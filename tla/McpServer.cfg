CONSTANTS
  rpc = rpc
  session = session
  Clients = {rpc, session}
  Patient = {session}
  Scripts <- MCScripts
  Attempts <- MCAttempts
  Cuts = {1, 25}
  Workspaces <- MCWorkspaces
  NumberOf <- MCNumberOf
  Place <- MCPlace
  Outside <- MCOutside
  WordsOf <- MCWordsOf
  Hint <- MCHint
  CorpusOf <- MCCorpusOf
  Rank <- MCRank
  StopWords = {"the", "do"}
  BridgeStopWords = {"the"}
  Disabled = {"shell.commands.list"}
  MaxTokens = 30
  MaxScanFiles = 2
  MaxDocs = 2
  MaxTerms = 4
  NativeOn = TRUE
  LegacyOn = TRUE
  FtpOn = TRUE
  Backlog = 1
  LineMax = 40
  RpcMax = 36
  RetrMax = 1
  Room = 1
  ReadMax = 2
  Spoiled = "%"
  MaxEdits = 1
SPECIFICATION Spec
INVARIANTS
  AnswerIsOwn
  DeletesAsAsked
  LoginIsPerConnection

PROPERTIES
  OnlySilenceHoldsUp
