CONSTANTS
  Pids = {p1, p2}
  NoPid = NoPid
  MaxJobs = 1
  MaxStages = 2
  MaxTargets = 1
  MaxJobId = 2
  MaxStrangers = 1
  Builtins = {}
  ForkMayFail = FALSE
  PidReload = FALSE
  PromptSignals = TRUE
SPECIFICATION FairSpec
PROPERTY EveryEndedChildIsReaped
