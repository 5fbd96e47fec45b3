CONSTANTS
  Pids = {p1, p2}
  NoPid = NoPid
  MaxJobs = 2
  MaxStages = 2
  MaxTargets = 1
  MaxJobId = 2
  MaxStrangers = 1
  Builtins = {}
  ForkMayFail = TRUE
  PidReload = FALSE
  PromptSignals = TRUE
SPECIFICATION Spec
INVARIANT SigchldOpenAtPrompt
