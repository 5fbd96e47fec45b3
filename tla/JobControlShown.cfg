CONSTANTS
  Pids = {p1}
  NoPid = NoPid
  MaxJobs = 1
  MaxStages = 1
  MaxTargets = 1
  MaxJobId = 1
  MaxStrangers = 1
  Builtins = {"jobs"}
  ForkMayFail = FALSE
  PidReload = FALSE
  PromptSignals = TRUE
SPECIFICATION Spec
PROPERTY CompletionShown
