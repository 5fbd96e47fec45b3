CONSTANTS
  Pids = {p1, p2}
  NoPid = NoPid
  MaxJobs = 2
  MaxStages = 2
  MaxTargets = 1
  MaxJobId = 2
  MaxStrangers = 0
  Builtins = {"jobs", "kill", "exit"}
  ForkMayFail = FALSE
  PidReload = FALSE
  PromptSignals = FALSE
SPECIFICATION FairSpec
PROPERTIES
  ImplementsLifecycle
  EndedJobIsRecorded
  CompletedJobIsCleared
  EveryEndedChildIsReaped
