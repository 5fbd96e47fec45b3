CONSTANTS
  Pids = {p1, p2, p3}
  NoPid = NoPid
  MaxJobs = 3
  MaxStages = 3
  MaxTargets = 1
  MaxJobId = 3
  MaxStrangers = 1
  Builtins = {"jobs"}
  ForkMayFail = FALSE
  PidReload = TRUE
  PromptSignals = TRUE
SPECIFICATION Spec
SYMMETRY PidSymmetry
INVARIANT RunningJobHasChild
