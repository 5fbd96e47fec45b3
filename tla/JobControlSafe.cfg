CONSTANTS
  Pids = {p1, p2, p3}
  NoPid = NoPid
  MaxJobs = 2
  MaxStages = 2
  MaxTargets = 2
  MaxJobId = 3
  MaxStrangers = 1
  Builtins = {"jobs", "kill", "exit"}
  ForkMayFail = TRUE
  PidReload = FALSE
  PromptSignals = FALSE
SPECIFICATION Spec
SYMMETRY PidSymmetry
INVARIANTS
  TableWellFormed
  NoLostNotification
  RunningJobHasChild
  ForegroundNotConsumed
  KillHitsNamedJob
