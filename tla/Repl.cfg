CONSTANTS
  Pids = {1, 2, 3}
  Shell = Shell
  Pipes = {1, 2}
  NoPipe = NoPipe
  MaxStages = 3
  Capacity = 1
  Kinds = {"builtin", "exit", "external", "pipeline", "background", "ai"}
  Failing = {"pipe", "fork", "thread", "open"}
  OneShot = TRUE
  MaxLines = 2
  MaxSigints = 2
SPECIFICATION FairSpec
INVARIANTS
  PromptHoldsNoPipe
  StageHoldsOwnEnds
  NoForgottenChild
  DeathHasCause
PROPERTY
  ListensAgain
