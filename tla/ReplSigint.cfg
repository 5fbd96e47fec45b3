CONSTANTS
  Pids = {1}
  Shell = Shell
  Pipes = {1}
  NoPipe = NoPipe
  MaxStages = 1
  Capacity = 1
  Kinds = {"builtin", "external"}
  Failing = {}
  OneShot = TRUE
  MaxLines = 1
  MaxSigints = 2
SPECIFICATION Spec
INVARIANT SigintDoesNotExit
