SPECIFICATION Spec
CONSTANTS
    Char <- MCChar
    Typed <- MCTyped
    Suggestions <- MCSuggestions
    Env <- MCEnv
    Usage <- MCUsage
    BufferSize = 32
    MaxArgs = 4
    MaxPipeCmds = 2
INVARIANTS
    RunsWhatWasWritten
    PrintedIsUnderstood
    NoStrayBarOrRedirection
    ConfirmedAsTyped
