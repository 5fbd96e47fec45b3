SPECIFICATION FairSpec
CONSTANTS
  Inputs <- MCInputs
  Chars <- MCChars
  Abbreviations <- MCAbbreviations
  Numbers <- MCNumbers
  KillTargets <- MCNumbers
  Many = 3
  ArgEnd = 2
CHECK_DEADLOCK FALSE
INVARIANTS ParsesAsMeant HelpIsHarmless
PROPERTIES ParsingEnds
