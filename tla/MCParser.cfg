SPECIFICATION FairSpec
CONSTANTS
  NameChar = {"x", "y"}
  Env <- MCEnv
  StatusText <- MCStatusText
  TempName = {t1, t2, t3, t4}
  Existing = {t4}
  ArgSlots = 64
  NULL = NULL
  MaxTokens = 4
  MaxFocused = 6
  TokenLists <- MCTokenLists
INVARIANTS
  TypeOK
  PipesLinked
  NoDanglingPipe
  AbortOnlyOnDoubledHeredoc
PROPERTIES
  ImplementsCommandLine
  Termination
CHECK_DEADLOCK FALSE
