SPECIFICATION Spec
CONSTANTS
  NameChar = {"x", "y"}
  Env <- MCEnv
  StatusText <- MCStatusText
  TempName = {t1, t2, t3, t4}
  Existing = {}
  ArgSlots = 64
  NULL = NULL
  MaxTokens = 4
  MaxFocused = 4
  TokenLists <- MCTokenLists
INVARIANT AnyDelimiterServes
CHECK_DEADLOCK FALSE
