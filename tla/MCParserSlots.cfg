SPECIFICATION Spec
CONSTANTS
  NameChar = {"x", "y"}
  Env <- MCEnv
  StatusText <- MCStatusText
  TempName = {t1}
  Existing = {}
  ArgSlots = 64
  NULL = NULL
  MaxTokens = 4
  MaxFocused = 4
  TokenLists <- MCLongLine
INVARIANT ArgsInBounds
CHECK_DEADLOCK FALSE
