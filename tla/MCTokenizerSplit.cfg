SPECIFICATION Spec
CONSTANTS
  NameChar = {"x", "y"}
  Env <- MCEnvironment
  StatusText <- MCStatusText
  MaxLine = 3
  MaxFocused = 6
  Inputs <- MCInputs
INVARIANT PartsStaySeparate
CHECK_DEADLOCK FALSE
