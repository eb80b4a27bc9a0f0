SPECIFICATION FairSpec
CONSTANTS
  NameChar = {"x", "y"}
  Env <- MCEnvironment
  StatusText <- MCStatusText
  MaxLine = 3
  MaxFocused = 4
  Inputs <- MCInputs
PROPERTY Termination
CHECK_DEADLOCK FALSE
