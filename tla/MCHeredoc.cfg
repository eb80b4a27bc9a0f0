SPECIFICATION FairSpec
CONSTANTS
  NameChar = {"x", "y"}
  Env <- MCEnv
  StatusText <- MCStatusText
  MaxLine = 5
  MaxLines = 4
  Delimiters <- MCDelimiters
  Scripts <- MCScripts
INVARIANTS
  TypeOK
  ExpansionFits
  DocumentFits
  LossNeedsLongValue
  DocumentFaithful
PROPERTY Termination
CHECK_DEADLOCK FALSE
