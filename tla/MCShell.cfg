SPECIFICATION FairSpec
CONSTANTS
  NameChar = {"x", "y"}
  Env <- MCEnv
  StatusText <- MCStatusText
  TempName = {"f", "g"}
  ArgSlots = 64
  NULL = NULL
  EOF = EOF
  MaxTyped = 3
  Lines <- MCLines
  Scripts <- MCScripts
  Asks <- MCAsks
  Shows <- MCShows
INVARIANTS
  TypeOK
  HandedWellFormed
  ListLeaksLocated
PROPERTIES
  ImplementsSession
  SessionEnds
CHECK_DEADLOCK FALSE
