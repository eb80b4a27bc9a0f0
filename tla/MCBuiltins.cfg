SPECIFICATION Spec
CONSTANTS
  PWD = "PWD"
  OLDPWD = "OLDPWD"
  HOME = "HOME"
  HOMEX = "HOMEX"
  root = "root"
  tmp = "tmp"
  Dirs <- MCDirs
  Names <- MCNames
  StartsWith <- MCStartsWith
  Environments <- MCEnvironments
INVARIANTS
  PwdFollows
  EnvironmentKept
PROPERTY BackStays
CHECK_DEADLOCK FALSE
