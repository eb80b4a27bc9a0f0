SPECIFICATION FairSpec
CONSTANTS
  Shell = {s1, s2}
  Document = {d1}
  NULL = NULL
  Multiplier = 5
  Increment = 3
  Modulus = 16
  Divisor = 4
  RandRange = 4
  Letters = 3
  NameLength = 2
  Existing <- MCExisting
  MaxFiles = 4
PROPERTIES
  ErrorsEndTheSearch
CHECK_DEADLOCK FALSE
