SPECIFICATION Spec
CONSTANTS
  NameChar = {"x", "y"}
  Env <- MCEnvironment
  StatusText <- MCStatusText
  MaxLine = 4
  MaxFocused = 6
  Inputs <- MCInputs
INVARIANTS
  TypeOK
  HeredocDiscipline
  FilenameDiscipline
  CommandPosition
  NoGlueLeft
  TextFaithful
  OperatorsFaithful
PROPERTIES
  ConcatConserves
  Progress
CHECK_DEADLOCK FALSE
