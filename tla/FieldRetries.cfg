CONSTANTS
  Uri = {u1, u2}
  Url = {a}
  None = None
  MaxInputs = 3
SPECIFICATION FieldSpec
CHECK_DEADLOCK FALSE
PROPERTIES LookingEnds
