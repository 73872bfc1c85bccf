CONSTANTS
  Callers <- MCCallers
  WordRegs <- MCWordRegs
SPECIFICATION Spec
CHECK_DEADLOCK FALSE
INVARIANTS FieldsApart StatusKept
