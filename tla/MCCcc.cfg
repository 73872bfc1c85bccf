SPECIFICATION Spec
CONSTANTS
    Cmds <- MCCmds
    MaxCmds = 3
    Corners = {}
INVARIANTS DeviceAsTold ResetAsArmed AnswerRight HeadersAnswered
PROPERTIES ErrorTold
CHECK_DEADLOCK FALSE
