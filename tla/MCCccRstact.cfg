SPECIFICATION Spec
CONSTANTS
    Cmds <- MCCmds
    MaxCmds = 3
    Corners = {"resetOther"}
INVARIANTS ResetAsArmed
CHECK_DEADLOCK FALSE
