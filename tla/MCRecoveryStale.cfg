SPECIFICATION Spec
CONSTANTS
    RxDepth = 2
    FifoDepth = 2
    Cmds <- MCCmds
    MaxCmds = 2
    MaxTx = 0
    Corners = {"leftovers"}
INVARIANTS RegistersAsWritten
CHECK_DEADLOCK FALSE
