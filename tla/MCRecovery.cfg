SPECIFICATION Spec
CONSTANTS
    RxDepth = 2
    FifoDepth = 2
    Cmds <- MCCmds
    MaxCmds = 3
    MaxTx = 1
    Corners = {}
INVARIANTS RegistersAsWritten StatusRight FifoDelivers AnswerRight OnlyMessages
PROPERTIES ImageDelivered
CHECK_DEADLOCK FALSE
