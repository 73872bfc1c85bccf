SPECIFICATION Spec
CONSTANTS
    Headers <- MCHeaders
    RetryNums = {7}
    Ops <- MCOps
    Chains = {"none", "write", "disec"}
    Limits = {0, 1}
    IbiLengths = {2}
    MaxRetries = 10
    VirtFirst = TRUE
INVARIANTS TrackersAgree AckTellsDelivery OneDriver
PROPERTIES NoFalseAlarm CallReturns
CHECK_DEADLOCK FALSE
