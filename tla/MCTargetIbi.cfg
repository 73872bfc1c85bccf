SPECIFICATION FairSpec
CONSTANTS
    Payloads <- MCPayloads
    LowBytes = {2}
    Depth = 3
    Headers <- MCHeaders
    RetryNums = {0, 1, 7}
INVARIANTS Inductive HandlerFollowsFsm WithinBudget NoRearbitration
PROPERTIES ServedOrReported ImplementsService
