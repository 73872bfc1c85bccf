SPECIFICATION Spec
CONSTANTS
    RxDepth = 1
    DescDepth = 2
    Writes = 2
    MaxBytes = 1
    CornerSets = {{"restartAfterError"}}
    Headers <- MCHeaders
    RetryNums = {0}
INVARIANT LossSaid
