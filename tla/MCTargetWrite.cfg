SPECIFICATION FairSpec
CONSTANTS
    RxDepth = 1
    DescDepth = 2
    Writes = 2
    MaxBytes = 5
    CornerSets <- AtMostOne
    Headers <- MCHeaders
    RetryNums = {0}
INVARIANTS WordsMatchDescriptors LossReported NoFalseAlarm
PROPERTY EveryWriteSeen
