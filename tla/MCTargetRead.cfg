SPECIFICATION FairSpec
CONSTANTS
    Lengths <- MCLengths
    Messages = 3
    TxDepth = 3
    DescDepth = 2
    Disciplines <- Lax
    Headers <- MCHeaders
    RetryNums = {0}
INVARIANTS SendsItsMessage StreamAligned AckedReadStarts NoUnderrun
PROPERTIES ReadEnds FlushEnds
