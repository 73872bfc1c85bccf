SPECIFICATION FairSpec
CONSTANTS
    Payloads <- SmallPayloads
    LowBytes = {0, 6}
    Depth = 5
INVARIANTS HeadIsDescriptor NeverRunsDry ByteFromItsWord Inductive
PROPERTIES FlushEnds OfferedOnceQueued
