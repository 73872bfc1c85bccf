SPECIFICATION Spec
CONSTANTS
    Payloads <- WithFive
    LowBytes = {0, 2}
    Depth = 5
INVARIANT HeadIsDescriptor
