SPECIFICATION RingSpec
CONSTANTS
    N = 3
    Value = {v0, v1, v2}
    Default = v0
    MaxTail = 8
INVARIANT IterAgrees
PROPERTY RefinesHistory
