SPECIFICATION Spec
CONSTANTS
    Channels = 3
    Sock = {s1, s2}
    Room = 1
    MaxLeaks = 1
    None = none
INVARIANTS RfcommTypeOK FailsForCause LossHeard
PROPERTY AbandonedClosed
