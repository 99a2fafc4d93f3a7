SPECIFICATION FairSpec
CONSTANTS
    r1 = r1
    r2 = r2
    r3 = r3
    off = off
    anc = anc
    Unknown = unknown
    Request = {r1, r2, r3}
    Mode = {off, anc}
    Wanted <- MCWanted
    QueueCap = 1
    MaxPresses = 1
INVARIANTS ControlTypeOK AgreesUnlessRaced AnswersOwn
PROPERTY DisconnectReturns
CHECK_DEADLOCK FALSE
