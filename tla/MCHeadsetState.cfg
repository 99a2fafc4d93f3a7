CONSTANTS
    Caller = {c1, c2}
    Dispatcher = dispatcher
    Request <- MCRequest
    Wear <- MCWear
    First <- MCFirst
    Followed <- MCFollowed
    Asked <- MCAsked
    None = None
    MaxChances <- MCMaxChances
SYMMETRY Symmetry
SPECIFICATION Spec
INVARIANTS HeadsetTypeOK FollowsHeadset ShownIsKnown
CHECK_DEADLOCK FALSE
