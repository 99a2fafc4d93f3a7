SPECIFICATION LinkSpec
CONSTANTS
    Task = {t1, t2}
    Inst = {i1}
    Rfcomm = {}
    None = none
INVARIANTS ConnWatched ConnFlagged
PROPERTIES DisconnectCompletes LossReported
