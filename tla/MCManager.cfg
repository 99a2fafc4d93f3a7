SPECIFICATION Spec
CONSTANTS
    h1 = h1
    h2 = h2
    i1 = i1
    i2 = i2
    t1 = t1
    t2 = t2
    m1 = m1
    m2 = m2
    None = none
    hci0 = hci0
    Task = {t1, t2}
    Inst = {i1, i2}
    Rfcomm = {}
    Adapter = {hci0}
    Addr = {h1}
    Mon = {m1}
    Faulty = {}
    Removable = {h1}
    Commanded = {h1}
    AddrOf <- MCAddrOf
    MaxQueue = 1
    MaxTimers = 1
SYMMETRY Symmetry
INVARIANTS
    TypeOK
    ConnectingMarked
    ConnectingManaged
    ConnectingProgress
PROPERTIES
    LinkSafeSpec
