SPECIFICATION Spec
CONSTANTS
    Url = {u1, u2}
    Hash = {h1, h2}
    Varies = {u1}
    Tagged = {u1}
    Load = {l1, l2}
    Cookie = {c1, c2}
    MemRoom = 1
    DiskRoom = 2
    QueueRoom = 1
    MaxLoads = 3
    MaxEvents = 2
    None = None
INVARIANTS OwnAnswer ForgottenLeavesNoFile IndexedIsOnFile
SYMMETRY Symmetry
