\* Two operations at a time on one file; calls may fail.
CONSTANTS
    u1 = u1  u2 = u2  w1 = w1  w2 = w2  f1 = f1  f2 = f2  d1 = d1
    Files = {f1}
    Users = {u1, u2}
    App = App
    Folders = {}
    Root = Root
    FolderOf <- AtRoot
    Ids = {1, 2}
    Workers = {w1, w2}
    NoLock = NoLock
    PageSize = 1
    Faults = TRUE
    MaxLog = 3
    MaxQueue = 1
SPECIFICATION Spec
SYMMETRY Symmetry2
INVARIANTS LockVouchesForOwner NoChangeSkipped
