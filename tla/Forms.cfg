\* Four programs, one at a time: the subscriptions page, the script admin, the clinic's page,
\* the office dashboard.
CONSTANTS
    Apps = {"subs", "scripts", "clinic", "dashboard"}
    Calls = {c1}
    SubIds = {s1, s2}
    MaxFaults = 1
    MaxLapses = 1
    Post = c1
    Loads = {g1, g2}
    OwnLoad = g2
    Dels = {d1, d2}
    NoId = NoId
    MaxCreates = 2
    x1 = x1
    Scripts = {x1, x2}
    NoScript = NoScript
    Texts = {t1}
    Blank = Blank
    Puts = {p1, p2}
    Dumps = {k1}
    MaxActs = 5
    Slots = {h1}
    NoSlot = NoSlot
    SeenAbroad <- MCSeenAbroad
    firstRead = r1  firstFind = n1
    Reads = {r1, r2}
    Books = {b1, b2}
    Finds = {n1, n2}
    MaxBooks = 2
    MaxReloads = 1
    MaxCustomers = 2
    DirA = DirA  DirB = DirB
    Folders = {Root, DirA, DirB}
    Root = Root
    ParentOf <- MCParentOf
    Gets = {o1, o2}
    Emails = {m1, m2}
    NoEmail = NoEmail
    MaxOpens = 7
SPECIFICATION Spec
INVARIANTS
    FormsTypeOK DeletedReturnsOnlyIfRaced SpinnersAreTrue DeletedComesBackOnlyIfTorn
    LastSubmittedIsStored RegisteredOnce DoubleBookedForAReason PathLeadsToItems
    ShowsLastClicked
PROPERTIES
    WipedByChoiceOrBlindly LeavesOnlyItsEditor FormsSettle
\* The bounds stop the system: clicks run out.
CHECK_DEADLOCK FALSE
