\* Four programs, one at a time: the admin page and the timer, the file browser, the kiosk,
\* the booking pages.
CONSTANTS
    Apps = {"admin", "browser", "kiosk", "pages"}
    Calls = {timer, c1, c2}
    SubIds = {s1, s2, s3}
    MaxFaults = 1
    MaxLapses = 1
    Timer = timer
    Pages = {page}
    Nobody = nobody
    MaxPosts = 2
    f1 = f1  f2 = f2  Dir = Dir
    Files = {f1, f2}
    Folders = {Root, Dir}
    Root = Root
    FolderOf <- MCFolderOf
    ParentOf <- MCParentOf
    Nowhere = Nowhere
    NoFile = NoFile
    Acts = {a1, a2}
    Mount = mount
    Navs = {n1, n2}
    MaxBrowse = 3
    MaxOthers = 1
    Items = {m1, m2, w1}
    Meetings = {m1, m2}
    NoItem = NoItem
    Unset = Unset
    Polls = {p1, p2}
    MaxMoves = 2
    MaxKioskFaults = 2
    b1 = b1  RoomA = RoomA
    Rooms = {RoomA, RoomB}
    BookingIds = {b1, b2}
    NoRoom = NoRoom
    NoBooking = NoBooking
    Saves = {v1, v2}
    Opens = {o1, o2}
    Cancels = {d1}
    MaxSaves = 1
    MaxUnderWay = 2
    MaxClicks = 4
SPECIFICATION Spec
INVARIANTS
    ScreensTypeOK DuplicatesNeedOverlap ShownIsCurrent LocksShownAreRead OwnLocksKnown
    RowsAreOfTheRoom AtMostOneSave GridKnowsSaves
PROPERTIES
    NoGapUnlessOverlapped TimerRepairs NeverGoesBack ScreenShowsNow MovedOnlyIfMixed
    ClosesItsOwnForm ScreensSettle
\* The bounds stop the system: clicks run out, and a kiosk may stop for good.
CHECK_DEADLOCK FALSE
