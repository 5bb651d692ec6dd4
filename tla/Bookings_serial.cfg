\* One request at a time, no failures; people edit the mailbox.
CONSTANTS
    r1 = r1  r2 = r2  w1 = w1  w2 = w2
    Rooms = {r1, r2}
    Elsewhere = Elsewhere
    MaxTime = 2
    Workers = {w1}
    Payloads = {"encrypted", "plain"}
    Outsiders = TRUE
    Instants = {1}
    Faults = FALSE
    MaxBookings = 2
    MaxEvents = 2
    MaxNotes = 1
SPECIFICATION Spec
SYMMETRY RoomSymmetry
INVARIANTS TypeOK WindowsValid EventsMatchBookings KeptUnlessAsked
PROPERTY NoConflictAccepted
\* The bounds stop the system: ids of bookings and events run out.
CHECK_DEADLOCK FALSE
