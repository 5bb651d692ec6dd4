\* One request at a time, no failures, nobody edits the calendar.
CONSTANTS
    r1 = r1  r2 = r2  w1 = w1  w2 = w2
    Rooms = {r1}
    Elsewhere = Elsewhere
    MaxTime = 2
    Workers = {w1}
    Payloads = {"encrypted"}
    Outsiders = FALSE
    Instants = {}
    Faults = FALSE
    MaxBookings = 2
    MaxEvents = 3
    MaxNotes = 3
SPECIFICATION Spec
INVARIANT QuietMeansSynced
\* The bounds stop the system: ids of bookings and events run out.
CHECK_DEADLOCK FALSE
