\* Two requests at a time, no failures, no calendar edits.
CONSTANTS
    r1 = r1  r2 = r2  w1 = w1  w2 = w2
    Rooms = {r1}
    Elsewhere = Elsewhere
    MaxTime = 1
    Workers = {w1, w2}
    Payloads = {}
    Outsiders = FALSE
    Instants = {}
    Faults = FALSE
    MaxBookings = 2
    MaxEvents = 2
    MaxNotes = 2
SPECIFICATION Spec
INVARIANT NoDoubleBooking
\* The bounds stop the system: ids of bookings and events run out.
CHECK_DEADLOCK FALSE
