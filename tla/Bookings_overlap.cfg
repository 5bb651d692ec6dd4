\* Two requests at a time; calls may fail.
CONSTANTS
    r1 = r1  r2 = r2  w1 = w1  w2 = w2
    Rooms = {r1, r2}
    Elsewhere = Elsewhere
    MaxTime = 1
    Workers = {w1, w2}
    Payloads = {"encrypted", "plain"}
    Outsiders = FALSE
    Instants = {}
    Faults = TRUE
    MaxBookings = 2
    MaxEvents = 2
    MaxNotes = 1
SPECIFICATION Spec
SYMMETRY Symmetry
INVARIANT LinkedToOwn
PROPERTY CancelledStaysCancelled
\* The bounds stop the system: ids of bookings and events run out.
CHECK_DEADLOCK FALSE
