\* One request at a time; calls may fail; nobody edits the calendar.
CONSTANTS
    r1 = r1  r2 = r2  w1 = w1  w2 = w2
    Rooms = {r1, r2}
    Elsewhere = Elsewhere
    MaxTime = 1
    Workers = {w1}
    Payloads = {"encrypted"}
    Outsiders = FALSE
    Instants = {}
    Faults = TRUE
    MaxBookings = 2
    MaxEvents = 3
    MaxNotes = 2
SPECIFICATION Spec
INVARIANT BookingSurvives
\* The bounds stop the system: ids of bookings and events run out.
CHECK_DEADLOCK FALSE
