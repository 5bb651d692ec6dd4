-------------------------------- MODULE Bookings --------------------------------
(***************************************************************************)
(* Bookify: room bookings in a SQL database, each mirrored by a calendar    *)
(* event in one shared mailbox.  Web requests write the database first and  *)
(* the calendar after, best effort; Graph posts a notification of every     *)
(* change of the calendar, Bookify's own changes included, and the          *)
(* notifications controller applies them to the database.                   *)
(*                                                                         *)
(* A web request or a notifications POST is a job of a worker; each call of *)
(* the database or of Graph is one step.  A job starts together with its    *)
(* first read.  Entity Framework writes the columns that differ from what   *)
(* the job read, and throws when the row is gone by then.                   *)
(***************************************************************************)
EXTENDS Naturals, Sequences, FiniteSets

CONSTANTS
    Rooms,        \* room ids
    Elsewhere,    \* what an event says of its place when it is not a room id
    MaxTime,      \* bookings lie between the times 0 and MaxTime
    Workers,      \* requests that are served at the same time
    Payloads,     \* what notifications carry: "encrypted" data, or "plain" none
    Outsiders,    \* whether people edit the mailbox in Outlook
    Instants,     \* times at which they may put an event of no length
    Faults,       \* whether calls may fail and hosts may stop
    MaxBookings,  \* bound: bookings ever made
    MaxEvents,    \* bound: calendar events ever made
    MaxNotes      \* bound: nothing new starts while this many notifications wait

ASSUME RoomsAssumption == Elsewhere \notin Rooms
ASSUME TimeAssumption == MaxTime \in Nat
ASSUME InstantsAssumption == Instants \subseteq 0 .. MaxTime
ASSUME PayloadsAssumption == Payloads \subseteq {"encrypted", "plain"}

VARIABLES
    bookings,  \* the table, by id; a deleted row stays as Gone
    events,    \* the shared mailbox, by event id; deleted events stay, not live
    notes,     \* notifications under way; Graph promises no order
    job,       \* what each worker is doing
    asked,     \* history: bookings someone deleted, here or in the calendar
    faulted    \* history: some call has failed

vars == <<bookings, events, notes, job, asked, faulted>>

-----------------------------------------------------------------------------

Times == 0 .. MaxTime
Windows == {w \in [start : Times, end : Times] : w.start < w.end}

\* What an event in Outlook may span: it may also end when it starts.
Spans == Windows \cup {[start |-> t, end |-> t] : t \in Instants}

Booking(room, start, end) ==
    [room |-> room, start |-> start, end |-> end, event |-> 0, live |-> TRUE]

\* What is left of a booking that was deleted.
Gone == [Booking(Elsewhere, 0, 0) EXCEPT !.live = FALSE]

\* booking: the one Bookify made the event for (it tags its events), 0 for others;
\* moved: history, its place is what people made it, not what Bookify wrote last.
Event(room, start, end, booking) ==
    [room |-> room, start |-> start, end |-> end, booking |-> booking, live |-> TRUE,
     moved |-> FALSE]

\* An event that was deleted; whose it was is history.
GoneEvent(e) == [Event(Elsewhere, 0, 0, e.booking) EXCEPT !.live = FALSE]

Note(kind, e, room, start, end) ==
    [kind |-> kind, event |-> e, room |-> room, start |-> start, end |-> end]

Deleted(e) == Note("deleted", e, Elsewhere, 0, 0)

\* A worker that serves nothing.
Idle == [op |-> "none", pc |-> "idle", id |-> 0, room |-> Elsewhere, start |-> 0, end |-> 0,
         event |-> 0, seen |-> Booking(Elsewhere, 0, 0), batch |-> {}, todo |-> {}]

Row(k) == bookings[job[k].id]
Overlap(a, b) == a.start < b.end /\ a.end > b.start

\* HasConflictAsync: a booking of the room, other than `exclude`, that overlaps.
HasConflict(room, window, exclude) ==
    \E i \in DOMAIN bookings \ {exclude} :
        bookings[i].live /\ bookings[i].room = room /\ Overlap(bookings[i], window)

\* The linked bookings of an event.
LinkedTo(e) == {i \in DOMAIN bookings : bookings[i].live /\ bookings[i].event = e}

\* Worker k goes on at pc; its request is over; the note it handles is.  A POST has
\* one database context: it goes on with the booking as it has read it, and saved it.
Goto(k, pc) == job' = [job EXCEPT ![k].pc = pc]
End(k) == job' = [job EXCEPT ![k] = Idle]
NextNote(k, read) ==
    job' = [job EXCEPT ![k] = [Idle EXCEPT !.op = "post", !.pc = "next", !.id = job[k].id,
                               !.seen = read, !.batch = job[k].batch, !.todo = job[k].todo]]

BookingRow == [room : Rooms \cup {Elsewhere}, start : Times, end : Times, event : Nat,
               live : BOOLEAN]
EventRow == [room : Rooms \cup {Elsewhere}, start : Times, end : Times, booking : Nat,
             live : BOOLEAN, moved : BOOLEAN]
NoteRow == [kind : {"created", "updated", "deleted"}, event : Nat \ {0},
            room : Rooms \cup {Elsewhere}, start : Times, end : Times]
Job == [op : {"none", "create", "update", "delete", "post"},
        pc : {"idle", "conflict", "insert", "save", "drop", "link", "attach", "patch", "remove",
              "next", "fetch", "apply"},
        id : Nat, room : Rooms \cup {Elsewhere}, start : Times, end : Times, event : Nat,
        seen : [room : Rooms \cup {Elsewhere}, start : Times, end : Times, event : Nat,
                live : BOOLEAN],
        batch : SUBSET NoteRow, todo : SUBSET NoteRow]

TypeOK ==
    /\ bookings \in Seq(BookingRow)
    /\ \A i \in DOMAIN bookings :
         /\ bookings[i].event \in 0 .. Len(events)
         /\ bookings[i].live => bookings[i].room \in Rooms
    /\ events \in Seq(EventRow)
    /\ notes \subseteq NoteRow
    /\ job \in [Workers -> Job]
    /\ asked \subseteq DOMAIN bookings
    /\ faulted \in BOOLEAN

Init ==
    /\ bookings = <<>>
    /\ events = <<>>
    /\ notes = {}
    /\ job = [k \in Workers |-> Idle]
    /\ asked = {}
    /\ faulted = FALSE

\* Bounds: ids left for what the requests in progress may still make.
RoomForBooking ==
    Len(bookings) + Cardinality({k \in Workers : job[k].pc = "insert"}) < MaxBookings
RoomForEvent ==
    Len(events) + Cardinality({k \in Workers : job[k].op \in {"create", "update"}}) < MaxEvents
RoomForNotes == Cardinality(notes) < MaxNotes

-----------------------------------------------------------------------------
(* CreateBookingAsync.                                                      *)

\* A validated request whose room is free; one that is not changes nothing.
CreateBooking(k, r, w) ==
    /\ job[k] = Idle
    /\ RoomForBooking /\ RoomForEvent /\ RoomForNotes
    /\ ~HasConflict(r, w, 0)
    /\ job' = [job EXCEPT ![k] = [Idle EXCEPT !.op = "create", !.pc = "insert",
                                  !.room = r, !.start = w.start, !.end = w.end]]
    /\ UNCHANGED <<bookings, events, notes, asked, faulted>>

\* Only a web request goes on to make a calendar event.
InsertBooking(k) ==
    /\ job[k].pc = "insert"
    /\ bookings' = Append(bookings, Booking(job[k].room, job[k].start, job[k].end))
    /\ IF job[k].op = "create"
         THEN job' = [job EXCEPT ![k].pc = "link", ![k].id = Len(bookings) + 1]
         ELSE NextNote(k, job[k].seen)
    /\ UNCHANGED <<events, notes, asked, faulted>>

\* CreateEventAsync: the id of the new event, or null, when nothing was made or
\* the answer was lost.
CreateEvent(k) ==
    /\ job[k].pc = "link"
    /\ \/ /\ events' = Append(events, Event(job[k].room, job[k].start, job[k].end, job[k].id))
          /\ notes' = notes \cup
                {Note("created", Len(events) + 1, Elsewhere, job[k].start, job[k].end)}
          /\ \/ /\ job' = [job EXCEPT ![k].pc = "attach", ![k].event = Len(events) + 1]
                /\ UNCHANGED faulted
             \/ Faults /\ End(k) /\ faulted' = TRUE
       \/ Faults /\ End(k) /\ faulted' = TRUE /\ UNCHANGED <<events, notes>>
    /\ UNCHANGED <<bookings, asked>>

\* Variant: the newest row gets the event.
AttachEventToLast(k) ==
    /\ job[k].pc = "attach"
    /\ bookings' = [bookings EXCEPT ![Len(bookings)].event = job[k].event]
    /\ End(k)
    /\ UNCHANGED <<events, notes, asked, faulted>>

\* Variant: an event is attached when the booking is made, not when it moves.
AttachEventOnce(k) ==
    /\ job[k].pc = "attach"
    /\ bookings' = IF Row(k).live /\ Row(k).event = 0
                     THEN [bookings EXCEPT ![job[k].id].event = job[k].event] ELSE bookings
    /\ End(k)
    /\ UNCHANGED <<events, notes, asked, faulted>>

\* The event's id is saved; a row that is gone by now is an exception, caught.
AttachEvent(k) ==
    /\ job[k].pc = "attach"
    /\ bookings' = IF Row(k).live
                     THEN [bookings EXCEPT ![job[k].id].event = job[k].event] ELSE bookings
    /\ End(k)
    /\ UNCHANGED <<events, notes, asked, faulted>>

-----------------------------------------------------------------------------
(* UpdateBookingAsync.                                                      *)

UpdateBooking(k, i, r, w) ==
    /\ job[k] = Idle
    /\ RoomForEvent \/ r = bookings[i].room
    /\ RoomForNotes
    /\ bookings[i].live
    /\ job' = [job EXCEPT ![k] = [Idle EXCEPT !.op = "update", !.pc = "conflict", !.id = i,
                  !.room = r, !.start = w.start, !.end = w.end, !.seen = bookings[i]]]
    /\ UNCHANGED <<bookings, events, notes, asked, faulted>>

\* Variant: only bookings that start where the request starts are in the way.
CheckUpdateStart(k) ==
    /\ job[k].pc = "conflict"
    /\ IF \E i \in DOMAIN bookings \ {job[k].id} :
            bookings[i].live /\ bookings[i].room = job[k].room /\ bookings[i].start = job[k].start
         THEN End(k) ELSE Goto(k, "save")
    /\ UNCHANGED <<bookings, events, notes, asked, faulted>>

CheckUpdate(k) ==
    /\ job[k].pc = "conflict"
    /\ IF HasConflict(job[k].room, job[k], job[k].id) THEN End(k) ELSE Goto(k, "save")
    /\ UNCHANGED <<bookings, events, notes, asked, faulted>>

\* A row with the columns of the request that differ from what was read.
Written(row, j) ==
    [row EXCEPT !.room  = IF j.room # j.seen.room THEN j.room ELSE @,
                !.start = IF j.start # j.seen.start THEN j.start ELSE @,
                !.end   = IF j.end # j.seen.end THEN j.end ELSE @]

\* Where the calendar comes in: nowhere when the booking had no event.
AfterSave(j) ==
    IF j.room # j.seen.room THEN "drop" ELSE "patch"

\* Variant: a row that is gone is written again.
SaveUpdateUpserts(k) ==
    /\ job[k].pc = "save"
    /\ bookings' = [bookings EXCEPT ![job[k].id] = [Written(@, job[k]) EXCEPT !.live = TRUE]]
    /\ IF job[k].seen.event = 0 THEN End(k) ELSE Goto(k, AfterSave(job[k]))
    /\ UNCHANGED <<events, notes, asked, faulted>>

\* A row that is gone is an exception, which ends the request; when room and
\* times are as they were there may be nothing to write, hence no exception.
SaveUpdate(k) ==
    /\ job[k].pc = "save"
    /\ bookings' = IF Row(k).live
                     THEN [bookings EXCEPT ![job[k].id] = Written(@, job[k])] ELSE bookings
    /\ \/ /\ Row(k).live \/ Written(job[k].seen, job[k]) = job[k].seen
          /\ job[k].seen.event # 0
          /\ Goto(k, AfterSave(job[k]))
       \/ /\ ~Row(k).live \/ job[k].seen.event = 0
          /\ End(k)
    /\ UNCHANGED <<events, notes, asked, faulted>>

\* Only events that carry Bookify's tag are ever touched.
Tagged(e) == events[e].live /\ events[e].booking # 0

\* UpdateEventAsync.
PatchEvent(k) ==
    /\ job[k].pc = "patch"
    /\ LET e == job[k].seen.event IN
         \/ /\ Tagged(e)
            /\ events' = [events EXCEPT ![e].room = job[k].room, ![e].start = job[k].start,
                                        ![e].end = job[k].end, ![e].moved = FALSE]
            /\ notes' = notes \cup {Note("updated", e, Elsewhere, job[k].start, job[k].end)}
            /\ UNCHANGED faulted
         \/ ~Tagged(e) /\ UNCHANGED <<events, notes, faulted>>
         \/ Faults /\ faulted' = TRUE /\ UNCHANGED <<events, notes>>
    /\ End(k)
    /\ UNCHANGED <<bookings, asked>>

\* Variant: the event in the old room stays.
DropEventKeeps(k) ==
    /\ job[k].pc = "drop"
    /\ Goto(k, IF job[k].op = "delete" THEN "remove" ELSE "link")
    /\ UNCHANGED <<bookings, events, notes, asked, faulted>>

\* DeleteRoomEventAsync: before the new event when a booking changes room, before
\* the row goes when it is deleted; whether it worked makes no difference.
DropEvent(k) ==
    /\ job[k].pc = "drop"
    /\ LET e == job[k].seen.event IN
         \/ /\ Tagged(e)
            /\ events' = [events EXCEPT ![e] = GoneEvent(@)]
            /\ notes' = notes \cup {Deleted(e)}
            /\ UNCHANGED faulted
         \/ ~Tagged(e) /\ UNCHANGED <<events, notes, faulted>>
         \/ Faults /\ faulted' = TRUE /\ UNCHANGED <<events, notes>>
    /\ Goto(k, IF job[k].op = "delete" THEN "remove" ELSE "link")
    /\ UNCHANGED <<bookings, asked>>

-----------------------------------------------------------------------------
(* DeleteBookingAsync.                                                      *)

DeleteBooking(k, i) ==
    /\ job[k] = Idle
    /\ RoomForNotes
    /\ bookings[i].live
    /\ job' = [job EXCEPT ![k] = [Idle EXCEPT !.op = "delete", !.id = i, !.seen = bookings[i],
                  !.pc = IF bookings[i].event = 0 THEN "remove" ELSE "drop"]]
    /\ asked' = asked \cup {i}
    /\ UNCHANGED <<bookings, events, notes, faulted>>

\* The row is deleted by its id.  One that is gone is an exception, which also
\* drops the rest of the notifications that came in the same POST.
RemoveBooking(k) ==
    /\ job[k].pc = "remove"
    /\ bookings' = [bookings EXCEPT ![job[k].id] = Gone]
    /\ IF job[k].op = "post" /\ Row(k).live THEN NextNote(k, job[k].seen) ELSE End(k)
    /\ UNCHANGED <<events, notes, asked, faulted>>

-----------------------------------------------------------------------------
(* NotificationsController.Post.                                            *)

\* One POST brings one or two notifications.
Post(k, batch) ==
    /\ job[k] = Idle
    /\ notes' = notes \ batch
    /\ job' = [job EXCEPT ![k] = [Idle EXCEPT !.op = "post", !.pc = "next",
                                  !.batch = batch, !.todo = batch]]
    /\ UNCHANGED <<bookings, events, asked, faulted>>

PostEnd(k) ==
    /\ job[k].pc = "next" /\ job[k].todo = {}
    /\ End(k)
    /\ UNCHANGED <<bookings, events, notes, asked, faulted>>

\* The job of worker k, at pc, about note n and booking i; a booking the context has
\* read before stays as it was read.
About(k, n, i, pc) ==
    job' = [job EXCEPT ![k].pc = pc, ![k].todo = @ \ {n}, ![k].id = i, ![k].event = n.event,
                       ![k].start = n.start, ![k].end = n.end,
                       ![k].seen = IF job[k].id = i THEN @ ELSE bookings[i]]

Skip(k, n) == job' = [job EXCEPT ![k].todo = @ \ {n}]

\* ApplyCalendarEventDeletedAsync, up to the look for the booking.
NoteDeleted(k, n) ==
    /\ job[k].pc = "next" /\ n \in job[k].todo
    /\ n.kind = "deleted"
    /\ \/ \E i \in LinkedTo(n.event) : About(k, n, i, "remove")
       \/ LinkedTo(n.event) = {} /\ Skip(k, n)
    /\ UNCHANGED <<bookings, events, notes, asked, faulted>>

\* Encrypted data is applied as it came, to the booking found now
\* (ApplyBookingFromExternalFragmentAsync); without it the event is fetched
\* (UpdateBookingFromCalendarEventAsync).
NoteUpdated(k, n) ==
    /\ job[k].pc = "next" /\ n \in job[k].todo
    /\ \/ /\ "encrypted" \in Payloads /\ n.kind = "updated"
          /\ \/ \E i \in LinkedTo(n.event) : About(k, n, i, "apply")
             \/ LinkedTo(n.event) = {} /\ Skip(k, n)
       \/ /\ "plain" \in Payloads /\ n.kind # "deleted"
          /\ \/ \E i \in LinkedTo(n.event) : About(k, n, i, "fetch")
             \/ LinkedTo(n.event) = {} /\ Skip(k, n)
    /\ UNCHANGED <<bookings, events, notes, asked, faulted>>

\* Variant: whether there is such a room is not asked.
NoteCreatedAnyRoom(k, n) ==
    /\ job[k].pc = "next" /\ n \in job[k].todo
    /\ "encrypted" \in Payloads /\ n.kind = "created"
    /\ IF HasConflict(n.room, n, 0) \/ ~RoomForBooking
         THEN Skip(k, n)
         ELSE job' = [job EXCEPT ![k].pc = "insert", ![k].todo = @ \ {n}, ![k].room = n.room,
                                 ![k].start = n.start, ![k].end = n.end]
    /\ UNCHANGED <<bookings, events, notes, asked, faulted>>

\* Encrypted data of a new event books the room its place names, if it is a room
\* id and free; the booking will have no event.  (Without a booking id left, which
\* is a bound, it is refused too.)
NoteCreated(k, n) ==
    /\ job[k].pc = "next" /\ n \in job[k].todo
    /\ "encrypted" \in Payloads /\ n.kind = "created"
    /\ IF n.room \notin Rooms \/ HasConflict(n.room, n, 0) \/ ~RoomForBooking
         THEN Skip(k, n)
         ELSE job' = [job EXCEPT ![k].pc = "insert", ![k].todo = @ \ {n}, ![k].room = n.room,
                                 ![k].start = n.start, ![k].end = n.end]
    /\ UNCHANGED <<bookings, events, notes, asked, faulted>>

\* GetRoomEventAsync: the event as it is now; none, or a failure, skips the note.
FetchEvent(k) ==
    /\ job[k].pc = "fetch"
    /\ LET e == job[k].event IN
         \/ /\ events[e].live
            /\ job' = [job EXCEPT ![k].pc = "apply", ![k].start = events[e].start,
                                  ![k].end = events[e].end]
            /\ UNCHANGED faulted
         \/ ~events[e].live /\ NextNote(k, job[k].seen) /\ UNCHANGED faulted
         \/ Faults /\ NextNote(k, job[k].seen) /\ faulted' = TRUE
    /\ UNCHANGED <<bookings, events, notes, asked>>

\* Variant: the end, too, is taken from the event's start.
ApplyEventStart(k) ==
    /\ job[k].pc = "apply"
    /\ bookings' = IF Row(k).live
                     THEN [bookings EXCEPT ![job[k].id].start = job[k].start,
                                           ![job[k].id].end = job[k].start] ELSE bookings
    /\ NextNote(k, job[k].seen)
    /\ UNCHANGED <<events, notes, asked, faulted>>

\* ApplyEventDataToBooking and the save.  A row that is gone is an exception, and the
\* context keeps the change that failed: wherever it is caught, nothing else of this
\* POST can be saved, so it is over.  (Title and attendees are written too, so a save
\* may fail when the times agree.)
ApplyEvent(k) ==
    /\ job[k].pc = "apply"
    /\ LET j == [job[k] EXCEPT !.room = job[k].seen.room]
           saved == Written(j.seen, j)
       IN  /\ bookings' = IF Row(k).live THEN [bookings EXCEPT ![j.id] = Written(@, j)]
                          ELSE bookings
           /\ \/ (Row(k).live \/ saved = j.seen) /\ NextNote(k, saved)
              \/ ~Row(k).live /\ End(k)
    /\ UNCHANGED <<events, notes, asked, faulted>>

-----------------------------------------------------------------------------
(* What Bookify does not decide.                                            *)

\* Someone makes, moves or deletes an event of the mailbox in Outlook: its times
\* and its place are theirs to choose.
OutsideCreate(r, w) ==
    /\ Outsiders /\ RoomForNotes /\ RoomForEvent
    /\ events' = Append(events, [Event(r, w.start, w.end, 0) EXCEPT !.moved = TRUE])
    /\ notes' = notes \cup {Note("created", Len(events) + 1, r, w.start, w.end)}
    /\ UNCHANGED <<bookings, job, asked, faulted>>

OutsideMove(e, r, w) ==
    /\ Outsiders /\ RoomForNotes
    /\ events[e].live
    /\ events' = [events EXCEPT ![e].room = r, ![e].start = w.start, ![e].end = w.end,
                                ![e].moved = @ \/ r # events[e].room]
    /\ notes' = notes \cup {Note("updated", e, Elsewhere, w.start, w.end)}
    /\ UNCHANGED <<bookings, job, asked, faulted>>

OutsideDelete(e) ==
    /\ Outsiders /\ RoomForNotes
    /\ events[e].live
    /\ events' = [events EXCEPT ![e] = GoneEvent(@)]
    /\ notes' = notes \cup {Deleted(e)}
    /\ asked' = asked \cup ({events[e].booking} \ {0})
    /\ UNCHANGED <<bookings, job, faulted>>

\* A call throws out of the request, or the host stops; a POST that was not
\* answered comes again.
Fail(k) ==
    /\ Faults
    /\ job[k] # Idle
    /\ End(k)
    /\ faulted' = TRUE
    /\ notes' \in {notes, notes \cup job[k].batch}
    /\ UNCHANGED <<bookings, events, asked>>

Request(k) ==
    \/ \E r \in Rooms, w \in Windows : CreateBooking(k, r, w)
    \/ \E i \in DOMAIN bookings, r \in Rooms, w \in Windows : UpdateBooking(k, i, r, w)
    \/ \E i \in DOMAIN bookings : DeleteBooking(k, i)
    \/ InsertBooking(k) \/ CreateEvent(k) \/ AttachEvent(k)
    \/ CheckUpdate(k) \/ SaveUpdate(k) \/ PatchEvent(k) \/ DropEvent(k) \/ RemoveBooking(k)

Notification(k) ==
    \/ \E a, b \in notes : Post(k, {a, b})
    \/ \E n \in job[k].todo : NoteDeleted(k, n) \/ NoteUpdated(k, n) \/ NoteCreated(k, n)
    \/ FetchEvent(k) \/ ApplyEvent(k) \/ PostEnd(k)

Outside ==
    \/ \E r \in Rooms \cup {Elsewhere}, w \in Spans : OutsideCreate(r, w)
    \/ \E e \in DOMAIN events :
         \/ OutsideDelete(e)
         \/ \E r \in Rooms \cup {Elsewhere}, w \in Spans : OutsideMove(e, r, w)

Next ==
    \/ \E k \in Workers : Request(k) \/ Notification(k) \/ Fail(k)
    \/ Outside

Spec == Init /\ [][Next]_vars

-----------------------------------------------------------------------------
(* Properties.  Those marked [one at a time] hold when Workers is a          *)
(* singleton; the others hold however the jobs overlap.                     *)

\* A booking's event is one that was made for it: the event of a notification
\* leads to the right booking (LinkCalendarEventAsync, room moves included).
LinkedToOwn ==
    \A i \in DOMAIN bookings :
        bookings[i].event # 0 => events[bookings[i].event].booking = i

\* A booking that was cancelled stays as it was cancelled: no update that read
\* it before brings it back.
CancelledStaysCancelled ==
    [][\A i \in DOMAIN bookings : ~bookings[i].live => bookings'[i] = bookings[i]]_vars

\* "StartTime must be before EndTime" holds of the bookings, not only of the
\* requests, although start and end are written column by column: one that ends
\* when it starts is at a time at which people put events of no length, which
\* notifications apply unchecked, and none ends before it starts.  [one at a time]
WindowsValid ==
    \A i \in DOMAIN bookings : bookings[i].live =>
        LET b == bookings[i] IN b.start < b.end \/ (b.start = b.end /\ b.start \in Instants)

SameTime(a, b) == a.room = b.room /\ a.start = b.start /\ a.end = b.end

\* Booking i and another one have the room at the same time.
Clashes(rows, i) ==
    \E j \in DOMAIN rows \ {i} :
        /\ rows[i].live /\ rows[j].live
        /\ rows[i].room = rows[j].room /\ Overlap(rows[i], rows[j])

\* No two bookings have a room at the same time.
NoDoubleBooking == \A i \in DOMAIN bookings : ~Clashes(bookings, i)

\* "Enforce domain invariants (conflict detection)": what a web request writes
\* clashes with no booking at that moment.  [one at a time]
NoConflictAccepted ==
    [][(\E k \in Workers : job[k].op \in {"create", "update"} /\ job'[k] # job[k]) =>
          \A i \in DOMAIN bookings' :
              (i \in DOMAIN bookings => ~SameTime(bookings'[i], bookings[i])) =>
                  ~Clashes(bookings', i)]_vars

Quiet == notes = {} /\ \A k \in Workers : job[k] = Idle

\* Between requests, unless a call failed, every event Bookify made belongs to a
\* booking, and the event of a booking is in its room unless people have changed
\* its place since (notifications leave the room of the booking alone), or its
\* deletion is on the way.  [one at a time]
EventsMatchBookings ==
    (~faulted /\ \A k \in Workers : job[k] = Idle) =>
        /\ \A e \in DOMAIN events : Tagged(e) => LinkedTo(e) # {}
        /\ \A i \in DOMAIN bookings : bookings[i].live /\ bookings[i].event # 0 =>
               LET e == events[bookings[i].event] IN
                 IF e.live THEN e.room = bookings[i].room \/ e.moved
                           ELSE Deleted(bookings[i].event) \in notes

\* A booking is in the table until someone deletes it, or its event.
BookingSurvives == \A i \in DOMAIN bookings : bookings[i].live \/ i \in asked

\* The same, unless a call failed.  [one at a time]
KeptUnlessAsked == ~faulted => BookingSurvives

\* "Keeps local booking data in sync with room resource calendars": once every
\* notification is applied, booking and event say the same time.
QuietMeansSynced ==
    Quiet /\ ~faulted =>
        \A i \in DOMAIN bookings : bookings[i].live /\ bookings[i].event # 0 =>
            LET e == events[bookings[i].event] IN
                e.live => e.start = bookings[i].start /\ e.end = bookings[i].end

=============================================================================
