---------------------------- MODULE Bookings_proofs ----------------------------
(***************************************************************************)
(* Proofs about Bookings, for every set of rooms, workers and times.       *)
(***************************************************************************)
EXTENDS Bookings, TLAPS

\* Notifications of events that were made.
NotesIn(set, mailbox) == set \subseteq NoteRow /\ \A n \in set : n.event \in DOMAIN mailbox

\* What a request relies on between two calls: the booking it is about has a row
\* (perhaps gone), the room it writes exists, the event it changes or fetches was
\* made, and the event it is about to save was made for that booking.
JobIn(j, rows, mailbox) ==
    /\ j.pc \in {"insert", "conflict", "save"} => j.room \in Rooms
    /\ j.pc \in {"conflict", "save", "drop", "link", "attach", "patch", "remove",
                 "fetch", "apply"} => j.id \in DOMAIN rows
    /\ j.pc = "attach" => mailbox[j.event].booking = j.id
    /\ j.pc \in {"attach", "fetch"} => j.event \in DOMAIN mailbox
    /\ j.seen.event \in DOMAIN mailbox \cup {0}
    /\ j.pc \in {"drop", "patch"} => j.seen.event # 0
    /\ NotesIn(j.batch, mailbox) /\ NotesIn(j.todo, mailbox)

JobOK(j) == JobIn(j, bookings, events)

JobsOK == \A k \in Workers : JobOK(job[k])

\* An event Bookify made is for a booking that has, or had, a row.
EventsOK == \A e \in DOMAIN events : events[e].booking \in DOMAIN bookings \cup {0}

IInv == TypeOK /\ EventsOK /\ NotesIn(notes, events) /\ JobsOK /\ LinkedToOwn

-----------------------------------------------------------------------------
(* Facts about the operators of the model.                                  *)

\* Time 0 is a time, and times are numbers.
LEMMA TimeZero == 0 \in Times /\ Times \subseteq Nat
  BY TimeAssumption DEF Times

\* Requests, rows, events and notifications are of their types.
LEMMA Rows ==
    /\ Idle \in Job /\ JobOK(Idle)
    /\ Gone \in BookingRow /\ ~Gone.live /\ Gone.event = 0
    /\ \A r \in Rooms, s, t \in Times :
         /\ Booking(r, s, t) \in BookingRow /\ Booking(r, s, t).room = r
         /\ Booking(r, s, t).event = 0
  BY TimeZero, ZenonT(30)
     DEF Idle, Job, JobOK, JobIn, NotesIn, Gone, Booking, BookingRow

\* The parts of the record of a request.
LEMMA JobParts ==
    \A j \in Job :
        /\ j.room \in Rooms \cup {Elsewhere} /\ j.start \in Times /\ j.end \in Times
        /\ j.id \in Nat /\ j.event \in Nat /\ j.seen \in BookingRow
        /\ j.seen.event \in Nat /\ j.seen.room \in Rooms \cup {Elsewhere}
        /\ j.batch \subseteq NoteRow /\ j.todo \subseteq NoteRow
  BY DEF Job, BookingRow

\* A worker that serves nothing carries nothing.
LEMMA IdleParts ==
    Idle.pc = "idle" /\ Idle.seen.event = 0 /\ Idle.batch = {} /\ Idle.todo = {}
  BY DEF Idle, Booking

\* What is left of an event is of the booking it was made for.
LEMMA GoneEventParts ==
    \A e \in EventRow : GoneEvent(e) \in EventRow /\ GoneEvent(e).booking = e.booking
  BY TimeZero DEF Event, EventRow, GoneEvent

\* The notification of a deletion is about the event that is gone.
LEMMA DeletedParts == \A e \in Nat \ {0} : Deleted(e) \in NoteRow /\ Deleted(e).event = e
  BY TimeZero DEF Note, Deleted, NoteRow

\* What an event may span is two times.
LEMMA SpanTimes == \A w \in Spans : w.start \in Times /\ w.end \in Times
  BY InstantsAssumption DEF Spans, Windows, Times

\* So is a window.
LEMMA WindowTimes == \A w \in Windows : w.start \in Times /\ w.end \in Times
  BY DEF Windows

\* A step keeps the invariant when tables and requests stay of their types, no
\* row or event is lost, no event changes hands, each booking has an event of its
\* own, and the requests that changed are in order: the others then are too.
LEMMA Keeps ==
    ASSUME IInv,
           bookings' \in Seq(BookingRow), events' \in Seq(EventRow),
           Len(bookings) <= Len(bookings'), Len(events) <= Len(events'),
           \A i \in DOMAIN bookings' :
              /\ bookings'[i].event \in 0 .. Len(events')
              /\ bookings'[i].live => bookings'[i].room \in Rooms,
           \A e \in DOMAIN events : events'[e].booking = events[e].booking,
           EventsOK', LinkedToOwn',
           NotesIn(notes', events'), asked' \subseteq DOMAIN bookings', faulted' \in BOOLEAN,
           job' \in [Workers -> Job],
           \A w \in Workers : job'[w] = job[w] \/ JobOK(job[w])'
    PROVE  IInv'
  <1>1. TypeOK'
    BY DEF TypeOK, NotesIn
  <1>2. DOMAIN bookings \subseteq DOMAIN bookings' /\ DOMAIN events \subseteq DOMAIN events'
    BY DEF IInv, TypeOK
  <1>3. ASSUME NEW w \in Workers PROVE JobOK(job[w])'
    <2>1. CASE job'[w] = job[w]
      BY <1>2, <2>1 DEF IInv, JobsOK, JobOK, JobIn, NotesIn
    <2> QED BY <2>1
  <1> QED BY <1>1, <1>3 DEF IInv, JobsOK

\* A step of one request that leaves both tables alone.
LEMMA KeepsTables ==
    ASSUME IInv, NEW k \in Workers, NEW j \in Job, JobOK(j), job' = [job EXCEPT ![k] = j],
           UNCHANGED <<bookings, events>>,
           NotesIn(notes', events'), asked' \subseteq DOMAIN bookings, faulted' \in BOOLEAN
    PROVE  IInv'
  <1>1. \A w \in Workers : job'[w] = job[w] \/ job'[w] = j
    BY DEF IInv, TypeOK
  <1>2. \A w \in Workers : job'[w] = job[w] \/ JobOK(job[w])'
    BY <1>1 DEF JobOK, JobIn, NotesIn
  <1>3. job' \in [Workers -> Job]
    BY DEF IInv, TypeOK
  <1>4. EventsOK' /\ LinkedToOwn'
    BY DEF IInv, EventsOK, LinkedToOwn
  <1> QED BY <1>2, <1>3, <1>4, Keeps DEF IInv, TypeOK

\* A step of one request that writes one row of the bookings.
LEMMA KeepsRow ==
    ASSUME IInv, NEW k \in Workers, NEW j \in Job, JobOK(j), job' = [job EXCEPT ![k] = j],
           NEW i \in DOMAIN bookings, NEW r \in BookingRow,
           bookings' = [bookings EXCEPT ![i] = r],
           r.live => r.room \in Rooms,
           r.event # 0 => r.event \in DOMAIN events /\ events[r.event].booking = i,
           UNCHANGED <<events, notes, asked, faulted>>
    PROVE  IInv'
  <1>1. bookings' \in Seq(BookingRow) /\ Len(bookings') = Len(bookings)
        /\ DOMAIN bookings' = DOMAIN bookings
    BY DEF IInv, TypeOK
  <1>2. \A w \in Workers : job'[w] = job[w] \/ job'[w] = j
    BY DEF IInv, TypeOK
  <1>3. \A w \in Workers : job'[w] = job[w] \/ JobOK(job[w])'
    BY <1>1, <1>2 DEF JobOK, JobIn, NotesIn
  <1>4. job' \in [Workers -> Job]
    BY DEF IInv, TypeOK
  <1>5. \A n \in DOMAIN bookings' : bookings'[n] = IF n = i THEN r ELSE bookings[n]
    BY <1>1 DEF IInv, TypeOK
  <1>6. EventsOK'
    BY <1>1 DEF IInv, EventsOK
  <1>7. LinkedToOwn'
    BY <1>1, <1>5 DEF IInv, LinkedToOwn
  <1>8. r.event \in 0 .. Len(events)
    BY DEF IInv, TypeOK, BookingRow
  <1>9. \A n \in DOMAIN bookings' :
           /\ bookings'[n].event \in 0 .. Len(events')
           /\ bookings'[n].live => bookings'[n].room \in Rooms
    BY <1>1, <1>5, <1>8 DEF IInv, TypeOK
  <1>10. /\ Len(bookings) <= Len(bookings') /\ Len(events) <= Len(events')
         /\ events' \in Seq(EventRow) /\ NotesIn(notes', events')
         /\ asked' \subseteq DOMAIN bookings' /\ faulted' \in BOOLEAN
    BY <1>1 DEF IInv, TypeOK
  <1> QED BY <1>1, <1>3, <1>4, <1>6, <1>7, <1>9, <1>10, Keeps

\* A step that changes one event of the mailbox, not whose it is.
LEMMA KeepsEvent ==
    ASSUME IInv, NEW e \in DOMAIN events, NEW x \in EventRow, x.booking = events[e].booking,
           events' = [events EXCEPT ![e] = x], UNCHANGED bookings,
           job' \in [Workers -> Job],
           \A w \in Workers : job'[w] = job[w] \/ (JobOK(job'[w]) /\ job'[w].pc # "attach"),
           NotesIn(notes', events'), asked' \subseteq DOMAIN bookings, faulted' \in BOOLEAN
    PROVE  IInv'
  <1>1. events' \in Seq(EventRow) /\ Len(events') = Len(events)
        /\ DOMAIN events' = DOMAIN events
    BY DEF IInv, TypeOK
  <1>2. \A n \in DOMAIN events : events'[n].booking = events[n].booking
    BY DEF IInv, TypeOK
  <1>3. \A w \in Workers : job'[w] = job[w] \/ JobOK(job[w])'
    BY DEF JobOK, JobIn, NotesIn
  <1>4. EventsOK'
    BY <1>1, <1>2 DEF IInv, EventsOK
  <1>5. \A i \in DOMAIN bookings : bookings[i].event # 0 => bookings[i].event \in DOMAIN events
    BY DEF IInv, TypeOK
  <1>6. LinkedToOwn'
    BY <1>1, <1>2, <1>5 DEF IInv, LinkedToOwn
  <1> QED BY <1>1, <1>2, <1>3, <1>4, <1>6, Keeps DEF IInv, TypeOK

-----------------------------------------------------------------------------
(* One lemma per group of actions: each keeps IInv.                         *)

\* The request of a worker is of its type and in order; rows and events too.
LEMMA TheJob ==
    ASSUME IInv, NEW k \in Workers
    PROVE  /\ job[k] \in Job /\ JobOK(job[k])
           /\ NotesIn(notes, events) /\ asked \subseteq DOMAIN bookings /\ faulted \in BOOLEAN
           /\ \A i \in DOMAIN bookings :
                /\ bookings[i] \in BookingRow
                /\ bookings[i].live => bookings[i].room \in Rooms
                /\ bookings[i].event # 0 =>
                     bookings[i].event \in DOMAIN events /\ events[bookings[i].event].booking = i
           /\ \A e \in DOMAIN events : events[e] \in EventRow /\ e \in Nat \ {0}
           /\ \A i \in DOMAIN bookings : i \in Nat \ {0}
           /\ Len(bookings) \in Nat /\ Len(events) \in Nat
  <1>1. job[k] \in Job /\ JobOK(job[k])
    BY DEF IInv, TypeOK, JobsOK
  <1>2. \A i \in DOMAIN bookings :
           /\ bookings[i] \in BookingRow
           /\ bookings[i].live => bookings[i].room \in Rooms
    BY DEF IInv, TypeOK
  <1>3. \A i \in DOMAIN bookings : bookings[i].event # 0 =>
           bookings[i].event \in DOMAIN events /\ events[bookings[i].event].booking = i
    BY DEF IInv, TypeOK, LinkedToOwn
  <1> QED BY <1>1, <1>2, <1>3 DEF IInv, TypeOK

\* A request that ends leaves what is left in order.
LEMMA EndStep ==
    ASSUME IInv, NEW k \in Workers, End(k), UNCHANGED <<bookings, events>>,
           NotesIn(notes', events'), asked' \subseteq DOMAIN bookings, faulted' \in BOOLEAN
    PROVE  IInv'
  BY Rows, KeepsTables DEF End

\* So does one that goes on at another call with the same data.
LEMMA GotoStep ==
    ASSUME IInv, NEW k \in Workers, NEW pc, Goto(k, pc), [job[k] EXCEPT !.pc = pc] \in Job,
           JobOK([job[k] EXCEPT !.pc = pc]), UNCHANGED <<bookings, events>>,
           NotesIn(notes', events'), asked' \subseteq DOMAIN bookings, faulted' \in BOOLEAN
    PROVE  IInv'
  <1>1. job' = [job EXCEPT ![k] = [job[k] EXCEPT !.pc = pc]]
    BY DEF Goto, IInv, TypeOK
  <1> QED BY <1>1, KeepsTables

\* What a request has read of a booking is a row, with an event that was made.
LEMMA SeenRow ==
    ASSUME IInv, NEW k \in Workers
    PROVE  job[k].seen \in BookingRow /\ job[k].seen.event \in DOMAIN events \cup {0}
  BY TheJob, JobParts DEF JobOK, JobIn

\* The record of a POST between two notifications is in order.
LEMMA NoteJob ==
    ASSUME IInv, NEW k \in Workers, NEW read \in BookingRow,
           read.event \in DOMAIN events \cup {0}
    PROVE  LET j == [Idle EXCEPT !.op = "post", !.pc = "next", !.id = job[k].id, !.seen = read,
                                 !.batch = job[k].batch, !.todo = job[k].todo]
           IN  j \in Job /\ JobOK(j) /\ j.pc = "next"
  <1> DEFINE j == [Idle EXCEPT !.op = "post", !.pc = "next", !.id = job[k].id, !.seen = read,
                               !.batch = job[k].batch, !.todo = job[k].todo]
  <1>1. /\ job[k].batch \subseteq NoteRow /\ job[k].todo \subseteq NoteRow
        /\ job[k].id \in Nat
        /\ NotesIn(job[k].batch, events) /\ NotesIn(job[k].todo, events)
    BY TheJob DEF Job, JobOK, JobIn
  <1>2. Idle \in Job
    BY Rows
  <1>3. j \in Job /\ j.pc = "next" /\ j.seen = read
        /\ j.batch = job[k].batch /\ j.todo = job[k].todo
    BY <1>1, <1>2 DEF Job, BookingRow
  <1> HIDE DEF j
  <1>4. JobOK(j)
    BY <1>1, <1>3 DEF JobOK, JobIn
  <1> QED BY <1>3, <1>4 DEF j

\* A POST that goes on with its next notification leaves what is left in order.
LEMMA NextNoteStep ==
    ASSUME IInv, NEW k \in Workers, NextNote(k, job[k].seen), UNCHANGED <<bookings, events>>,
           NotesIn(notes', events'), asked' \subseteq DOMAIN bookings, faulted' \in BOOLEAN
    PROVE  IInv'
  BY SeenRow, NoteJob, KeepsTables DEF NextNote

\* Requests that start: what they carry is of its type.
LEMMA StartSteps ==
    ASSUME IInv, NEW k \in Workers,
           \/ \E r \in Rooms, w \in Windows : CreateBooking(k, r, w)
           \/ \E i \in DOMAIN bookings, r \in Rooms, w \in Windows : UpdateBooking(k, i, r, w)
           \/ \E i \in DOMAIN bookings : DeleteBooking(k, i)
           \/ \E a, b \in notes : Post(k, {a, b})
    PROVE  IInv'
  <1>0. Idle \in Job /\ NotesIn(notes, events) /\ \A n \in notes : n \in NoteRow
    BY Rows, TheJob DEF NotesIn
  <1>1. ASSUME NEW r \in Rooms, NEW w \in Windows, CreateBooking(k, r, w) PROVE IInv'
    <2> DEFINE j == [Idle EXCEPT !.op = "create", !.pc = "insert", !.room = r,
                                 !.start = w.start, !.end = w.end]
    <2>1. j \in Job /\ JobOK(j)
      BY <1>0, WindowTimes, IdleParts DEF Job, JobOK, JobIn, NotesIn
    <2>2. job' = [job EXCEPT ![k] = j]
      BY <1>1 DEF CreateBooking
    <2> HIDE DEF j
    <2> QED BY <1>1, <2>1, <2>2, KeepsTables, TheJob DEF CreateBooking
  <1>2. ASSUME NEW i \in DOMAIN bookings, NEW r \in Rooms, NEW w \in Windows,
               UpdateBooking(k, i, r, w)
        PROVE  IInv'
    <2> DEFINE j == [Idle EXCEPT !.op = "update", !.pc = "conflict", !.id = i, !.room = r,
                        !.start = w.start, !.end = w.end, !.seen = bookings[i]]
    <2>1. bookings[i] \in BookingRow /\ i \in Nat /\ bookings[i].event \in DOMAIN events \cup {0}
      BY TheJob
    <2>2. j \in Job /\ JobOK(j)
      BY <1>0, <2>1, WindowTimes, IdleParts DEF Job, JobOK, JobIn, NotesIn, BookingRow
    <2>3. job' = [job EXCEPT ![k] = j]
      BY <1>2 DEF UpdateBooking
    <2> HIDE DEF j
    <2> QED BY <1>2, <2>2, <2>3, KeepsTables, TheJob DEF UpdateBooking
  <1>3. ASSUME NEW i \in DOMAIN bookings, DeleteBooking(k, i) PROVE IInv'
    <2> DEFINE j == [Idle EXCEPT !.op = "delete", !.id = i, !.seen = bookings[i],
                        !.pc = IF bookings[i].event = 0 THEN "remove" ELSE "drop"]
    <2>1. bookings[i] \in BookingRow /\ i \in Nat /\ bookings[i].event \in DOMAIN events \cup {0}
      BY TheJob
    <2>2. j \in Job /\ JobOK(j)
      BY <1>0, <2>1, IdleParts DEF Job, JobOK, JobIn, NotesIn, BookingRow
    <2>3. job' = [job EXCEPT ![k] = j]
      BY <1>3 DEF DeleteBooking
    <2>4. asked' \subseteq DOMAIN bookings
      BY <1>3, TheJob DEF DeleteBooking
    <2> HIDE DEF j
    <2> QED BY <1>3, <2>2, <2>3, <2>4, KeepsTables, TheJob DEF DeleteBooking
  <1>4. ASSUME NEW a \in notes, NEW b \in notes, Post(k, {a, b}) PROVE IInv'
    <2> DEFINE both == {a, b}
               j == [Idle EXCEPT !.op = "post", !.pc = "next", !.batch = both, !.todo = both]
    <2>1. j \in Job /\ JobOK(j)
      <3>1. both \subseteq NoteRow /\ NotesIn(both, events)
        BY <1>0 DEF NotesIn
      <3> HIDE DEF both
      <3>2. j \in Job /\ j.pc = "next" /\ j.seen = Idle.seen /\ j.batch = both /\ j.todo = both
        BY <1>0, <3>1 DEF Job
      <3> HIDE DEF j
      <3> QED BY <3>1, <3>2, IdleParts DEF JobOK, JobIn
    <2>2. job' = [job EXCEPT ![k] = j]
      BY <1>4 DEF Post
    <2>3. NotesIn(notes', events')
      BY <1>0, <1>4 DEF Post, NotesIn
    <2> HIDE DEF j
    <2> QED BY <1>4, <2>1, <2>2, <2>3, KeepsTables, TheJob DEF Post
  <1> QED BY <1>1, <1>2, <1>3, <1>4

\* The record of a request that goes on at another call is of its type.
LEMMA GotoJob ==
    \A j \in Job : \A pc \in {"conflict", "insert", "save", "drop", "link", "attach", "patch",
                              "remove", "next", "fetch", "apply"} :
        [j EXCEPT !.pc = pc] \in Job
  BY DEF Job

\* A row is added for a room that exists; it has no event yet.
LEMMA InsertStep ==
    ASSUME IInv, NEW k \in Workers, InsertBooking(k)
    PROVE  IInv'
  <1> DEFINE b == Booking(job[k].room, job[k].start, job[k].end)
             n == Len(bookings) + 1
             j == IF job[k].op = "create"
                    THEN [job[k] EXCEPT !.pc = "link", !.id = n]
                    ELSE [Idle EXCEPT !.op = "post", !.pc = "next", !.id = job[k].id,
                                      !.seen = job[k].seen, !.batch = job[k].batch,
                                      !.todo = job[k].todo]
  <1>1. UNCHANGED <<events, notes, asked, faulted>>
    BY DEF InsertBooking
  <1>2. JobOK(job[k])
    BY TheJob
  <1>3. job[k] \in Job /\ job[k].pc = "insert" /\ job[k].room \in Rooms
    BY TheJob DEF InsertBooking, JobOK, JobIn, NotesIn
  <1>4. b \in BookingRow /\ b.room \in Rooms /\ b.event = 0
    BY <1>3, Rows, JobParts
  <1>5. bookings' = Append(bookings, b)
    BY DEF InsertBooking
  <1>6. job' = [job EXCEPT ![k] = j]
    BY DEF InsertBooking, NextNote, IInv, TypeOK
  <1> HIDE DEF b
  <1>7. /\ bookings' \in Seq(BookingRow) /\ Len(bookings') = n /\ n \in Nat \ {0}
        /\ DOMAIN bookings' = DOMAIN bookings \cup {n} /\ n \notin DOMAIN bookings
        /\ bookings'[n] = b /\ \A i \in DOMAIN bookings : bookings'[i] = bookings[i]
    BY <1>4, <1>5 DEF IInv, TypeOK
  <1>8. j \in Job /\ JobIn(j, bookings', events')
    <2>1. CASE job[k].op = "create"
      <3>1. j = [job[k] EXCEPT !.pc = "link", !.id = n] /\ n \in Nat
        BY <1>7, <2>1
      <3> HIDE DEF n, j
      <3>2. j \in Job
        BY <1>3, <3>1 DEF Job
      <3>3. /\ j.pc = "link" /\ j.id = n /\ j.seen = job[k].seen
            /\ j.batch = job[k].batch /\ j.todo = job[k].todo
        BY <1>3, <3>1 DEF Job
      <3> QED BY <1>2, <1>7, <1>1, <3>2, <3>3 DEF JobOK, JobIn
    <2>2. CASE job[k].op # "create"
      <3>1. j = [Idle EXCEPT !.op = "post", !.pc = "next", !.id = job[k].id,
                             !.seen = job[k].seen, !.batch = job[k].batch,
                             !.todo = job[k].todo]
        BY <2>2
      <3> HIDE DEF j
      <3>2. j \in Job /\ j.pc = "next" /\ JobOK(j)
        BY <3>1, SeenRow, NoteJob, Zenon
      <3> QED BY <1>1, <3>2 DEF JobOK, JobIn
    <2> QED BY <2>1, <2>2
  <1> HIDE DEF n, j
  <1>9. job' \in [Workers -> Job] /\ \A w \in Workers : job'[w] = job[w] \/ job'[w] = j
    BY <1>6, <1>8 DEF IInv, TypeOK
  <1>10. \A w \in Workers : job'[w] = job[w] \/ JobOK(job[w])'
    BY <1>8, <1>9 DEF JobOK, JobIn, NotesIn
  <1>11. EventsOK'
    BY <1>7, <1>1 DEF IInv, EventsOK
  <1>12. LinkedToOwn'
    BY <1>4, <1>7, <1>1 DEF IInv, LinkedToOwn
  <1>13. /\ \A i \in DOMAIN bookings' :
              /\ bookings'[i].event \in 0 .. Len(events')
              /\ bookings'[i].live => bookings'[i].room \in Rooms
         /\ Len(bookings) <= Len(bookings') /\ Len(events) <= Len(events')
    <2>1. Len(bookings') = Len(bookings) + 1 /\ Len(bookings) \in Nat /\ Len(events) \in Nat
      BY <1>5, <1>4, TheJob DEF IInv, TypeOK
    <2>2. 0 \in 0 .. Len(events)
      BY <2>1
    <2> QED BY <1>4, <1>7, <1>1, <2>1, <2>2 DEF IInv, TypeOK
  <1>14. NotesIn(notes', events') /\ asked' \subseteq DOMAIN bookings' /\ faulted' \in BOOLEAN
         /\ events' \in Seq(EventRow)
         /\ \A e \in DOMAIN events : events'[e].booking = events[e].booking
    BY <1>7, <1>1 DEF IInv, TypeOK
  <1> QED BY <1>7, <1>9, <1>10, <1>11, <1>12, <1>13, <1>14, Keeps

\* A new event is for the booking of the request that makes it, or an outsider's.
LEMMA AppendEvent ==
    ASSUME IInv, NEW x \in EventRow, x.booking \in DOMAIN bookings \cup {0},
           events' = Append(events, x), UNCHANGED bookings,
           job' \in [Workers -> Job],
           \A w \in Workers : job'[w] = job[w] \/ JobOK(job[w])',
           NotesIn(notes', events'), asked' \subseteq DOMAIN bookings, faulted' \in BOOLEAN
    PROVE  IInv'
  <1> DEFINE n == Len(events) + 1
  <1>1. /\ events' \in Seq(EventRow) /\ Len(events') = n /\ n \in Nat \ {0}
        /\ DOMAIN events' = DOMAIN events \cup {n}
        /\ events'[n] = x /\ \A e \in DOMAIN events : events'[e] = events[e]
    BY DEF IInv, TypeOK
  <1>2. \A i \in DOMAIN bookings :
           bookings[i].event \in 0 .. Len(events) /\ bookings[i].event \in 0 .. Len(events')
    BY <1>1 DEF IInv, TypeOK
  <1>3. \A i \in DOMAIN bookings : bookings[i].event # 0 => bookings[i].event \in DOMAIN events
    BY <1>2 DEF IInv, TypeOK
  <1>4. Len(events) <= Len(events')
    BY <1>1
  <1> HIDE DEF n
  <1>5. EventsOK'
    BY <1>1 DEF IInv, EventsOK
  <1>6. LinkedToOwn'
    BY <1>1, <1>3 DEF IInv, LinkedToOwn
  <1> QED BY <1>1, <1>2, <1>4, <1>5, <1>6, Keeps DEF IInv, TypeOK

\* CreateEventAsync and the save of the new event's id.
LEMMA LinkSteps ==
    ASSUME IInv, NEW k \in Workers, CreateEvent(k) \/ AttachEvent(k)
    PROVE  IInv'
  <1>0. job[k] \in Job /\ JobOK(job[k]) /\ job \in [Workers -> Job]
    BY TheJob DEF IInv, TypeOK
  <1>1. CASE CreateEvent(k)
    <2> DEFINE n == Len(events) + 1
               x == Event(job[k].room, job[k].start, job[k].end, job[k].id)
               j == [job[k] EXCEPT !.pc = "attach", !.event = n]
    <2>1. job[k].id \in DOMAIN bookings /\ job[k].id \in Nat /\ n \in Nat \ {0}
      BY <1>0, <1>1, TheJob DEF CreateEvent, JobOK, JobIn, NotesIn
    <2>2. x \in EventRow /\ x.booking = job[k].id
      <3>1. job[k].room \in Rooms \cup {Elsewhere} /\ job[k].start \in Times /\ job[k].end \in Times
        BY <1>0, JobParts
      <3> QED BY <2>1, <3>1 DEF Event, EventRow
    <2>3. LET m == Note("created", n, Elsewhere, job[k].start, job[k].end)
          IN  m \in NoteRow /\ m.event = n
      <3>1. Elsewhere \in Rooms \cup {Elsewhere} /\ job[k].start \in Times /\ job[k].end \in Times
        BY <1>0, JobParts
      <3> QED BY <2>1, <3>1 DEF Note, NoteRow
    <2>4. UNCHANGED <<bookings, asked>> /\ faulted' \in BOOLEAN /\ NotesIn(notes, events)
      BY <1>1, TheJob DEF CreateEvent
    <2>5. CASE UNCHANGED events
      <3>1. End(k)
        <4>1. CASE events' = Append(events, x)
          <5>1. Append(events, x) # events
            BY <2>2 DEF IInv, TypeOK
          <5> QED BY <2>5, <4>1, <5>1
        <4>2. CASE events' # Append(events, x)
          BY <1>1, <4>2 DEF CreateEvent
        <4> QED BY <4>1, <4>2
      <3>2. NotesIn(notes', events')
        <4>1. Append(events, x) # events
          BY <2>2 DEF IInv, TypeOK
        <4> HIDE DEF x
        <4>2. notes' = notes
          BY <1>1, <2>5, <4>1 DEF CreateEvent, x
        <4> QED BY <2>4, <2>5, <4>2
      <3> QED BY <2>4, <2>5, <3>1, <3>2, EndStep, TheJob
    <2>6. CASE events' = Append(events, x)
      <3>1. n \in DOMAIN events' /\ events'[n] = x
        BY <2>2, <2>6 DEF IInv, TypeOK
      <3>2. /\ Idle \in Job /\ Idle.pc = "idle"
            /\ j.pc = "attach" /\ j.event = n /\ j.id = job[k].id
            /\ j.seen = job[k].seen /\ j.batch = job[k].batch /\ j.todo = job[k].todo
        BY <1>0, Rows, IdleParts DEF Job
      <3>3. j \in Job
        BY <1>0, <2>1 DEF Job
      <3>4. NotesIn(notes', events')
        <4>1. DOMAIN events' = DOMAIN events \cup {n}
          BY <2>2, <2>6 DEF IInv, TypeOK
        <4>2. notes' \in
                {notes,
                 notes \cup {Note("created", n, Elsewhere, job[k].start, job[k].end)}}
          BY <1>1 DEF CreateEvent
        <4> HIDE DEF n
        <4> QED BY <2>3, <2>4, <4>1, <4>2 DEF NotesIn
      <3>5. DOMAIN events \subseteq DOMAIN events'
        BY <2>2, <2>6 DEF IInv, TypeOK
      <3>6. End(k) \/ job' = [job EXCEPT ![k] = j]
        BY <1>0, <1>1 DEF CreateEvent, End
      <3> HIDE DEF n, x, j
      <3>7. job' \in [Workers -> Job]
            /\ \A w \in Workers : job'[w] \in {job[w], Idle, j}
        BY <1>0, <3>2, <3>6, <3>3 DEF End
      <3>8. JobIn(Idle, bookings', events')
        BY <3>2, IdleParts DEF JobIn, NotesIn
      <3>9. JobIn(j, bookings', events')
        BY <1>0, <2>1, <2>2, <2>4, <3>1, <3>2, <3>5 DEF JobOK, JobIn, NotesIn
      <3>10. \A w \in Workers : job'[w] = job[w] \/ JobOK(job[w])'
        BY <3>7, <3>8, <3>9 DEF JobOK
      <3> QED BY <2>1, <2>2, <2>4, <2>6, <3>7, <3>10, <3>4, AppendEvent, TheJob
    <2> QED BY <1>1, <2>5, <2>6 DEF CreateEvent
  <1>2. CASE AttachEvent(k)
    <2> DEFINE i == job[k].id
               r == IF bookings[i].live THEN [bookings[i] EXCEPT !.event = job[k].event]
                                        ELSE bookings[i]
    <2>1. /\ i \in DOMAIN bookings /\ bookings[i] \in BookingRow
          /\ bookings[i].live => bookings[i].room \in Rooms
          /\ bookings[i].event # 0 =>
               bookings[i].event \in DOMAIN events /\ events[bookings[i].event].booking = i
      BY <1>0, <1>2, TheJob DEF AttachEvent, JobOK, JobIn, NotesIn
    <2>2. job[k].event \in DOMAIN events /\ events[job[k].event].booking = i /\ job[k].event \in Nat
      BY <1>0, <1>2, TheJob DEF AttachEvent, JobOK, JobIn, NotesIn
    <2>3. bookings' = [bookings EXCEPT ![i] = r]
      <3>1. CASE bookings[i].live
        BY <1>2, <2>1, <3>1 DEF AttachEvent, Row, IInv, TypeOK
      <3>2. CASE ~bookings[i].live
        <4>1. bookings' = bookings
          BY <1>2, <3>2 DEF AttachEvent, Row
        <4> QED BY <2>1, <3>2, <4>1 DEF IInv, TypeOK
      <3> QED BY <3>1, <3>2
    <2>4. r \in BookingRow /\ (r.live => r.room \in Rooms)
          /\ (r.event # 0 => r.event \in DOMAIN events /\ events[r.event].booking = i)
      <3>1. CASE bookings[i].live
        BY <2>1, <2>2, <3>1 DEF BookingRow
      <3>2. CASE ~bookings[i].live
        BY <2>1, <3>2
      <3> QED BY <3>1, <3>2
    <2>5. Idle \in Job /\ JobOK(Idle) /\ job' = [job EXCEPT ![k] = Idle]
      BY <1>2, Rows DEF AttachEvent, End
    <2> HIDE DEF r
    <2> QED BY <1>2, <2>1, <2>3, <2>4, <2>5, KeepsRow DEF AttachEvent
  <1> QED BY <1>1, <1>2

\* Written changes no event and no life, and the room to the request's or not at all.
LEMMA WrittenRow ==
    \A row \in BookingRow, j \in Job :
        /\ Written(row, j) \in BookingRow
        /\ Written(row, j).event = row.event /\ Written(row, j).live = row.live
        /\ Written(row, j).room = IF j.room # j.seen.room THEN j.room ELSE row.room
  <1> SUFFICES ASSUME NEW row \in BookingRow, NEW j \in Job
               PROVE  /\ Written(row, j) \in BookingRow
                      /\ Written(row, j).event = row.event /\ Written(row, j).live = row.live
                      /\ Written(row, j).room = IF j.room # j.seen.room THEN j.room
                                                                            ELSE row.room
    OBVIOUS
  <1>1. j.room \in Rooms \cup {Elsewhere} /\ j.start \in Times /\ j.end \in Times
    BY JobParts
  <1> QED BY <1>1 DEF Written, BookingRow

\* A row written by a request keeps the row's event, so the invariant stays.
LEMMA WriteStep ==
    ASSUME IInv, NEW k \in Workers, NEW i \in DOMAIN bookings, NEW j \in Job,
           j.room \in Rooms \/ j.room = j.seen.room,
           bookings' = IF bookings[i].live THEN [bookings EXCEPT ![i] = Written(bookings[i], j)]
                       ELSE bookings,
           NEW next \in Job, JobOK(next), job' = [job EXCEPT ![k] = next],
           UNCHANGED <<events, notes, asked, faulted>>
    PROVE  IInv'
  <1> DEFINE r == Written(bookings[i], j)
  <1>1. /\ bookings[i] \in BookingRow /\ (bookings[i].live => bookings[i].room \in Rooms)
        /\ bookings[i].event # 0 =>
             bookings[i].event \in DOMAIN events /\ events[bookings[i].event].booking = i
    BY TheJob
  <1>2. CASE bookings[i].live
    <2>1. /\ r \in BookingRow /\ r.event = bookings[i].event /\ r.room \in Rooms
      BY <1>1, <1>2, WrittenRow
    <2>2. bookings' = [bookings EXCEPT ![i] = r]
      BY <1>2
    <2> HIDE DEF r
    <2> QED BY <1>1, <2>1, <2>2, KeepsRow
  <1>3. CASE ~bookings[i].live
    <2>1. NotesIn(notes', events') /\ asked' \subseteq DOMAIN bookings /\ faulted' \in BOOLEAN
      BY TheJob
    <2> QED BY <1>3, <2>1, KeepsTables
  <1> QED BY <1>2, <1>3

\* The record of a request that goes on keeps everything but its place.
LEMMA PcJob ==
    ASSUME IInv, NEW k \in Workers,
           NEW pc \in {"save", "drop", "link", "patch", "remove"},
           job[k].id \in DOMAIN bookings,
           pc = "save" => job[k].room \in Rooms,
           pc \in {"drop", "patch"} => job[k].seen.event # 0
    PROVE  [job[k] EXCEPT !.pc = pc] \in Job /\ JobOK([job[k] EXCEPT !.pc = pc])
  <1> DEFINE j == [job[k] EXCEPT !.pc = pc]
  <1>1. job[k] \in Job /\ JobOK(job[k])
    BY TheJob
  <1>2. j \in Job
    BY <1>1, GotoJob
  <1>3. /\ j.pc = pc /\ j.id = job[k].id /\ j.room = job[k].room /\ j.seen = job[k].seen
        /\ j.batch = job[k].batch /\ j.todo = job[k].todo
    BY <1>1 DEF Job
  <1> HIDE DEF j
  <1>4. JobOK(j)
    BY <1>1, <1>3 DEF JobOK, JobIn
  <1> QED BY <1>2, <1>4 DEF j

\* UpdateBookingAsync on the database: the check for conflicts and the save.
LEMMA SaveSteps ==
    ASSUME IInv, NEW k \in Workers, CheckUpdate(k) \/ SaveUpdate(k)
    PROVE  IInv'
  <1>1. /\ job[k] \in Job /\ JobOK(job[k])
        /\ NotesIn(notes, events) /\ asked \subseteq DOMAIN bookings /\ faulted \in BOOLEAN
    BY TheJob
  <1>2. job[k].id \in DOMAIN bookings /\ job[k].room \in Rooms
    BY <1>1 DEF CheckUpdate, SaveUpdate, JobOK, JobIn
  <1>3. CASE CheckUpdate(k)
    <2>1. CASE End(k)
      BY <1>1, <1>3, <2>1, EndStep DEF CheckUpdate
    <2>2. CASE Goto(k, "save")
      <3>1. [job[k] EXCEPT !.pc = "save"] \in Job /\ JobOK([job[k] EXCEPT !.pc = "save"])
        BY <1>2, PcJob
      <3> QED BY <1>1, <1>3, <2>2, <3>1, GotoStep DEF CheckUpdate
    <2> QED BY <1>3, <2>1, <2>2 DEF CheckUpdate
  <1>4. CASE SaveUpdate(k)
    <2>1. UNCHANGED <<events, notes, asked, faulted>>
      BY <1>4 DEF SaveUpdate
    <2>2. bookings' = IF bookings[job[k].id].live
                        THEN [bookings EXCEPT ![job[k].id] = Written(bookings[job[k].id], job[k])]
                        ELSE bookings
      BY <1>2, <1>4 DEF SaveUpdate, Row, IInv, TypeOK
    <2>3. CASE End(k)
      <3>1. Idle \in Job /\ JobOK(Idle) /\ job' = [job EXCEPT ![k] = Idle]
        BY <2>3, Rows DEF End
      <3> QED BY <1>1, <1>2, <2>1, <2>2, <3>1, WriteStep
    <2>4. CASE job[k].seen.event # 0 /\ Goto(k, AfterSave(job[k]))
      <3> DEFINE j == [job[k] EXCEPT !.pc = AfterSave(job[k])]
      <3>1. AfterSave(job[k]) \in {"drop", "patch"}
        BY DEF AfterSave
      <3>2. j \in Job /\ JobOK(j)
        BY <1>2, <2>4, <3>1, PcJob
      <3>3. job' = [job EXCEPT ![k] = j]
        BY <2>4 DEF Goto, IInv, TypeOK
      <3> HIDE DEF j
      <3> QED BY <1>1, <1>2, <2>1, <2>2, <3>2, <3>3, WriteStep
    <2> QED BY <1>4, <2>3, <2>4 DEF SaveUpdate
  <1> QED BY <1>3, <1>4

\* The calls of the calendar: the event changes, never whose it is.
LEMMA MailboxStep ==
    ASSUME IInv, NEW k \in Workers, NEW e \in DOMAIN events, NEW x \in EventRow,
           x.booking = events[e].booking,
           events' = [events EXCEPT ![e] = x], UNCHANGED bookings,
           NEW j \in Job, JobOK(j), j.pc # "attach", job' = [job EXCEPT ![k] = j],
           NEW n \in NoteRow, n.event = e, notes' = notes \cup {n},
           asked' = asked, faulted' \in BOOLEAN
    PROVE  IInv'
  <1>1. job' \in [Workers -> Job] /\ \A w \in Workers : job'[w] = job[w] \/ job'[w] = j
    BY DEF IInv, TypeOK
  <1>2. DOMAIN events' = DOMAIN events
    BY DEF IInv, TypeOK
  <1>3. NotesIn(notes', events') /\ asked' \subseteq DOMAIN bookings
    BY <1>2, TheJob DEF NotesIn
  <1>4. \A w \in Workers : job'[w] = job[w] \/ (JobOK(job'[w]) /\ job'[w].pc # "attach")
    BY <1>1
  <1> QED BY <1>1, <1>3, <1>4, KeepsEvent

\* UpdateEventAsync.
LEMMA PatchStep ==
    ASSUME IInv, NEW k \in Workers, PatchEvent(k)
    PROVE  IInv'
  <1> DEFINE e == job[k].seen.event
             x == [events[e] EXCEPT !.room = job[k].room, !.start = job[k].start,
                                    !.end = job[k].end, !.moved = FALSE]
             n == Note("updated", e, Elsewhere, job[k].start, job[k].end)
  <1>1. /\ job[k] \in Job /\ JobOK(job[k]) /\ job[k].pc = "patch"
        /\ NotesIn(notes, events) /\ asked \subseteq DOMAIN bookings /\ faulted \in BOOLEAN
    BY TheJob DEF PatchEvent
  <1>2. e \in DOMAIN events /\ e \in Nat \ {0} /\ events[e] \in EventRow
    BY <1>1, TheJob DEF JobOK, JobIn
  <1>3. job[k].room \in Rooms \cup {Elsewhere} /\ job[k].start \in Times /\ job[k].end \in Times
    BY <1>1, JobParts
  <1>4. End(k) /\ UNCHANGED <<bookings, asked>> /\ faulted' \in BOOLEAN
    BY <1>1 DEF PatchEvent
  <1>5. CASE UNCHANGED <<events, notes>>
    BY <1>1, <1>4, <1>5, EndStep
  <1>6. CASE /\ events' = [events EXCEPT ![e].room = job[k].room, ![e].start = job[k].start,
                                         ![e].end = job[k].end, ![e].moved = FALSE]
             /\ notes' = notes \cup {n}
    <2>1. x \in EventRow /\ x.booking = events[e].booking
      BY <1>2, <1>3 DEF EventRow
    <2>2. events' = [events EXCEPT ![e] = x]
      BY <1>2, <1>6 DEF IInv, TypeOK
    <2>3. n \in NoteRow /\ n.event = e
      BY <1>2, <1>3 DEF Note, NoteRow
    <2>4. Idle \in Job /\ JobOK(Idle) /\ Idle.pc # "attach" /\ job' = [job EXCEPT ![k] = Idle]
      BY <1>4, Rows, IdleParts DEF End
    <2> HIDE DEF e, x, n
    <2> QED BY <1>2, <1>4, <1>6, <2>1, <2>2, <2>3, <2>4, MailboxStep
  <1> QED BY <1>5, <1>6 DEF PatchEvent

\* DeleteRoomEventAsync.
LEMMA DropStep ==
    ASSUME IInv, NEW k \in Workers, DropEvent(k)
    PROVE  IInv'
  <1> DEFINE e == job[k].seen.event
             pc == IF job[k].op = "delete" THEN "remove" ELSE "link"
             j == [job[k] EXCEPT !.pc = pc]
  <1>1. /\ job[k] \in Job /\ JobOK(job[k]) /\ job[k].pc = "drop"
        /\ NotesIn(notes, events) /\ asked \subseteq DOMAIN bookings /\ faulted \in BOOLEAN
    BY TheJob DEF DropEvent
  <1>2. e \in DOMAIN events /\ e \in Nat \ {0} /\ events[e] \in EventRow
    BY <1>1, TheJob DEF JobOK, JobIn
  <1>3. job[k].id \in DOMAIN bookings
    BY <1>1 DEF JobOK, JobIn
  <1>4. Goto(k, pc) /\ UNCHANGED <<bookings, asked>> /\ faulted' \in BOOLEAN
    BY <1>1 DEF DropEvent
  <1>5. pc \in {"remove", "link"}
    OBVIOUS
  <1>6. j \in Job /\ JobOK(j) /\ j.pc = pc
    <2>1. j.pc = pc
      BY <1>1 DEF Job
    <2> HIDE DEF pc
    <2>2. pc \in {"save", "drop", "link", "patch", "remove"} /\ pc # "save"
          /\ pc \notin {"drop", "patch"}
      BY <1>5
    <2> QED BY <1>3, <2>1, <2>2, PcJob
  <1>7. CASE UNCHANGED <<events, notes>>
    <2> HIDE DEF pc
    <2> QED BY <1>1, <1>4, <1>6, <1>7, GotoStep
  <1>8. CASE events' = [events EXCEPT ![e] = GoneEvent(@)] /\ notes' = notes \cup {Deleted(e)}
    <2>1. GoneEvent(events[e]) \in EventRow /\ GoneEvent(events[e]).booking = events[e].booking
      BY <1>2, GoneEventParts
    <2>2. events' = [events EXCEPT ![e] = GoneEvent(events[e])]
      BY <1>2, <1>8
    <2>3. Deleted(e) \in NoteRow /\ Deleted(e).event = e
      BY <1>2, DeletedParts
    <2>4. job' = [job EXCEPT ![k] = j] /\ j.pc # "attach"
      BY <1>4, <1>5, <1>6 DEF Goto, IInv, TypeOK
    <2> HIDE DEF e, pc, j
    <2> QED BY <1>2, <1>4, <1>6, <1>8, <2>1, <2>2, <2>3, <2>4, MailboxStep
  <1> QED BY <1>7, <1>8 DEF DropEvent

\* DeleteBookingAsync, and a notification that an event was deleted: the row goes.
LEMMA RemoveStep ==
    ASSUME IInv, NEW k \in Workers, RemoveBooking(k)
    PROVE  IInv'
  <1>1. job[k] \in Job /\ JobOK(job[k]) /\ job[k].pc = "remove"
    BY TheJob DEF RemoveBooking
  <1>2. job[k].id \in DOMAIN bookings
    BY <1>1 DEF JobOK, JobIn
  <1>3. Gone \in BookingRow /\ ~Gone.live /\ Gone.event = 0
    BY Rows
  <1>4. /\ bookings' = [bookings EXCEPT ![job[k].id] = Gone]
        /\ UNCHANGED <<events, notes, asked, faulted>>
    BY DEF RemoveBooking
  <1>5. CASE End(k)
    <2>1. Idle \in Job /\ JobOK(Idle) /\ job' = [job EXCEPT ![k] = Idle]
      BY <1>5, Rows DEF End
    <2> QED BY <1>2, <1>3, <1>4, <2>1, KeepsRow
  <1>6. CASE NextNote(k, job[k].seen)
    <2> DEFINE j == [Idle EXCEPT !.op = "post", !.pc = "next", !.id = job[k].id,
                                 !.seen = job[k].seen, !.batch = job[k].batch,
                                 !.todo = job[k].todo]
    <2>1. j \in Job /\ JobOK(j)
      BY SeenRow, NoteJob
    <2>2. job' = [job EXCEPT ![k] = j]
      BY <1>6 DEF NextNote
    <2> HIDE DEF j
    <2> QED BY <1>2, <1>3, <1>4, <2>1, <2>2, KeepsRow
  <1> QED BY <1>5, <1>6 DEF RemoveBooking

\* The record of a POST that turns to one of its notifications is in order.
LEMMA AboutJob ==
    ASSUME IInv, NEW k \in Workers, NEW n \in job[k].todo, NEW i \in DOMAIN bookings,
           NEW pc \in {"remove", "apply", "fetch"}, About(k, n, i, pc),
           UNCHANGED <<bookings, events, notes, asked, faulted>>
    PROVE  IInv'
  <1> DEFINE read == IF job[k].id = i THEN job[k].seen ELSE bookings[i]
             j == [job[k] EXCEPT !.pc = pc, !.todo = @ \ {n}, !.id = i, !.event = n.event,
                                 !.start = n.start, !.end = n.end, !.seen = read]
  <1>1. /\ job[k] \in Job /\ JobOK(job[k])
        /\ NotesIn(notes, events) /\ asked \subseteq DOMAIN bookings /\ faulted \in BOOLEAN
        /\ read \in BookingRow /\ read.event \in DOMAIN events \cup {0} /\ i \in Nat
    BY TheJob, SeenRow
  <1>2. NotesIn(job[k].todo, events) /\ NotesIn(job[k].batch, events)
    BY <1>1 DEF JobOK, JobIn
  <1>3. /\ n \in NoteRow /\ n.event \in DOMAIN events /\ n.event \in Nat
        /\ n.start \in Times /\ n.end \in Times
    BY <1>2 DEF NotesIn, NoteRow
  <1>4. job' = [job EXCEPT ![k] = j]
    BY DEF About, IInv, TypeOK
  <1> HIDE DEF read
  <1>5. j \in Job
    BY <1>1, <1>3 DEF Job, BookingRow
  <1>6. /\ j.pc = pc /\ j.todo \subseteq job[k].todo /\ j.batch = job[k].batch
        /\ j.id = i /\ j.event = n.event /\ j.seen = read
    BY <1>1 DEF Job
  <1> HIDE DEF j
  <1>7. JobOK(j)
    BY <1>1, <1>2, <1>3, <1>6 DEF JobOK, JobIn, NotesIn
  <1> QED BY <1>1, <1>4, <1>5, <1>7, KeepsTables

\* So is that of one that passes a notification over, or books a room for it.
LEMMA SkipJob ==
    ASSUME IInv, NEW k \in Workers, NEW n \in job[k].todo, job[k].pc = "next", Skip(k, n),
           UNCHANGED <<bookings, events, notes, asked, faulted>>
    PROVE  IInv'
  <1> DEFINE j == [job[k] EXCEPT !.todo = @ \ {n}]
  <1>1. /\ job[k] \in Job /\ JobOK(job[k])
        /\ NotesIn(notes, events) /\ asked \subseteq DOMAIN bookings /\ faulted \in BOOLEAN
    BY TheJob
  <1>2. job' = [job EXCEPT ![k] = j]
    BY DEF Skip, IInv, TypeOK
  <1>3. j \in Job
    BY <1>1 DEF Job
  <1>4. /\ j.pc = "next" /\ j.todo \subseteq job[k].todo /\ j.batch = job[k].batch
        /\ j.seen = job[k].seen
    BY <1>1 DEF Job
  <1> HIDE DEF j
  <1>5. JobOK(j)
    BY <1>1, <1>4 DEF JobOK, JobIn, NotesIn
  <1> QED BY <1>1, <1>2, <1>3, <1>5, KeepsTables

\* Notifications: what was deleted, updated or created.
LEMMA NoteSteps ==
    ASSUME IInv, NEW k \in Workers, NEW n \in job[k].todo,
           NoteDeleted(k, n) \/ NoteUpdated(k, n) \/ NoteCreated(k, n)
    PROVE  IInv'
  <1>1. job[k].pc = "next" /\ UNCHANGED <<bookings, events, notes, asked, faulted>>
    BY DEF NoteDeleted, NoteUpdated, NoteCreated
  <1>2. CASE Skip(k, n)
    BY <1>1, <1>2, SkipJob
  <1>3. CASE \E i \in LinkedTo(n.event), pc \in {"remove", "apply", "fetch"} : About(k, n, i, pc)
    <2>1. PICK i \in DOMAIN bookings, pc \in {"remove", "apply", "fetch"} : About(k, n, i, pc)
      BY <1>3 DEF LinkedTo
    <2> QED BY <1>1, <2>1, AboutJob
  <1>4. CASE /\ n.room \in Rooms
             /\ job' = [job EXCEPT ![k].pc = "insert", ![k].todo = @ \ {n}, ![k].room = n.room,
                                   ![k].start = n.start, ![k].end = n.end]
    <2> DEFINE j == [job[k] EXCEPT !.pc = "insert", !.todo = @ \ {n}, !.room = n.room,
                                   !.start = n.start, !.end = n.end]
    <2>1. /\ job[k] \in Job /\ JobOK(job[k])
          /\ NotesIn(notes, events) /\ asked \subseteq DOMAIN bookings /\ faulted \in BOOLEAN
      BY TheJob
    <2>2. n.start \in Times /\ n.end \in Times
      BY <2>1 DEF JobOK, JobIn, NotesIn, NoteRow
    <2>3. job' = [job EXCEPT ![k] = j]
      BY <1>4 DEF IInv, TypeOK
    <2>4. j \in Job
      BY <1>4, <2>1, <2>2 DEF Job
    <2>5. /\ j.pc = "insert" /\ j.todo \subseteq job[k].todo /\ j.batch = job[k].batch
          /\ j.seen = job[k].seen /\ j.room \in Rooms
      BY <1>4, <2>1 DEF Job
    <2> HIDE DEF j
    <2>6. JobOK(j)
      BY <2>1, <2>5 DEF JobOK, JobIn, NotesIn
    <2> QED BY <1>1, <2>1, <2>3, <2>4, <2>6, KeepsTables
  <1> QED BY <1>2, <1>3, <1>4 DEF NoteDeleted, NoteUpdated, NoteCreated

\* GetRoomEventAsync.
LEMMA FetchStep ==
    ASSUME IInv, NEW k \in Workers, FetchEvent(k)
    PROVE  IInv'
  <1> DEFINE e == job[k].event
             j == [job[k] EXCEPT !.pc = "apply", !.start = events[e].start, !.end = events[e].end]
  <1>1. /\ job[k] \in Job /\ JobOK(job[k]) /\ job[k].pc = "fetch"
        /\ NotesIn(notes, events) /\ asked \subseteq DOMAIN bookings /\ faulted \in BOOLEAN
    BY TheJob DEF FetchEvent
  <1>2. job[k].id \in DOMAIN bookings /\ e \in DOMAIN events /\ events[e] \in EventRow
    BY <1>1, TheJob DEF JobOK, JobIn
  <1>3. UNCHANGED <<bookings, events, notes, asked>> /\ faulted' \in BOOLEAN
    BY <1>1 DEF FetchEvent
  <1>4. CASE NextNote(k, job[k].seen)
    BY <1>1, <1>3, <1>4, NextNoteStep
  <1>5. CASE job' = [job EXCEPT ![k].pc = "apply", ![k].start = events[e].start,
                                ![k].end = events[e].end]
    <2>1. job' = [job EXCEPT ![k] = j]
      BY <1>5 DEF IInv, TypeOK
    <2>2. j \in Job
      BY <1>1, <1>2 DEF Job, EventRow
    <2>3. /\ j.pc = "apply" /\ j.todo = job[k].todo /\ j.batch = job[k].batch
          /\ j.seen = job[k].seen /\ j.id = job[k].id
      BY <1>1 DEF Job
    <2> HIDE DEF j
    <2>4. JobOK(j)
      BY <1>1, <1>2, <2>3 DEF JobOK, JobIn
    <2> QED BY <1>1, <1>3, <2>1, <2>2, <2>4, KeepsTables
  <1> QED BY <1>4, <1>5 DEF FetchEvent

\* ApplyEventDataToBooking and the save: the room stays.
LEMMA ApplyStep ==
    ASSUME IInv, NEW k \in Workers, ApplyEvent(k)
    PROVE  IInv'
  <1> DEFINE j == [job[k] EXCEPT !.room = job[k].seen.room]
  <1>1. /\ job[k] \in Job /\ JobOK(job[k]) /\ job[k].pc = "apply"
        /\ NotesIn(notes, events) /\ asked \subseteq DOMAIN bookings /\ faulted \in BOOLEAN
    BY TheJob DEF ApplyEvent
  <1>2. job[k].id \in DOMAIN bookings /\ job[k].seen.room \in Rooms \cup {Elsewhere}
    BY <1>1, JobParts DEF JobOK, JobIn
  <1>3. j \in Job /\ j.room = j.seen.room /\ j.id = job[k].id
    BY <1>1, <1>2 DEF Job
  <1>4. UNCHANGED <<events, notes, asked, faulted>>
    BY DEF ApplyEvent
  <1>5. bookings' = IF bookings[j.id].live
                      THEN [bookings EXCEPT ![j.id] = Written(bookings[j.id], j)] ELSE bookings
    BY <1>2, <1>3 DEF ApplyEvent, Row, IInv, TypeOK
  <1> DEFINE saved == Written(j.seen, j)
  <1>6. saved \in BookingRow /\ saved.event \in DOMAIN events \cup {0}
    <2>1. j.seen = job[k].seen
      BY <1>1 DEF Job
    <2> QED BY <1>3, <2>1, SeenRow, WrittenRow
  <1>7. CASE End(k)
    <2>1. Idle \in Job /\ JobOK(Idle) /\ job' = [job EXCEPT ![k] = Idle]
      BY <1>7, Rows DEF End
    <2> HIDE DEF j
    <2> QED BY <1>2, <1>3, <1>4, <1>5, <2>1, WriteStep
  <1>8. CASE NextNote(k, saved)
    <2> DEFINE q == [Idle EXCEPT !.op = "post", !.pc = "next", !.id = job[k].id,
                                 !.seen = saved, !.batch = job[k].batch,
                                 !.todo = job[k].todo]
    <2>1. q \in Job /\ JobOK(q)
      BY <1>6, NoteJob
    <2>2. job' = [job EXCEPT ![k] = q]
      BY <1>8 DEF NextNote
    <2> HIDE DEF j, q, saved
    <2> QED BY <1>2, <1>3, <1>4, <1>5, <2>1, <2>2, WriteStep
  <1> QED BY <1>7, <1>8 DEF ApplyEvent

\* A POST is over; a request fails, or its host stops.
LEMMA EndSteps ==
    ASSUME IInv, NEW k \in Workers, PostEnd(k) \/ Fail(k)
    PROVE  IInv'
  <1>1. /\ job[k] \in Job /\ JobOK(job[k])
        /\ NotesIn(notes, events) /\ asked \subseteq DOMAIN bookings /\ faulted \in BOOLEAN
    BY TheJob
  <1>2. NotesIn(job[k].batch, events)
    BY <1>1 DEF JobOK, JobIn
  <1>3. /\ End(k) /\ UNCHANGED <<bookings, events, asked>> /\ faulted' \in BOOLEAN
        /\ notes' \in {notes, notes \cup job[k].batch}
    BY <1>1 DEF PostEnd, Fail
  <1>4. NotesIn(notes', events')
    BY <1>1, <1>2, <1>3 DEF NotesIn
  <1> QED BY <1>1, <1>3, <1>4, EndStep

\* People editing the mailbox make, move and delete events, none for a booking.
LEMMA OutsideStep ==
    ASSUME IInv, Outside
    PROVE  IInv'
  <1>1. /\ job \in [Workers -> Job] /\ NotesIn(notes, events)
        /\ asked \subseteq DOMAIN bookings /\ faulted \in BOOLEAN
    BY DEF IInv, TypeOK
  <1>2. ASSUME NEW r \in Rooms \cup {Elsewhere}, NEW w \in Spans, OutsideCreate(r, w)
        PROVE  IInv'
    <2> DEFINE x == [Event(r, w.start, w.end, 0) EXCEPT !.moved = TRUE]
               n == Note("created", Len(events) + 1, r, w.start, w.end)
    <2>1. w.start \in Times /\ w.end \in Times /\ Len(events) + 1 \in Nat \ {0}
      BY SpanTimes DEF IInv, TypeOK
    <2>2. x \in EventRow /\ x.booking = 0
      BY <2>1 DEF Event, EventRow
    <2>3. n \in NoteRow /\ n.event = Len(events) + 1
      BY <2>1 DEF Note, NoteRow
    <2>4. /\ events' = Append(events, x) /\ notes' = notes \cup {n}
          /\ UNCHANGED <<bookings, job, asked, faulted>>
      BY <1>2 DEF OutsideCreate
    <2> HIDE DEF x, n
    <2>5. DOMAIN events' = DOMAIN events \cup {Len(events) + 1}
      BY <2>2, <2>4 DEF IInv, TypeOK
    <2>6. NotesIn(notes', events')
      BY <1>1, <2>3, <2>4, <2>5 DEF NotesIn
    <2> QED BY <1>1, <2>2, <2>4, <2>6, AppendEvent
  <1>3. ASSUME NEW e \in DOMAIN events, NEW r \in Rooms \cup {Elsewhere}, NEW w \in Spans,
               OutsideMove(e, r, w)
        PROVE  IInv'
    <2> DEFINE x == [events[e] EXCEPT !.room = r, !.start = w.start, !.end = w.end,
                                      !.moved = @ \/ r # events[e].room]
               n == Note("updated", e, Elsewhere, w.start, w.end)
    <2>1. w.start \in Times /\ w.end \in Times /\ e \in Nat \ {0} /\ events[e] \in EventRow
      BY SpanTimes DEF IInv, TypeOK
    <2>2. x \in EventRow /\ x.booking = events[e].booking
      BY <2>1 DEF EventRow
    <2>3. n \in NoteRow /\ n.event = e
      BY <2>1 DEF Note, NoteRow
    <2>4. /\ events' = [events EXCEPT ![e] = x] /\ notes' = notes \cup {n}
          /\ UNCHANGED <<bookings, job, asked, faulted>>
      BY <1>3 DEF OutsideMove, IInv, TypeOK
    <2> HIDE DEF x, n
    <2>5. DOMAIN events' = DOMAIN events
      BY <2>4 DEF IInv, TypeOK
    <2>6. NotesIn(notes', events')
      BY <1>1, <2>3, <2>4, <2>5 DEF NotesIn
    <2> QED BY <1>1, <2>2, <2>4, <2>6, KeepsEvent
  <1>4. ASSUME NEW e \in DOMAIN events, OutsideDelete(e)
        PROVE  IInv'
    <2> DEFINE x == GoneEvent(events[e])
    <2>1. e \in Nat \ {0} /\ events[e] \in EventRow
      BY DEF IInv, TypeOK
    <2>2. x \in EventRow /\ x.booking = events[e].booking
      BY <2>1, GoneEventParts
    <2>3. Deleted(e) \in NoteRow /\ Deleted(e).event = e
      BY <2>1, DeletedParts
    <2>4. /\ events' = [events EXCEPT ![e] = x] /\ notes' = notes \cup {Deleted(e)}
          /\ UNCHANGED <<bookings, job, faulted>>
      BY <1>4 DEF OutsideDelete
    <2>5. asked' \subseteq DOMAIN bookings
      BY <1>1, <1>4 DEF OutsideDelete, IInv, EventsOK
    <2> HIDE DEF x
    <2>6. DOMAIN events' = DOMAIN events
      BY <2>4 DEF IInv, TypeOK
    <2>7. NotesIn(notes', events')
      BY <1>1, <2>3, <2>4, <2>6 DEF NotesIn
    <2> QED BY <1>1, <2>2, <2>4, <2>5, <2>7, KeepsEvent
  <1> QED BY <1>2, <1>3, <1>4 DEF Outside

-----------------------------------------------------------------------------
(* The invariant, and what follows from it.                                 *)

\* With nothing booked and nobody served, everything is in order.
LEMMA InitIInv == Init => IInv
  <1> SUFFICES ASSUME Init PROVE IInv
    OBVIOUS
  <1>1. Idle \in Job /\ JobOK(Idle)
    BY Rows
  <1>2. /\ bookings \in Seq(BookingRow) /\ events \in Seq(EventRow)
        /\ DOMAIN bookings = {} /\ DOMAIN events = {}
    BY DEF Init
  <1>3. job \in [Workers -> Job] /\ JobsOK
    BY <1>1 DEF Init, JobsOK
  <1>4. TypeOK
    BY <1>2, <1>3 DEF Init, TypeOK
  <1> QED BY <1>2, <1>3, <1>4 DEF Init, IInv, EventsOK, NotesIn, LinkedToOwn

\* Every step keeps the invariant.
LEMMA NextIInv == IInv /\ [Next]_vars => IInv'
  <1> SUFFICES ASSUME IInv, [Next]_vars PROVE IInv'
    OBVIOUS
  <1>1. ASSUME NEW k \in Workers, Request(k) PROVE IInv'
    BY <1>1, StartSteps, InsertStep, LinkSteps, SaveSteps, PatchStep, DropStep, RemoveStep
       DEF Request
  <1>2. ASSUME NEW k \in Workers, Notification(k) PROVE IInv'
    BY <1>2, StartSteps, NoteSteps, FetchStep, ApplyStep, EndSteps DEF Notification
  <1>3. ASSUME NEW k \in Workers, Fail(k) PROVE IInv'
    BY <1>3, EndSteps
  <1>4. CASE Outside
    BY <1>4, OutsideStep
  <1>5. CASE UNCHANGED vars
    BY <1>5 DEF vars, IInv, TypeOK, EventsOK, NotesIn, JobsOK, JobOK, JobIn, LinkedToOwn
  <1> QED BY <1>1, <1>2, <1>3, <1>4, <1>5 DEF Next

\* The invariant holds always.
LEMMA AlwaysIInv == Spec => []IInv
  BY InitIInv, NextIInv, PTL DEF Spec

\* Rows, events, notifications and requests are always of their types.
THEOREM BookingsTyped == Spec => []TypeOK
  <1>1. IInv => TypeOK
    BY DEF IInv
  <1> QED BY <1>1, AlwaysIInv, PTL

\* The event of a booking was made for that booking, however requests and
\* notifications overlap, calls fail and people edit the mailbox
\* (LinkCalendarEventAsync and the room moves of UpdateBookingAsync).
THEOREM BookingsLinked == Spec => []LinkedToOwn
  <1>1. IInv => LinkedToOwn
    BY DEF IInv
  <1> QED BY <1>1, AlwaysIInv, PTL

\* What is left of a booking that was deleted.
GoneRows == \A i \in DOMAIN bookings : ~bookings[i].live => bookings[i] = Gone

\* A step leaves a row as it is, deletes it, or changes one that is there; new rows
\* are there.
LEMMA TableStep ==
    ASSUME IInv, [Next]_vars
    PROVE  /\ \A i \in DOMAIN bookings :
                \/ bookings'[i] = bookings[i] \/ bookings'[i] = Gone
                \/ bookings[i].live /\ bookings'[i].live
           /\ \A i \in DOMAIN bookings' \ DOMAIN bookings : bookings'[i].live
  <1> DEFINE Good == /\ \A i \in DOMAIN bookings :
                          \/ bookings'[i] = bookings[i] \/ bookings'[i] = Gone
                          \/ bookings[i].live /\ bookings'[i].live
                     /\ \A i \in DOMAIN bookings' \ DOMAIN bookings : bookings'[i].live
  <1> SUFFICES Good
    OBVIOUS
  <1>1. CASE UNCHANGED bookings
    BY <1>1
  <1>2. ASSUME NEW k \in Workers, InsertBooking(k) PROVE Good
    <2> DEFINE b == Booking(job[k].room, job[k].start, job[k].end)
    <2>1. job[k] \in Job /\ job[k].room \in Rooms /\ job[k].start \in Times /\ job[k].end \in Times
      BY <1>2, TheJob, JobParts DEF InsertBooking, JobOK, JobIn
    <2>2. b \in BookingRow /\ b.live
      BY <2>1, Rows DEF Booking
    <2>3. bookings' = Append(bookings, b)
      BY <1>2 DEF InsertBooking
    <2> HIDE DEF b
    <2>4. /\ \A i \in DOMAIN bookings : bookings'[i] = bookings[i]
          /\ \A i \in DOMAIN bookings' \ DOMAIN bookings : bookings'[i] = b
      BY <2>2, <2>3 DEF IInv, TypeOK
    <2> QED BY <2>2, <2>4
  <1>3. ASSUME NEW k \in Workers, AttachEvent(k) PROVE Good
    <2>1. CASE Row(k).live
      BY <1>3, <2>1, TheJob DEF AttachEvent, Row, BookingRow
    <2>2. CASE ~Row(k).live
      BY <1>3, <2>2 DEF AttachEvent
    <2> QED BY <2>1, <2>2
  <1>4. ASSUME NEW k \in Workers, NEW j \in Job, NEW n \in DOMAIN bookings,
               bookings' = IF bookings[n].live THEN [bookings EXCEPT ![n] = Written(bookings[n], j)]
                           ELSE bookings
        PROVE  Good
    BY <1>4, TheJob, WrittenRow
  <1>5. ASSUME NEW k \in Workers, SaveUpdate(k) PROVE Good
    <2>1. job[k] \in Job /\ job[k].id \in DOMAIN bookings
      BY <1>5, TheJob DEF SaveUpdate, JobOK, JobIn
    <2>2. bookings' = IF bookings[job[k].id].live
                        THEN [bookings EXCEPT ![job[k].id] = Written(bookings[job[k].id], job[k])]
                        ELSE bookings
      BY <1>5, <2>1 DEF SaveUpdate, Row, IInv, TypeOK
    <2> HIDE DEF Good
    <2> QED BY <1>4, <2>1, <2>2
  <1>6. ASSUME NEW k \in Workers, ApplyEvent(k) PROVE Good
    <2> DEFINE j == [job[k] EXCEPT !.room = job[k].seen.room]
    <2>1. job[k] \in Job /\ job[k].id \in DOMAIN bookings
      BY <1>6, TheJob DEF ApplyEvent, JobOK, JobIn
    <2>2. j \in Job /\ j.id = job[k].id
      BY <2>1, JobParts DEF Job
    <2>3. bookings' = IF bookings[j.id].live
                        THEN [bookings EXCEPT ![j.id] = Written(bookings[j.id], j)] ELSE bookings
      BY <1>6, <2>1, <2>2 DEF ApplyEvent, Row, IInv, TypeOK
    <2> HIDE DEF Good, j
    <2> QED BY <1>4, <2>1, <2>2, <2>3
  <1>7. ASSUME NEW k \in Workers, RemoveBooking(k) PROVE Good
    BY <1>7, TheJob DEF RemoveBooking
  <1>8. ASSUME NEW k \in Workers, Request(k) \/ Notification(k) \/ Fail(k) PROVE Good
    <2>1. \/ UNCHANGED bookings
          \/ InsertBooking(k) \/ AttachEvent(k) \/ SaveUpdate(k) \/ ApplyEvent(k)
          \/ RemoveBooking(k)
      BY <1>8 DEF Request, Notification, Fail, CreateBooking, UpdateBooking, DeleteBooking,
         CreateEvent, CheckUpdate, PatchEvent, DropEvent, Post, NoteDeleted, NoteUpdated,
         NoteCreated, FetchEvent, PostEnd
    <2> HIDE DEF Good
    <2> QED BY <1>1, <1>2, <1>3, <1>5, <1>6, <1>7, <2>1
  <1>9. CASE Outside
    <2>1. UNCHANGED bookings
      BY <1>9 DEF Outside, OutsideCreate, OutsideMove, OutsideDelete
    <2> QED BY <1>1, <2>1
  <1>10. CASE UNCHANGED vars
    BY <1>1, <1>10 DEF vars
  <1> HIDE DEF Good
  <1> QED BY <1>8, <1>9, <1>10 DEF Next

\* A booking that was cancelled stays as it was cancelled: neither an update that
\* read it before, nor a notification about its event, brings any of it back.
THEOREM BookingsStayCancelled == Spec => CancelledStaysCancelled
  <1>1. Init => GoneRows
    BY DEF Init, GoneRows
  <1>2. IInv /\ GoneRows /\ [Next]_vars => GoneRows'
    BY TableStep DEF GoneRows
  <1>3. IInv /\ GoneRows /\ [Next]_vars =>
           [\A i \in DOMAIN bookings : ~bookings[i].live => bookings'[i] = bookings[i]]_vars
    <2> SUFFICES ASSUME IInv, GoneRows, [Next]_vars
                 PROVE  \A i \in DOMAIN bookings :
                            ~bookings[i].live => bookings'[i] = bookings[i]
      OBVIOUS
    <2> QED BY TableStep DEF GoneRows
  <1> QED BY <1>1, <1>2, <1>3, AlwaysIInv, PTL DEF Spec, CancelledStaysCancelled

-----------------------------------------------------------------------------
(* One request at a time.                                                   *)

\* Which operation is at which call.
OpOK(j) ==
    /\ j.pc = "idle" => j.op = "none"
    /\ j.pc \in {"conflict", "save", "patch"} => j.op = "update"
    /\ j.pc = "drop" => j.op \in {"update", "delete"}
    /\ j.pc = "remove" => j.op \in {"delete", "post"}
    /\ j.pc = "insert" => j.op \in {"create", "post"}
    /\ j.pc \in {"link", "attach"} => j.op \in {"create", "update"}
    /\ j.pc \in {"next", "fetch", "apply"} => j.op = "post"

\* The calls that are about a booking.
OfBooking == {"conflict", "save", "drop", "link", "attach", "patch", "remove", "fetch", "apply"}

\* The booking a request is about is in the table as the request read it, or wrote it.
ReadOK(j) ==
    /\ j.pc \in OfBooking => j.id \in DOMAIN bookings /\ bookings[j.id].live
    /\ j.op = "post" /\ j.id # 0 => /\ j.id \in DOMAIN bookings
                                    /\ bookings[j.id].live => j.seen = bookings[j.id]
    /\ j.pc \in {"conflict", "save"} => j.seen = bookings[j.id]
    /\ j.op = "delete" => j.seen = bookings[j.id]
    /\ j.op = "create" => j.seen.event = 0
    /\ j.pc \in {"link", "attach", "patch"} \/ (j.op = "update" /\ j.pc = "drop") =>
         /\ bookings[j.id].room = j.room /\ bookings[j.id].event = j.seen.event

ReadInv == \A k \in Workers : OpOK(job[k]) /\ ReadOK(job[k])

\* A row, an event or a request says a time that starts before it ends, or one at
\* which people put events of no length.
Proper(x) == x.start < x.end \/ (x.start = x.end /\ x.start \in Instants)

NotesProper(set) == \A n \in set : n.kind # "deleted" => Proper(n)

\* The times a request works with are proper too, and those it is to handle.
WindowOK(j) ==
    /\ NotesProper(j.batch) /\ NotesProper(j.todo)
    /\ j.pc \in {"insert", "conflict", "save", "link", "patch", "apply"} => Proper(j)
    /\ j.pc = "drop" /\ j.op = "update" => Proper(j)

WindowsInv ==
    /\ WindowsValid
    /\ \A e \in DOMAIN events : events[e].live => Proper(events[e])
    /\ NotesProper(notes)
    /\ \A k \in Workers : WindowOK(job[k])

\* What the only web request is about to write is free.
FreeOK(j) ==
    /\ j.pc = "insert" /\ j.op = "create" => ~HasConflict(j.room, j, 0)
    /\ j.pc = "save" => ~HasConflict(j.room, j, j.id)

FreeInv == \A k \in Workers : FreeOK(job[k])

\* A notification of a deletion is of an event that is gone.
NotesTrue(set, mailbox) ==
    \A n \in set : n.kind = "deleted" => ~mailbox[n.event].live /\ n = Deleted(n.event)

\* What the only request relies on about events.
EventOK(j) ==
    /\ NotesTrue(j.batch, events) /\ NotesTrue(j.todo, events)
    /\ j.op # "post" => j.todo = {}
    /\ j.op = "delete" => j.id \in asked
    /\ j.op = "update" /\ j.pc \in {"link", "attach", "drop", "patch"} => j.seen.event # 0
    /\ j.op = "update" /\ j.pc \in {"link", "attach"} /\ ~faulted => ~events[j.seen.event].live
    /\ j.op = "delete" /\ j.pc = "remove" /\ ~faulted =>
         j.seen.event = 0 \/ ~events[j.seen.event].live
    /\ j.op = "post" /\ j.pc = "remove" =>
         bookings[j.id].event = j.event /\ j.event # 0 /\ ~events[j.event].live
    /\ j.pc = "patch" => j.room = j.seen.room
    /\ j.pc = "attach" /\ ~faulted =>
         IF events[j.event].live THEN events[j.event].room = j.room \/ events[j.event].moved
         ELSE j.id \in asked /\ Deleted(j.event) \in notes

\* An event Bookify made has its booking, or the only request is about to see to it.
Owned(e, j) == Tagged(e) => LinkedTo(e) # {} \/ (j.pc = "attach" /\ j.event = e)

\* The event of a booking is in its room, unless people moved it to another, or
\* someone deleted one of them and the notification is on its way, or the only
\* request is about to see to it.
Matched(i, j) ==
    LET e == bookings[i].event IN
    bookings[i].live /\ e # 0 =>
        IF events[e].live
          THEN \/ events[e].room = bookings[i].room
               \/ events[e].moved
               \/ j.op = "update" /\ j.pc = "drop" /\ j.id = i
          ELSE /\ \/ Deleted(e) \in notes \cup j.todo
                  \/ j.pc = "remove" /\ j.id = i
               /\ \/ i \in asked
                  \/ j.op = "update" /\ j.pc \in {"link", "attach"} /\ j.id = i

EventsInv ==
    /\ NotesTrue(notes, events)
    /\ \A k \in Workers : EventOK(job[k])
    /\ ~faulted => \A k \in Workers : /\ \A e \in DOMAIN events : Owned(e, job[k])
                                     /\ \A i \in DOMAIN bookings : Matched(i, job[k])
    /\ KeptUnlessAsked

-----------------------------------------------------------------------------
(* What the steps do to the record of a request.                            *)

\* The same request at another call.
Kept(h, j) ==
    /\ h.op = j.op /\ h.id = j.id /\ h.room = j.room /\ h.start = j.start /\ h.end = j.end
    /\ h.event = j.event /\ h.seen = j.seen /\ h.batch = j.batch /\ h.todo = j.todo

LEMMA GotoEffect ==
    ASSUME IInv, NEW k \in Workers, NEW pc, Goto(k, pc)
    PROVE  job'[k].pc = pc /\ Kept(job'[k], job[k])
  <1>1. job[k] \in Job /\ job'[k] = [job[k] EXCEPT !.pc = pc]
    BY DEF Goto, IInv, TypeOK
  <1> QED BY <1>1 DEF Job, Kept

LEMMA EndEffect ==
    ASSUME IInv, NEW k \in Workers, End(k)
    PROVE  job'[k] = Idle
  BY DEF End, IInv, TypeOK

LEMMA IdleIs ==
    /\ Idle.op = "none" /\ Idle.pc = "idle" /\ Idle.id = 0 /\ Idle.seen.event = 0
    /\ Idle.batch = {} /\ Idle.todo = {}
  BY DEF Idle, Booking

LEMMA NextNoteEffect ==
    ASSUME IInv, NEW k \in Workers, NEW read, NextNote(k, read)
    PROVE  /\ job'[k].op = "post" /\ job'[k].pc = "next" /\ job'[k].id = job[k].id
           /\ job'[k].seen = read /\ job'[k].batch = job[k].batch /\ job'[k].todo = job[k].todo
  BY DEF NextNote, Idle, IInv, TypeOK

LEMMA AboutEffect ==
    ASSUME IInv, NEW k \in Workers, NEW n, NEW i, NEW pc, About(k, n, i, pc)
    PROVE  /\ job'[k].op = job[k].op /\ job'[k].pc = pc /\ job'[k].id = i
           /\ job'[k].event = n.event /\ job'[k].start = n.start /\ job'[k].end = n.end
           /\ job'[k].seen = (IF job[k].id = i THEN job[k].seen ELSE bookings[i])
           /\ job'[k].batch = job[k].batch /\ job'[k].todo = job[k].todo \ {n}
  <1>1. job[k] \in Job
    BY DEF IInv, TypeOK
  <1> QED BY <1>1 DEF About, Job, IInv, TypeOK

LEMMA SkipEffect ==
    ASSUME IInv, NEW k \in Workers, NEW n, Skip(k, n)
    PROVE  /\ job'[k].op = job[k].op /\ job'[k].pc = job[k].pc /\ job'[k].id = job[k].id
           /\ job'[k].seen = job[k].seen
           /\ job'[k].batch = job[k].batch /\ job'[k].todo = job[k].todo \ {n}
  <1>1. job[k] \in Job
    BY DEF IInv, TypeOK
  <1> QED BY <1>1 DEF Skip, Job, IInv, TypeOK

\* A row is written as the request says when the request has read it as it is.
LEMMA WrittenAsAsked ==
    ASSUME NEW row \in BookingRow, NEW j \in Job, j.seen = row
    PROVE  /\ Written(row, j) \in BookingRow
           /\ Written(row, j).room = j.room /\ Written(row, j).start = j.start
           /\ Written(row, j).end = j.end
           /\ Written(row, j).event = row.event /\ Written(row, j).live = row.live
  BY JobParts DEF Written, BookingRow

\* The only request and what it has read.
LEMMA TheRead ==
    ASSUME IInv, ReadInv, NEW k \in Workers
    PROVE  /\ job[k] \in Job /\ JobOK(job[k]) /\ OpOK(job[k]) /\ ReadOK(job[k])
           /\ job[k].seen \in BookingRow
           /\ job[k].pc \in OfBooking => /\ job[k].id \in DOMAIN bookings
                                         /\ bookings[job[k].id] \in BookingRow
                                         /\ bookings[job[k].id].live
  BY TheJob, JobParts DEF ReadInv, ReadOK

\* Web requests that start.
LEMMA CreateEffect ==
    ASSUME IInv, NEW k \in Workers, NEW r, NEW w, CreateBooking(k, r, w)
    PROVE  /\ job[k].pc = "idle" /\ job[k].op = "none"
           /\ job'[k].op = "create" /\ job'[k].pc = "insert" /\ job'[k].room = r
           /\ job'[k].start = w.start /\ job'[k].end = w.end /\ job'[k].seen.event = 0
           /\ job'[k].batch = {} /\ job'[k].todo = {}
           /\ UNCHANGED <<bookings, events, notes, asked, faulted>>
  <1>1. job[k].pc = "idle" /\ job[k].op = "none"
    <2>1. job[k] = Idle
      BY DEF CreateBooking
    <2> QED BY <2>1, IdleIs
  <1> QED BY <1>1 DEF CreateBooking, Idle, Booking, IInv, TypeOK

LEMMA UpdateEffect ==
    ASSUME IInv, NEW k \in Workers, NEW i, NEW r, NEW w, UpdateBooking(k, i, r, w)
    PROVE  /\ job[k].pc = "idle" /\ job[k].op = "none"
           /\ job'[k].op = "update" /\ job'[k].pc = "conflict" /\ job'[k].id = i
           /\ job'[k].room = r /\ job'[k].start = w.start /\ job'[k].end = w.end
           /\ job'[k].seen = bookings[i] /\ job'[k].batch = {} /\ job'[k].todo = {}
           /\ bookings[i].live
           /\ UNCHANGED <<bookings, events, notes, asked, faulted>>
  <1>1. job[k].pc = "idle" /\ job[k].op = "none"
    <2>1. job[k] = Idle
      BY DEF UpdateBooking
    <2> QED BY <2>1, IdleIs
  <1> QED BY <1>1 DEF UpdateBooking, Idle, IInv, TypeOK

LEMMA DeleteEffect ==
    ASSUME IInv, NEW k \in Workers, NEW i, DeleteBooking(k, i)
    PROVE  /\ job[k].pc = "idle" /\ job[k].op = "none"
           /\ job'[k].op = "delete" /\ job'[k].id = i /\ job'[k].seen = bookings[i]
           /\ job'[k].pc = IF bookings[i].event = 0 THEN "remove" ELSE "drop"
           /\ job'[k].batch = {} /\ job'[k].todo = {}
           /\ bookings[i].live /\ asked' = asked \cup {i}
           /\ UNCHANGED <<bookings, events, notes, faulted>>
  <1>1. job[k].pc = "idle" /\ job[k].op = "none"
    <2>1. job[k] = Idle
      BY DEF DeleteBooking
    <2> QED BY <2>1, IdleIs
  <1> QED BY <1>1 DEF DeleteBooking, Idle, IInv, TypeOK

\* A POST that starts.
LEMMA PostEffect ==
    ASSUME IInv, NEW k \in Workers, NEW batch, Post(k, batch)
    PROVE  /\ job[k].pc = "idle" /\ job[k].op = "none"
           /\ job'[k].op = "post" /\ job'[k].pc = "next" /\ job'[k].id = 0
           /\ job'[k].batch = batch /\ job'[k].todo = batch /\ notes' = notes \ batch
           /\ UNCHANGED <<bookings, events, asked, faulted>>
  <1>1. job[k].pc = "idle" /\ job[k].op = "none"
    <2>1. job[k] = Idle
      BY DEF Post
    <2> QED BY <2>1, IdleIs
  <1> QED BY <1>1 DEF Post, Idle, IInv, TypeOK

\* A row is added.
LEMMA InsertEffect ==
    ASSUME IInv, NEW k \in Workers, InsertBooking(k)
    PROVE  LET n == Len(bookings) + 1 IN
           /\ DOMAIN bookings' = DOMAIN bookings \cup {n} /\ n \notin DOMAIN bookings
           /\ \A i \in DOMAIN bookings : bookings'[i] = bookings[i]
           /\ bookings'[n] = Booking(job[k].room, job[k].start, job[k].end)
           /\ UNCHANGED <<events, notes, asked, faulted>>
           /\ job[k].op = "create" =>
                /\ job'[k].op = "create" /\ job'[k].pc = "link" /\ job'[k].id = n
                /\ job'[k].room = job[k].room /\ job'[k].start = job[k].start
                /\ job'[k].end = job[k].end /\ job'[k].seen = job[k].seen
                /\ job'[k].batch = job[k].batch /\ job'[k].todo = job[k].todo
           /\ job[k].op # "create" => NextNote(k, job[k].seen)
  <1> DEFINE b == Booking(job[k].room, job[k].start, job[k].end)
  <1>1. job[k] \in Job /\ JobOK(job[k])
    BY TheJob
  <1>2. b \in BookingRow
    BY <1>1, JobParts, Rows DEF InsertBooking, JobOK, JobIn
  <1>3. /\ bookings' = Append(bookings, b) /\ bookings \in Seq(BookingRow)
        /\ UNCHANGED <<events, notes, asked, faulted>>
    BY DEF InsertBooking, IInv, TypeOK
  <1>4. job[k].op = "create" =>
                /\ job'[k].op = "create" /\ job'[k].pc = "link" /\ job'[k].id = Len(bookings) + 1
                /\ job'[k].room = job[k].room /\ job'[k].start = job[k].start
                /\ job'[k].end = job[k].end /\ job'[k].seen = job[k].seen
                /\ job'[k].batch = job[k].batch /\ job'[k].todo = job[k].todo
    BY <1>1 DEF InsertBooking, Job, IInv, TypeOK
  <1>5. job[k].op # "create" => NextNote(k, job[k].seen)
    BY DEF InsertBooking
  <1> HIDE DEF b
  <1>6. LET n == Len(bookings) + 1 IN
           /\ DOMAIN bookings' = DOMAIN bookings \cup {n} /\ n \notin DOMAIN bookings
           /\ \A i \in DOMAIN bookings : bookings'[i] = bookings[i]
           /\ bookings'[n] = b
    BY <1>2, <1>3
  <1> QED BY <1>3, <1>4, <1>5, <1>6 DEF b

\* CreateEventAsync made an event, and its id came back, or not.
LEMMA CreateEventEffect ==
    ASSUME IInv, NEW k \in Workers, CreateEvent(k)
    PROVE  LET n == Len(events) + 1 IN
           /\ UNCHANGED <<bookings, asked>>
           /\ \/ /\ DOMAIN events' = DOMAIN events \cup {n} /\ n \notin DOMAIN events /\ n # 0
                 /\ \A e \in DOMAIN events : events'[e] = events[e]
                 /\ events'[n] = Event(job[k].room, job[k].start, job[k].end, job[k].id)
                 /\ notes' = notes \cup {Note("created", n, Elsewhere, job[k].start, job[k].end)}
                 /\ \/ /\ UNCHANGED faulted /\ job'[k].op = job[k].op /\ job'[k].pc = "attach"
                       /\ job'[k].event = n /\ job'[k].id = job[k].id
                       /\ job'[k].room = job[k].room /\ job'[k].start = job[k].start
                       /\ job'[k].end = job[k].end /\ job'[k].seen = job[k].seen
                       /\ job'[k].batch = job[k].batch /\ job'[k].todo = job[k].todo
                    \/ faulted' = TRUE /\ End(k)
              \/ UNCHANGED <<events, notes>> /\ faulted' = TRUE /\ End(k)
  <1> DEFINE n == Len(events) + 1
             x == Event(job[k].room, job[k].start, job[k].end, job[k].id)
  <1>1. job[k] \in Job
    BY TheJob
  <1>2. UNCHANGED <<bookings, asked>>
    BY DEF CreateEvent
  <1>3. CASE UNCHANGED <<events, notes>> /\ faulted' = TRUE /\ End(k)
    BY <1>2, <1>3
  <1>4. CASE /\ events' = Append(events, x)
             /\ notes' = notes \cup {Note("created", n, Elsewhere, job[k].start, job[k].end)}
             /\ \/ /\ job' = [job EXCEPT ![k].pc = "attach", ![k].event = n]
                   /\ UNCHANGED faulted
                \/ End(k) /\ faulted' = TRUE
    <2>1. x \in EventRow
      BY <1>1, JobParts DEF Event, EventRow
    <2> HIDE DEF x
    <2>2. /\ DOMAIN events' = DOMAIN events \cup {n} /\ n \notin DOMAIN events /\ n # 0
          /\ \A e \in DOMAIN events : events'[e] = events[e]
          /\ events'[n] = x
      BY <1>4, <2>1 DEF IInv, TypeOK
    <2> HIDE DEF n
    <2>3. CASE job' = [job EXCEPT ![k].pc = "attach", ![k].event = n] /\ UNCHANGED faulted
      <3>1. /\ job'[k].op = job[k].op /\ job'[k].pc = "attach"
            /\ job'[k].event = n /\ job'[k].id = job[k].id
            /\ job'[k].room = job[k].room /\ job'[k].start = job[k].start
            /\ job'[k].end = job[k].end /\ job'[k].seen = job[k].seen
            /\ job'[k].batch = job[k].batch /\ job'[k].todo = job[k].todo
        BY <1>1, <2>3 DEF Job, IInv, TypeOK
      <3> QED BY <1>2, <1>4, <2>2, <2>3, <3>1 DEF n, x
    <2>4. CASE End(k) /\ faulted' = TRUE
      BY <1>2, <1>4, <2>2, <2>4 DEF n, x
    <2> QED BY <1>4, <2>3, <2>4
  <1> QED BY <1>3, <1>4 DEF CreateEvent

\* The row of the request's booking gets the event.
LEMMA AttachEffect ==
    ASSUME IInv, ReadInv, NEW k \in Workers, AttachEvent(k)
    PROVE  LET i == job[k].id IN
           /\ i \in DOMAIN bookings /\ DOMAIN bookings' = DOMAIN bookings
           /\ \A x \in DOMAIN bookings : x # i => bookings'[x] = bookings[x]
           /\ bookings'[i] = [bookings[i] EXCEPT !.event = job[k].event]
           /\ bookings'[i].room = bookings[i].room /\ bookings'[i].start = bookings[i].start
           /\ bookings'[i].end = bookings[i].end /\ bookings'[i].live
           /\ bookings'[i].event = job[k].event
           /\ job'[k] = Idle
           /\ UNCHANGED <<events, notes, asked, faulted>>
  <1> DEFINE i == job[k].id
  <1>1. i \in DOMAIN bookings /\ bookings[i] \in BookingRow /\ bookings[i].live
    BY TheRead DEF AttachEvent, OfBooking
  <1>2. bookings' = [bookings EXCEPT ![i].event = job[k].event]
    BY <1>1 DEF AttachEvent, Row
  <1>3. job'[k] = Idle
    BY EndEffect DEF AttachEvent
  <1>4. UNCHANGED <<events, notes, asked, faulted>>
    BY DEF AttachEvent
  <1> HIDE DEF i
  <1>5. /\ DOMAIN bookings' = DOMAIN bookings
        /\ \A x \in DOMAIN bookings : x # i => bookings'[x] = bookings[x]
        /\ bookings'[i] = [bookings[i] EXCEPT !.event = job[k].event]
    BY <1>1, <1>2
  <1>6. /\ bookings'[i].room = bookings[i].room /\ bookings'[i].start = bookings[i].start
        /\ bookings'[i].end = bookings[i].end /\ bookings'[i].live
        /\ bookings'[i].event = job[k].event
    BY <1>1, <1>5 DEF BookingRow
  <1> QED BY <1>1, <1>3, <1>4, <1>5, <1>6 DEF i

\* The row of the booking is as the request says, because it was as the request had read it.
LEMMA SaveEffect ==
    ASSUME IInv, ReadInv, NEW k \in Workers, SaveUpdate(k)
    PROVE  LET i == job[k].id IN
           /\ i \in DOMAIN bookings /\ DOMAIN bookings' = DOMAIN bookings
           /\ \A x \in DOMAIN bookings : x # i => bookings'[x] = bookings[x]
           /\ bookings'[i].room = job[k].room /\ bookings'[i].start = job[k].start
           /\ bookings'[i].end = job[k].end /\ bookings'[i].live
           /\ bookings'[i].event = bookings[i].event
           /\ \/ job[k].seen.event # 0 /\ Goto(k, AfterSave(job[k]))
              \/ job[k].seen.event = 0 /\ End(k)
           /\ UNCHANGED <<events, notes, asked, faulted>>
  <1> DEFINE i == job[k].id
             r == Written(bookings[i], job[k])
  <1>1. /\ i \in DOMAIN bookings /\ bookings[i] \in BookingRow /\ bookings[i].live
        /\ job[k] \in Job /\ job[k].seen = bookings[i]
    BY TheRead DEF SaveUpdate, OfBooking, ReadOK
  <1>2. /\ r.room = job[k].room /\ r.start = job[k].start /\ r.end = job[k].end
        /\ r.event = bookings[i].event /\ r.live
    BY <1>1, WrittenAsAsked
  <1>3. bookings' = [bookings EXCEPT ![i] = r]
    BY <1>1 DEF SaveUpdate, Row
  <1>4. UNCHANGED <<events, notes, asked, faulted>>
    BY DEF SaveUpdate
  <1>5. \/ job[k].seen.event # 0 /\ Goto(k, AfterSave(job[k]))
        \/ job[k].seen.event = 0 /\ End(k)
    BY <1>1 DEF SaveUpdate, Row
  <1> HIDE DEF i, r
  <1>6. /\ DOMAIN bookings' = DOMAIN bookings
        /\ \A x \in DOMAIN bookings : x # i => bookings'[x] = bookings[x]
        /\ bookings'[i] = r
    BY <1>1, <1>3
  <1> QED BY <1>1, <1>2, <1>4, <1>5, <1>6 DEF i

\* The same for the times of a notification; the room stays.
LEMMA ApplyEffect ==
    ASSUME IInv, ReadInv, NEW k \in Workers, ApplyEvent(k)
    PROVE  LET i == job[k].id IN
           /\ i \in DOMAIN bookings /\ DOMAIN bookings' = DOMAIN bookings
           /\ \A x \in DOMAIN bookings : x # i => bookings'[x] = bookings[x]
           /\ bookings'[i].room = bookings[i].room /\ bookings'[i].start = job[k].start
           /\ bookings'[i].end = job[k].end /\ bookings'[i].live
           /\ bookings'[i].event = bookings[i].event
           /\ NextNote(k, bookings'[i])
           /\ UNCHANGED <<events, notes, asked, faulted>>
  <1> DEFINE i == job[k].id
             j == [job[k] EXCEPT !.room = job[k].seen.room]
             r == Written(bookings[i], j)
  <1>1. /\ i \in DOMAIN bookings /\ bookings[i] \in BookingRow /\ bookings[i].live /\ i # 0
        /\ job[k] \in Job /\ job[k].seen = bookings[i]
    BY TheRead, TheJob DEF ApplyEvent, OfBooking, ReadOK, OpOK
  <1>2. /\ j \in Job /\ j.seen = bookings[i] /\ j.room = bookings[i].room
        /\ j.start = job[k].start /\ j.end = job[k].end /\ j.id = i
    BY <1>1, JobParts DEF Job
  <1>3. /\ r.room = bookings[i].room /\ r.start = job[k].start /\ r.end = job[k].end
        /\ r.event = bookings[i].event /\ r.live
    BY <1>1, <1>2, WrittenAsAsked
  <1>4. bookings' = [bookings EXCEPT ![i] = r]
    BY <1>1, <1>2 DEF ApplyEvent, Row
  <1>5. UNCHANGED <<events, notes, asked, faulted>> /\ NextNote(k, r)
    BY <1>1, <1>2 DEF ApplyEvent, Row
  <1> HIDE DEF i, r, j
  <1>6. /\ DOMAIN bookings' = DOMAIN bookings
        /\ \A x \in DOMAIN bookings : x # i => bookings'[x] = bookings[x]
        /\ bookings'[i] = r
    BY <1>1, <1>4
  <1> QED BY <1>1, <1>3, <1>5, <1>6 DEF i

\* The row of the booking goes.
LEMMA RemoveEffect ==
    ASSUME IInv, ReadInv, NEW k \in Workers, RemoveBooking(k)
    PROVE  LET i == job[k].id IN
           /\ i \in DOMAIN bookings /\ DOMAIN bookings' = DOMAIN bookings
           /\ \A x \in DOMAIN bookings : x # i => bookings'[x] = bookings[x]
           /\ bookings'[i] = Gone
           /\ \/ job[k].op = "post" /\ NextNote(k, job[k].seen)
              \/ job[k].op = "delete" /\ End(k)
           /\ UNCHANGED <<events, notes, asked, faulted>>
  <1> DEFINE i == job[k].id
  <1>1. i \in DOMAIN bookings /\ bookings[i].live /\ job[k].op \in {"post", "delete"}
    BY TheRead DEF RemoveBooking, OfBooking, OpOK
  <1>2. /\ bookings' = [bookings EXCEPT ![i] = Gone]
        /\ UNCHANGED <<events, notes, asked, faulted>>
    BY DEF RemoveBooking
  <1>3. \/ job[k].op = "post" /\ NextNote(k, job[k].seen)
        \/ job[k].op = "delete" /\ End(k)
    BY <1>1 DEF RemoveBooking, Row
  <1>4. bookings'[i] = Gone /\ DOMAIN bookings' = DOMAIN bookings
        /\ \A x \in DOMAIN bookings : x # i => bookings'[x] = bookings[x]
    BY <1>1, <1>2
  <1> QED BY <1>1, <1>2, <1>3, <1>4

\* An event that is written keeps its booking; the others stay.
LEMMA WriteEvent ==
    ASSUME IInv, NEW e \in DOMAIN events, NEW x \in EventRow,
           events' = [events EXCEPT ![e] = x]
    PROVE  /\ DOMAIN events' = DOMAIN events /\ events'[e] = x
           /\ \A y \in DOMAIN events : y # e => events'[y] = events[y]
  BY DEF IInv, TypeOK

\* What is left of an event that was deleted.
LEMMA GoneEventIs ==
    \A e \in EventRow : /\ GoneEvent(e) \in EventRow /\ ~GoneEvent(e).live
                        /\ GoneEvent(e).booking = e.booking
  BY GoneEventParts DEF GoneEvent, Event

\* The event is moved to where and when the booking is.
LEMMA PatchEffect ==
    ASSUME IInv, NEW k \in Workers, PatchEvent(k)
    PROVE  LET e == job[k].seen.event IN
           /\ job'[k] = Idle /\ UNCHANGED <<bookings, asked>>
           /\ \/ /\ e \in DOMAIN events /\ DOMAIN events' = DOMAIN events
                 /\ \A y \in DOMAIN events : y # e => events'[y] = events[y]
                 /\ events[e].live /\ events'[e].live /\ events'[e].booking = events[e].booking
                 /\ events'[e].room = job[k].room
                 /\ events'[e].start = job[k].start /\ events'[e].end = job[k].end
                 /\ notes' = notes \cup {Note("updated", e, Elsewhere, job[k].start, job[k].end)}
                 /\ UNCHANGED faulted
              \/ UNCHANGED <<events, notes, faulted>>
              \/ UNCHANGED <<events, notes>> /\ faulted' = TRUE
  <1> DEFINE e == job[k].seen.event
             x == [events[e] EXCEPT !.room = job[k].room, !.start = job[k].start,
                                    !.end = job[k].end, !.moved = FALSE]
  <1>1. job[k] \in Job /\ e \in DOMAIN events /\ events[e] \in EventRow
    BY TheJob DEF PatchEvent, JobOK, JobIn
  <1>2. /\ x \in EventRow /\ x.live = events[e].live /\ x.booking = events[e].booking
        /\ x.room = job[k].room /\ x.start = job[k].start /\ x.end = job[k].end
    BY <1>1, JobParts DEF EventRow
  <1>3. job'[k] = Idle /\ UNCHANGED <<bookings, asked>>
    BY EndEffect DEF PatchEvent
  <1>4. CASE /\ Tagged(e)
             /\ events' = [events EXCEPT ![e].room = job[k].room, ![e].start = job[k].start,
                                        ![e].end = job[k].end, ![e].moved = FALSE]
             /\ notes' = notes \cup {Note("updated", e, Elsewhere, job[k].start, job[k].end)}
             /\ UNCHANGED faulted
    <2>1. events' = [events EXCEPT ![e] = x]
      BY <1>1, <1>4 DEF IInv, TypeOK
    <2> HIDE DEF x, e
    <2>2. /\ DOMAIN events' = DOMAIN events /\ events'[e] = x
          /\ \A y \in DOMAIN events : y # e => events'[y] = events[y]
      BY <1>1, <1>2, <2>1, WriteEvent
    <2> QED BY <1>1, <1>2, <1>3, <1>4, <2>2 DEF Tagged, e
  <1> QED BY <1>3, <1>4 DEF PatchEvent

\* The event is deleted, if it is Bookify's and the call works.
LEMMA DropEffect ==
    ASSUME IInv, NEW k \in Workers, DropEvent(k)
    PROVE  LET e == job[k].seen.event IN
           /\ UNCHANGED <<bookings, asked>> /\ e \in DOMAIN events
           /\ job'[k].pc = (IF job[k].op = "delete" THEN "remove" ELSE "link")
           /\ Kept(job'[k], job[k])
           /\ \/ /\ DOMAIN events' = DOMAIN events
                 /\ \A y \in DOMAIN events : y # e => events'[y] = events[y]
                 /\ ~events'[e].live /\ events'[e].booking = events[e].booking
                 /\ notes' = notes \cup {Deleted(e)} /\ UNCHANGED faulted
              \/ ~Tagged(e) /\ UNCHANGED <<events, notes, faulted>>
              \/ UNCHANGED <<events, notes>> /\ faulted' = TRUE
  <1> DEFINE e == job[k].seen.event
  <1>1. job[k] \in Job /\ e \in DOMAIN events /\ events[e] \in EventRow
    BY TheJob DEF DropEvent, JobOK, JobIn
  <1>2. UNCHANGED <<bookings, asked>>
    BY DEF DropEvent
  <1>3. /\ job'[k].pc = (IF job[k].op = "delete" THEN "remove" ELSE "link")
        /\ Kept(job'[k], job[k])
    BY GotoEffect DEF DropEvent
  <1>4. CASE /\ events' = [events EXCEPT ![e] = GoneEvent(@)]
             /\ notes' = notes \cup {Deleted(e)} /\ UNCHANGED faulted
    <2>1. GoneEvent(events[e]) \in EventRow /\ events' = [events EXCEPT ![e] = GoneEvent(events[e])]
      BY <1>1, <1>4, GoneEventIs
    <2>2. /\ DOMAIN events' = DOMAIN events /\ events'[e] = GoneEvent(events[e])
          /\ \A y \in DOMAIN events : y # e => events'[y] = events[y]
      BY <1>1, <2>1, WriteEvent
    <2>3. ~events'[e].live /\ events'[e].booking = events[e].booking
      BY <1>1, <2>2, GoneEventIs
    <2> QED BY <1>1, <1>2, <1>3, <1>4, <2>2, <2>3
  <1> QED BY <1>1, <1>2, <1>3, <1>4 DEF DropEvent

\* The check for conflicts lets the update go on, or ends it.
LEMMA CheckEffect ==
    ASSUME IInv, NEW k \in Workers, CheckUpdate(k)
    PROVE  /\ job[k].pc = "conflict"
           /\ \/ job'[k] = Idle
              \/ /\ ~HasConflict(job[k].room, job[k], job[k].id)
                 /\ job'[k].pc = "save" /\ Kept(job'[k], job[k])
           /\ UNCHANGED <<bookings, events, notes, asked, faulted>>
  <1>1. CASE HasConflict(job[k].room, job[k], job[k].id)
    BY <1>1, EndEffect DEF CheckUpdate
  <1>2. CASE ~HasConflict(job[k].room, job[k], job[k].id)
    BY <1>2, GotoEffect DEF CheckUpdate
  <1> QED BY <1>1, <1>2

\* A notification is skipped, leads to a linked booking, or to a new one.
LEMMA NoteEffect ==
    ASSUME IInv, NEW k \in Workers, NEW n,
           NoteDeleted(k, n) \/ NoteUpdated(k, n) \/ NoteCreated(k, n)
    PROVE  /\ n \in job[k].todo /\ n \in NoteRow /\ n.event \in DOMAIN events
           /\ job[k].pc = "next"
           /\ UNCHANGED <<bookings, events, notes, asked, faulted>>
           /\ job'[k].op = job[k].op /\ job'[k].batch = job[k].batch
           /\ job'[k].todo = job[k].todo \ {n}
           /\ \/ /\ job'[k].pc = "next" /\ job'[k].id = job[k].id /\ job'[k].seen = job[k].seen
                 /\ n.kind = "deleted" => LinkedTo(n.event) = {}
              \/ \E i \in LinkedTo(n.event) :
                   /\ job'[k].id = i
                   /\ job'[k].seen = (IF job[k].id = i THEN job[k].seen ELSE bookings[i])
                   /\ job'[k].event = n.event
                   /\ \/ n.kind = "deleted" /\ job'[k].pc = "remove"
                      \/ /\ n.kind # "deleted" /\ job'[k].pc \in {"apply", "fetch"}
                         /\ job'[k].start = n.start /\ job'[k].end = n.end
              \/ /\ n.kind # "deleted" /\ job'[k].pc = "insert" /\ job'[k].id = job[k].id
                 /\ job'[k].seen = job[k].seen /\ job'[k].start = n.start /\ job'[k].end = n.end
  <1>1. /\ n \in job[k].todo /\ job[k].pc = "next"
        /\ UNCHANGED <<bookings, events, notes, asked, faulted>>
    BY DEF NoteDeleted, NoteUpdated, NoteCreated
  <1>2. job[k] \in Job /\ n \in NoteRow /\ n.event \in DOMAIN events
    BY <1>1, TheJob DEF JobOK, JobIn, NotesIn
  <1>3. CASE Skip(k, n) /\ (n.kind = "deleted" => LinkedTo(n.event) = {})
    BY <1>1, <1>2, <1>3, SkipEffect
  <1>4. ASSUME NEW i \in LinkedTo(n.event), NEW pc, About(k, n, i, pc),
               \/ n.kind = "deleted" /\ pc = "remove"
               \/ n.kind # "deleted" /\ pc \in {"apply", "fetch"}
        PROVE  /\ job'[k].op = job[k].op /\ job'[k].batch = job[k].batch
               /\ job'[k].todo = job[k].todo \ {n}
               /\ job'[k].id = i
               /\ job'[k].seen = (IF job[k].id = i THEN job[k].seen ELSE bookings[i])
               /\ job'[k].event = n.event
               /\ \/ n.kind = "deleted" /\ job'[k].pc = "remove"
                  \/ /\ n.kind # "deleted" /\ job'[k].pc \in {"apply", "fetch"}
                     /\ job'[k].start = n.start /\ job'[k].end = n.end
    BY <1>4, AboutEffect
  <1>5. CASE /\ n.kind # "deleted"
             /\ job' = [job EXCEPT ![k].pc = "insert", ![k].todo = @ \ {n}, ![k].room = n.room,
                                   ![k].start = n.start, ![k].end = n.end]
    <2>1. /\ job'[k].op = job[k].op /\ job'[k].batch = job[k].batch
          /\ job'[k].todo = job[k].todo \ {n}
          /\ job'[k].pc = "insert" /\ job'[k].id = job[k].id
          /\ job'[k].seen = job[k].seen /\ job'[k].start = n.start /\ job'[k].end = n.end
      BY <1>2, <1>5 DEF Job, IInv, TypeOK
    <2> QED BY <1>1, <1>2, <1>5, <2>1
  <1>6. CASE NoteDeleted(k, n)
    <2>1. CASE LinkedTo(n.event) = {} /\ Skip(k, n)
      BY <1>3, <2>1
    <2>2. CASE \E i \in LinkedTo(n.event) : About(k, n, i, "remove")
      BY <1>1, <1>2, <1>4, <1>6, <2>2 DEF NoteDeleted
    <2> QED BY <1>6, <2>1, <2>2 DEF NoteDeleted
  <1>7. CASE NoteUpdated(k, n)
    <2>1. n.kind # "deleted"
      BY <1>7 DEF NoteUpdated
    <2>2. CASE Skip(k, n)
      BY <1>3, <2>1, <2>2
    <2>3. CASE \E i \in LinkedTo(n.event), pc \in {"apply", "fetch"} : About(k, n, i, pc)
      BY <1>1, <1>2, <1>4, <2>1, <2>3
    <2> QED BY <1>7, <2>2, <2>3 DEF NoteUpdated
  <1>8. CASE NoteCreated(k, n)
    BY <1>3, <1>5, <1>8 DEF NoteCreated
  <1> QED BY <1>6, <1>7, <1>8

\* The event says when it is now, or the notification is skipped.
LEMMA FetchEffect ==
    ASSUME IInv, NEW k \in Workers, FetchEvent(k)
    PROVE  LET e == job[k].event IN
           /\ e \in DOMAIN events /\ job[k].pc = "fetch"
           /\ UNCHANGED <<bookings, events, notes, asked>>
           /\ \/ /\ events[e].live /\ job'[k].op = job[k].op /\ job'[k].pc = "apply"
                 /\ job'[k].id = job[k].id /\ job'[k].seen = job[k].seen
                 /\ job'[k].batch = job[k].batch /\ job'[k].todo = job[k].todo
                 /\ job'[k].start = events[e].start /\ job'[k].end = events[e].end
                 /\ UNCHANGED faulted
              \/ NextNote(k, job[k].seen) /\ faulted' \in {faulted, TRUE}
  <1> DEFINE e == job[k].event
  <1>1. job[k] \in Job /\ e \in DOMAIN events /\ job[k].pc = "fetch"
    BY TheJob DEF FetchEvent, JobOK, JobIn
  <1>2. UNCHANGED <<bookings, events, notes, asked>>
    BY DEF FetchEvent
  <1>3. CASE /\ events[e].live /\ UNCHANGED faulted
             /\ job' = [job EXCEPT ![k].pc = "apply", ![k].start = events[e].start,
                                   ![k].end = events[e].end]
    <2>1. /\ job'[k].op = job[k].op /\ job'[k].pc = "apply"
          /\ job'[k].id = job[k].id /\ job'[k].seen = job[k].seen
          /\ job'[k].batch = job[k].batch /\ job'[k].todo = job[k].todo
          /\ job'[k].start = events[e].start /\ job'[k].end = events[e].end
      BY <1>1, <1>3 DEF Job, IInv, TypeOK
    <2> QED BY <1>1, <1>2, <1>3, <2>1
  <1>4. CASE NextNote(k, job[k].seen) /\ faulted' \in {faulted, TRUE}
    BY <1>1, <1>2, <1>4
  <1> QED BY <1>3, <1>4 DEF FetchEvent

\* A POST that is over, or a request that fails.
LEMMA OverEffect ==
    ASSUME IInv, NEW k \in Workers, PostEnd(k) \/ Fail(k)
    PROVE  /\ job'[k] = Idle /\ UNCHANGED <<bookings, events, asked>>
           /\ \/ UNCHANGED <<notes, faulted>> /\ job[k].pc = "next" /\ job[k].todo = {}
              \/ faulted' = TRUE /\ notes' \in {notes, notes \cup job[k].batch}
  BY EndEffect DEF PostEnd, Fail

\* What people do to the mailbox.
LEMMA OutsideEffect ==
    ASSUME IInv, Outside
    PROVE  /\ UNCHANGED <<bookings, job, faulted>>
           /\ \/ \E n \in Nat, r \in Rooms \cup {Elsewhere}, w \in Spans :
                 /\ DOMAIN events' = DOMAIN events \cup {n} /\ n \notin DOMAIN events
                 /\ \A e \in DOMAIN events : events'[e] = events[e]
                 /\ events'[n].booking = 0
                 /\ events'[n].start = w.start /\ events'[n].end = w.end
                 /\ notes' = notes \cup {Note("created", n, r, w.start, w.end)}
                 /\ UNCHANGED asked
              \/ \E e \in DOMAIN events, w \in Spans :
                 /\ DOMAIN events' = DOMAIN events
                 /\ \A y \in DOMAIN events : y # e => events'[y] = events[y]
                 /\ events[e].live /\ events'[e].live /\ events'[e].booking = events[e].booking
                 /\ events[e].moved \/ events'[e].room # events[e].room => events'[e].moved
                 /\ events'[e].start = w.start /\ events'[e].end = w.end
                 /\ notes' = notes \cup {Note("updated", e, Elsewhere, w.start, w.end)}
                 /\ UNCHANGED asked
              \/ \E e \in DOMAIN events :
                 /\ DOMAIN events' = DOMAIN events
                 /\ \A y \in DOMAIN events : y # e => events'[y] = events[y]
                 /\ ~events'[e].live /\ events'[e].booking = events[e].booking
                 /\ notes' = notes \cup {Deleted(e)}
                 /\ asked' = asked \cup ({events[e].booking} \ {0})
  <1>1. UNCHANGED <<bookings, job, faulted>>
    BY DEF Outside, OutsideCreate, OutsideMove, OutsideDelete
  <1>2. ASSUME NEW r \in Rooms \cup {Elsewhere}, NEW w \in Spans, OutsideCreate(r, w)
        PROVE  LET n == Len(events) + 1 IN
                 /\ n \in Nat
                 /\ DOMAIN events' = DOMAIN events \cup {n} /\ n \notin DOMAIN events
                 /\ \A e \in DOMAIN events : events'[e] = events[e]
                 /\ events'[n].booking = 0
                 /\ events'[n].start = w.start /\ events'[n].end = w.end
                 /\ notes' = notes \cup {Note("created", n, r, w.start, w.end)}
                 /\ UNCHANGED asked
    <2> DEFINE x == [Event(r, w.start, w.end, 0) EXCEPT !.moved = TRUE]
    <2>1. x \in EventRow /\ x.booking = 0 /\ x.start = w.start /\ x.end = w.end
      BY SpanTimes DEF Event, EventRow
    <2>2. events' = Append(events, x) /\ events \in Seq(EventRow) /\ UNCHANGED asked
          /\ notes' = notes \cup {Note("created", Len(events) + 1, r, w.start, w.end)}
      BY <1>2 DEF OutsideCreate, IInv, TypeOK
    <2> HIDE DEF x
    <2>3. LET n == Len(events) + 1 IN
                 /\ n \in Nat
                 /\ DOMAIN events' = DOMAIN events \cup {n} /\ n \notin DOMAIN events
                 /\ \A e \in DOMAIN events : events'[e] = events[e]
                 /\ events'[n] = x
      BY <2>1, <2>2
    <2> QED BY <2>1, <2>2, <2>3
  <1>3. ASSUME NEW e \in DOMAIN events, NEW r \in Rooms \cup {Elsewhere}, NEW w \in Spans,
               OutsideMove(e, r, w)
        PROVE  /\ DOMAIN events' = DOMAIN events
               /\ \A y \in DOMAIN events : y # e => events'[y] = events[y]
               /\ events[e].live /\ events'[e].live /\ events'[e].booking = events[e].booking
               /\ events[e].moved \/ events'[e].room # events[e].room => events'[e].moved
               /\ events'[e].start = w.start /\ events'[e].end = w.end
               /\ notes' = notes \cup {Note("updated", e, Elsewhere, w.start, w.end)}
               /\ UNCHANGED asked
    <2> DEFINE x == [events[e] EXCEPT !.room = r, !.start = w.start, !.end = w.end,
                                      !.moved = @ \/ r # events[e].room]
    <2>1. events[e] \in EventRow
      BY DEF IInv, TypeOK
    <2>2. /\ x \in EventRow /\ x.booking = events[e].booking /\ x.live = events[e].live
          /\ events[e].moved \/ x.room # events[e].room => x.moved
          /\ x.start = w.start /\ x.end = w.end
      BY <2>1, SpanTimes DEF EventRow
    <2>3. /\ events' = [events EXCEPT ![e] = x] /\ events[e].live
          /\ notes' = notes \cup {Note("updated", e, Elsewhere, w.start, w.end)}
          /\ UNCHANGED asked
      BY <1>3 DEF OutsideMove, IInv, TypeOK
    <2> HIDE DEF x
    <2>4. /\ DOMAIN events' = DOMAIN events /\ events'[e] = x
          /\ \A y \in DOMAIN events : y # e => events'[y] = events[y]
      BY <2>2, <2>3, WriteEvent
    <2> QED BY <2>2, <2>3, <2>4
  <1>4. ASSUME NEW e \in DOMAIN events, OutsideDelete(e)
        PROVE  /\ DOMAIN events' = DOMAIN events
               /\ \A y \in DOMAIN events : y # e => events'[y] = events[y]
               /\ ~events'[e].live /\ events'[e].booking = events[e].booking
               /\ notes' = notes \cup {Deleted(e)}
               /\ asked' = asked \cup ({events[e].booking} \ {0})
    <2>1. /\ events[e] \in EventRow /\ GoneEvent(events[e]) \in EventRow
          /\ ~GoneEvent(events[e]).live /\ GoneEvent(events[e]).booking = events[e].booking
      BY GoneEventIs DEF IInv, TypeOK
    <2>2. /\ events' = [events EXCEPT ![e] = GoneEvent(events[e])]
          /\ notes' = notes \cup {Deleted(e)}
          /\ asked' = asked \cup ({events[e].booking} \ {0})
      BY <1>4 DEF OutsideDelete
    <2>3. /\ DOMAIN events' = DOMAIN events /\ events'[e] = GoneEvent(events[e])
          /\ \A y \in DOMAIN events : y # e => events'[y] = events[y]
      BY <2>1, <2>2, WriteEvent
    <2> QED BY <2>1, <2>2, <2>3
  <1>5. CASE \E r \in Rooms \cup {Elsewhere}, w \in Spans : OutsideCreate(r, w)
    <2>1. PICK r \in Rooms \cup {Elsewhere}, w \in Spans : OutsideCreate(r, w)
      BY <1>5
    <2> QED BY <1>1, <1>2, <2>1
  <1>6. CASE \E e \in DOMAIN events, r \in Rooms \cup {Elsewhere}, w \in Spans :
                OutsideMove(e, r, w)
    <2>1. PICK e \in DOMAIN events, r \in Rooms \cup {Elsewhere}, w \in Spans :
             OutsideMove(e, r, w)
      BY <1>6
    <2> QED BY <1>1, <1>3, <2>1
  <1>7. CASE \E e \in DOMAIN events : OutsideDelete(e)
    <2>1. PICK e \in DOMAIN events : OutsideDelete(e)
      BY <1>7
    <2> QED BY <1>1, <1>4, <2>1
  <1> QED BY <1>5, <1>6, <1>7 DEF Outside

-----------------------------------------------------------------------------
(* One request at a time, what a request has read is what there is.         *)

\* A worker that serves nothing relies on nothing.
LEMMA IdleRead == OpOK(Idle) /\ ReadOK(Idle)
  BY IdleIs DEF OpOK, ReadOK, OfBooking

\* The same when the table has changed since.
LEMMA IdleReadNext ==
    ASSUME NEW k \in Workers, job'[k] = Idle PROVE OpOK(job[k])' /\ ReadOK(job[k])'
  <1>1. job'[k].op = "none" /\ job'[k].pc = "idle"
    BY IdleIs
  <1> QED BY <1>1 DEF OpOK, ReadOK, OfBooking

\* Requests that start read the row.
LEMMA ReadStart ==
    ASSUME IInv, ReadInv, NEW k, Workers = {k},
           \/ \E r \in Rooms, w \in Windows : CreateBooking(k, r, w)
           \/ \E i \in DOMAIN bookings, r \in Rooms, w \in Windows : UpdateBooking(k, i, r, w)
           \/ \E i \in DOMAIN bookings : DeleteBooking(k, i)
           \/ \E a, b \in notes : Post(k, {a, b})
    PROVE  ReadInv'
  <1>1. ASSUME NEW r, NEW w, CreateBooking(k, r, w) PROVE ReadInv'
    <2>1. job'[k].op = "create" /\ job'[k].pc = "insert" /\ job'[k].seen.event = 0
      BY <1>1, CreateEffect
    <2> QED BY <2>1 DEF ReadInv, OpOK, ReadOK, OfBooking
  <1>2. ASSUME NEW i \in DOMAIN bookings, NEW r, NEW w, UpdateBooking(k, i, r, w) PROVE ReadInv'
    <2>1. /\ job'[k].op = "update" /\ job'[k].pc = "conflict" /\ job'[k].id = i
          /\ job'[k].seen = bookings[i] /\ bookings[i].live /\ UNCHANGED bookings
      BY <1>2, UpdateEffect
    <2> QED BY <2>1 DEF ReadInv, OpOK, ReadOK, OfBooking
  <1>3. ASSUME NEW i \in DOMAIN bookings, DeleteBooking(k, i) PROVE ReadInv'
    <2>1. /\ job'[k].op = "delete" /\ job'[k].pc \in {"remove", "drop"} /\ job'[k].id = i
          /\ job'[k].seen = bookings[i] /\ bookings[i].live /\ UNCHANGED bookings
      BY <1>3, DeleteEffect
    <2> QED BY <2>1 DEF ReadInv, OpOK, ReadOK, OfBooking
  <1>4. ASSUME NEW batch, Post(k, batch) PROVE ReadInv'
    <2>1. job'[k].op = "post" /\ job'[k].pc = "next" /\ job'[k].id = 0
      BY <1>4, PostEffect
    <2> QED BY <2>1 DEF ReadInv, OpOK, ReadOK, OfBooking
  <1> QED BY <1>1, <1>2, <1>3, <1>4

\* A new row, and its event.
LEMMA ReadCreate ==
    ASSUME IInv, ReadInv, NEW k, Workers = {k},
           InsertBooking(k) \/ CreateEvent(k) \/ AttachEvent(k)
    PROVE  ReadInv'
  <1>0. job[k] \in Job /\ JobOK(job[k]) /\ OpOK(job[k]) /\ ReadOK(job[k])
    BY TheRead
  <1>1. CASE InsertBooking(k) /\ job[k].op = "create"
    <2> DEFINE n == Len(bookings) + 1
    <2>1. /\ n \in DOMAIN bookings'
          /\ bookings'[n] = Booking(job[k].room, job[k].start, job[k].end)
          /\ job'[k].op = "create" /\ job'[k].pc = "link" /\ job'[k].id = n
          /\ job'[k].room = job[k].room /\ job'[k].seen = job[k].seen
      BY <1>1, InsertEffect
    <2>2. bookings'[n].live /\ bookings'[n].room = job'[k].room /\ bookings'[n].event = 0
      BY <2>1 DEF Booking
    <2>3. job[k].seen.event = 0
      BY <1>0, <1>1 DEF InsertBooking, ReadOK
    <2> HIDE DEF n
    <2> QED BY <2>1, <2>2, <2>3 DEF ReadInv, OpOK, ReadOK, OfBooking
  <1>2. CASE InsertBooking(k) /\ job[k].op # "create"
    <2>1. /\ DOMAIN bookings \subseteq DOMAIN bookings'
          /\ \A i \in DOMAIN bookings : bookings'[i] = bookings[i]
          /\ NextNote(k, job[k].seen)
      BY <1>2, InsertEffect
    <2>2. /\ job'[k].op = "post" /\ job'[k].pc = "next" /\ job'[k].id = job[k].id
          /\ job'[k].seen = job[k].seen
      BY <2>1, NextNoteEffect
    <2>3. job[k].op = "post"
      BY <1>0, <1>2 DEF InsertBooking, OpOK
    <2> QED BY <1>0, <2>1, <2>2, <2>3 DEF ReadInv, OpOK, ReadOK, OfBooking
  <1>3. CASE CreateEvent(k)
    <2>1. UNCHANGED bookings
      BY <1>3, CreateEventEffect
    <2>2. CASE job'[k] = Idle
      BY <2>2, IdleReadNext DEF ReadInv
    <2>3. CASE /\ job'[k].op = job[k].op /\ job'[k].pc = "attach"
               /\ job'[k].id = job[k].id /\ job'[k].room = job[k].room
               /\ job'[k].seen = job[k].seen
      <3>1. job[k].pc = "link"
        BY <1>3 DEF CreateEvent
      <3> QED BY <1>0, <2>1, <2>3, <3>1 DEF ReadInv, OpOK, ReadOK, OfBooking
    <2> QED BY <1>3, <2>2, <2>3, CreateEventEffect, EndEffect
  <1>4. CASE AttachEvent(k)
    BY <1>4, AttachEffect, IdleReadNext DEF ReadInv
  <1> QED BY <1>1, <1>2, <1>3, <1>4

\* Updates.
LEMMA ReadUpdate ==
    ASSUME IInv, ReadInv, NEW k, Workers = {k},
           CheckUpdate(k) \/ SaveUpdate(k) \/ PatchEvent(k) \/ DropEvent(k)
    PROVE  ReadInv'
  <1>0. job[k] \in Job /\ JobOK(job[k]) /\ OpOK(job[k]) /\ ReadOK(job[k])
    BY TheRead
  <1>1. CASE job'[k] = Idle
    BY <1>1, IdleReadNext DEF ReadInv
  <1>2. CASE CheckUpdate(k) /\ job'[k].pc = "save" /\ Kept(job'[k], job[k])
    <2>1. UNCHANGED bookings /\ job[k].pc = "conflict"
      BY <1>2 DEF CheckUpdate
    <2> QED BY <1>0, <1>2, <2>1 DEF Kept, ReadInv, OpOK, ReadOK, OfBooking
  <1>3. CASE SaveUpdate(k) /\ Goto(k, AfterSave(job[k]))
    <2>1. /\ job[k].id \in DOMAIN bookings' /\ bookings'[job[k].id].live
          /\ bookings'[job[k].id].room = job[k].room
          /\ bookings'[job[k].id].event = bookings[job[k].id].event
      BY <1>3, SaveEffect
    <2>2. job'[k].pc \in {"drop", "patch"} /\ Kept(job'[k], job[k])
      BY <1>3, GotoEffect DEF AfterSave
    <2>3. job[k].pc = "save" /\ job[k].op = "update" /\ job[k].seen = bookings[job[k].id]
      BY <1>0, <1>3 DEF SaveUpdate, OpOK, ReadOK
    <2> QED BY <2>1, <2>2, <2>3 DEF Kept, ReadInv, OpOK, ReadOK, OfBooking
  <1>4. CASE DropEvent(k)
    <2>1. /\ UNCHANGED bookings /\ Kept(job'[k], job[k])
          /\ job'[k].pc = (IF job[k].op = "delete" THEN "remove" ELSE "link")
      BY <1>4, DropEffect
    <2>2. job[k].pc = "drop"
      BY <1>4 DEF DropEvent
    <2> QED BY <1>0, <2>1, <2>2 DEF Kept, ReadInv, OpOK, ReadOK, OfBooking
  <1> QED BY <1>1, <1>2, <1>3, <1>4, CheckEffect, SaveEffect, PatchEffect, EndEffect

\* The removal of a row, and the calls of a POST.
LEMMA ReadPost ==
    ASSUME IInv, ReadInv, NEW k, Workers = {k},
           \/ RemoveBooking(k) \/ FetchEvent(k) \/ ApplyEvent(k)
           \/ \E n \in job[k].todo : NoteDeleted(k, n) \/ NoteUpdated(k, n) \/ NoteCreated(k, n)
    PROVE  ReadInv'
  <1>0. job[k] \in Job /\ JobOK(job[k]) /\ OpOK(job[k]) /\ ReadOK(job[k])
    BY TheRead
  <1>1. CASE RemoveBooking(k)
    <2>1. /\ DOMAIN bookings' = DOMAIN bookings /\ job[k].id \in DOMAIN bookings
          /\ ~bookings'[job[k].id].live
      BY <1>1, RemoveEffect, Rows
    <2>2. CASE NextNote(k, job[k].seen)
      <3>1. job'[k].op = "post" /\ job'[k].pc = "next" /\ job'[k].id = job[k].id
        BY <2>2, NextNoteEffect
      <3> QED BY <2>1, <3>1 DEF ReadInv, OpOK, ReadOK, OfBooking
    <2>3. CASE End(k)
      BY <2>3, EndEffect, IdleReadNext DEF ReadInv
    <2> QED BY <1>1, <2>2, <2>3, RemoveEffect
  <1>2. CASE FetchEvent(k)
    <2>1. UNCHANGED bookings /\ job[k].pc = "fetch" /\ job[k].op = "post"
      BY <1>0, <1>2 DEF FetchEvent, OpOK
    <2>2. CASE NextNote(k, job[k].seen)
      <3>1. /\ job'[k].op = "post" /\ job'[k].pc = "next" /\ job'[k].id = job[k].id
            /\ job'[k].seen = job[k].seen
        BY <2>2, NextNoteEffect
      <3> QED BY <1>0, <2>1, <3>1 DEF ReadInv, OpOK, ReadOK, OfBooking
    <2>3. CASE /\ job'[k].op = job[k].op /\ job'[k].pc = "apply"
               /\ job'[k].id = job[k].id /\ job'[k].seen = job[k].seen
      BY <1>0, <2>1, <2>3 DEF ReadInv, OpOK, ReadOK, OfBooking
    <2> QED BY <1>2, <2>2, <2>3, FetchEffect
  <1>3. CASE ApplyEvent(k)
    <2>1. /\ DOMAIN bookings' = DOMAIN bookings /\ job[k].id \in DOMAIN bookings
          /\ NextNote(k, bookings'[job[k].id])
      BY <1>3, ApplyEffect
    <2>2. /\ job'[k].op = "post" /\ job'[k].pc = "next" /\ job'[k].id = job[k].id
          /\ job'[k].seen = bookings'[job[k].id]
      BY <2>1, NextNoteEffect
    <2> QED BY <2>1, <2>2 DEF ReadInv, OpOK, ReadOK, OfBooking
  <1>4. ASSUME NEW n, NoteDeleted(k, n) \/ NoteUpdated(k, n) \/ NoteCreated(k, n)
        PROVE  ReadInv'
    <2>1. /\ UNCHANGED bookings /\ job'[k].op = job[k].op /\ job[k].op = "post"
      BY <1>0, <1>4, NoteEffect DEF OpOK
    <2>2. CASE /\ job'[k].pc \in {"next", "insert"} /\ job'[k].id = job[k].id
               /\ job'[k].seen = job[k].seen
      BY <1>0, <2>1, <2>2 DEF ReadInv, OpOK, ReadOK, OfBooking
    <2>3. ASSUME NEW i \in LinkedTo(n.event), job'[k].id = i,
                 job'[k].seen = (IF job[k].id = i THEN job[k].seen ELSE bookings[i]),
                 job'[k].pc \in {"remove", "apply", "fetch"}
          PROVE  ReadInv'
      <3>1. i \in DOMAIN bookings /\ bookings[i].live /\ i # 0
        BY TheJob DEF LinkedTo
      <3>2. job'[k].seen = bookings[i]
        BY <1>0, <2>1, <2>3, <3>1 DEF ReadOK
      <3> QED BY <2>1, <2>3, <3>1, <3>2 DEF ReadInv, OpOK, ReadOK, OfBooking
    <2> QED BY <1>4, <2>2, <2>3, NoteEffect
  <1> QED BY <1>1, <1>2, <1>3, <1>4

\* Nothing is read at first.
LEMMA ReadInit == Init => ReadInv
  BY IdleRead DEF Init, ReadInv

\* Every step keeps it.
LEMMA ReadNext ==
    ASSUME NEW k, Workers = {k}
    PROVE  IInv /\ ReadInv /\ [Next]_vars => ReadInv'
  <1> SUFFICES ASSUME IInv, ReadInv, [Next]_vars PROVE ReadInv'
    OBVIOUS
  <1>1. CASE Request(k)
    BY <1>1, ReadStart, ReadCreate, ReadUpdate, ReadPost DEF Request
  <1>2. CASE PostEnd(k) \/ Fail(k)
    BY <1>2, OverEffect, IdleReadNext DEF ReadInv
  <1>3. CASE Notification(k)
    BY <1>2, <1>3, ReadStart, ReadPost DEF Notification
  <1>4. CASE Outside \/ UNCHANGED vars
    <2>1. UNCHANGED <<bookings, job>>
      BY <1>4, OutsideEffect DEF vars
    <2> QED BY <2>1 DEF ReadInv, OpOK, ReadOK
  <1> QED BY <1>1, <1>2, <1>3, <1>4 DEF Next

-----------------------------------------------------------------------------
(* One request at a time, every time is a window.                           *)

\* Windows, rows, events and notifications say the times they are made of.
LEMMA TimesOf ==
    /\ \A w \in Windows : Proper(w)
    /\ \A w \in Spans : Proper(w)
    /\ \A r, s, t : Booking(r, s, t).start = s /\ Booking(r, s, t).end = t
    /\ \A r, s, t, b : Event(r, s, t, b).start = s /\ Event(r, s, t, b).end = t
    /\ \A d, e, r, s, t : /\ Note(d, e, r, s, t).start = s /\ Note(d, e, r, s, t).end = t
                          /\ Note(d, e, r, s, t).kind = d /\ Note(d, e, r, s, t).event = e
    /\ \A e : Deleted(e).kind = "deleted" /\ Deleted(e).event = e
  BY DEF Windows, Spans, Proper, Booking, Event, Note, Deleted

\* A worker that serves nothing, and a POST between two notifications.
LEMMA WindowIdle == WindowOK(Idle)
  BY IdleIs DEF WindowOK, NotesProper

LEMMA WindowNextNote ==
    ASSUME IInv, NEW k \in Workers, WindowOK(job[k]), NEW read, NextNote(k, read)
    PROVE  WindowOK(job'[k])
  BY NextNoteEffect DEF WindowOK

\* The same request at another call.
LEMMA WindowKept ==
    ASSUME NEW h, NEW j, WindowOK(j), Kept(h, j),
           \/ h.pc \in {"remove", "attach", "next"}
           \/ Proper(j)
    PROVE  WindowOK(h)
  BY DEF WindowOK, Kept, Proper

\* Requests that start.
LEMMA WindowsStart ==
    ASSUME IInv, WindowsInv, NEW k, Workers = {k},
           \/ \E r \in Rooms, w \in Windows : CreateBooking(k, r, w)
           \/ \E i \in DOMAIN bookings, r \in Rooms, w \in Windows : UpdateBooking(k, i, r, w)
           \/ \E i \in DOMAIN bookings : DeleteBooking(k, i)
           \/ \E a, b \in notes : Post(k, {a, b})
    PROVE  WindowsInv'
  <1>1. ASSUME NEW r, NEW w \in Windows, CreateBooking(k, r, w) PROVE WindowsInv'
    <2>1. /\ job'[k].op = "create" /\ job'[k].pc = "insert"
          /\ job'[k].start = w.start /\ job'[k].end = w.end
          /\ job'[k].batch = {} /\ job'[k].todo = {}
          /\ UNCHANGED <<bookings, events, notes>>
      BY <1>1, CreateEffect
    <2>2. WindowOK(job'[k])
      BY <2>1, TimesOf DEF WindowOK, NotesProper, Proper
    <2> QED BY <2>1, <2>2 DEF WindowsInv, WindowsValid
  <1>2. ASSUME NEW i, NEW r, NEW w \in Windows, UpdateBooking(k, i, r, w) PROVE WindowsInv'
    <2>1. /\ job'[k].op = "update" /\ job'[k].pc = "conflict"
          /\ job'[k].start = w.start /\ job'[k].end = w.end
          /\ job'[k].batch = {} /\ job'[k].todo = {}
          /\ UNCHANGED <<bookings, events, notes>>
      BY <1>2, UpdateEffect
    <2>2. WindowOK(job'[k])
      BY <2>1, TimesOf DEF WindowOK, NotesProper, Proper
    <2> QED BY <2>1, <2>2 DEF WindowsInv, WindowsValid
  <1>3. ASSUME NEW i, DeleteBooking(k, i) PROVE WindowsInv'
    <2>1. /\ job'[k].op = "delete" /\ job'[k].pc \in {"remove", "drop"}
          /\ job'[k].batch = {} /\ job'[k].todo = {}
          /\ UNCHANGED <<bookings, events, notes>>
      BY <1>3, DeleteEffect
    <2>2. WindowOK(job'[k])
      BY <2>1 DEF WindowOK, NotesProper
    <2> QED BY <2>1, <2>2 DEF WindowsInv, WindowsValid
  <1>4. ASSUME NEW a \in notes, NEW b \in notes, Post(k, {a, b}) PROVE WindowsInv'
    <2>1. /\ job'[k].op = "post" /\ job'[k].pc = "next"
          /\ job'[k].batch = {a, b} /\ job'[k].todo = {a, b} /\ notes' = notes \ {a, b}
          /\ UNCHANGED <<bookings, events>>
      BY <1>4, PostEffect
    <2>2. WindowOK(job'[k]) /\ NotesProper(notes')
      BY <2>1 DEF WindowsInv, WindowOK, NotesProper
    <2> QED BY <2>1, <2>2 DEF WindowsInv, WindowsValid
  <1> QED BY <1>1, <1>2, <1>3, <1>4

\* Rows that are written.
LEMMA WindowsRows ==
    ASSUME IInv, ReadInv, WindowsInv, NEW k, Workers = {k},
           InsertBooking(k) \/ AttachEvent(k) \/ SaveUpdate(k) \/ ApplyEvent(k) \/ RemoveBooking(k)
    PROVE  WindowsInv'
  <1>0. WindowOK(job[k]) /\ WindowOK(Idle)
    BY WindowIdle DEF WindowsInv
  <1>1. ASSUME NEW i, DOMAIN bookings' \subseteq DOMAIN bookings \cup {i},
               \A x \in DOMAIN bookings : x # i => bookings'[x] = bookings[x],
               bookings'[i].live => Proper(bookings'[i]),
               UNCHANGED <<events, notes>>, WindowOK(job'[k])
        PROVE  WindowsInv'
    BY <1>1 DEF WindowsInv, WindowsValid, Proper
  <1>2. CASE InsertBooking(k)
    <2> DEFINE n == Len(bookings) + 1
    <2>1. /\ DOMAIN bookings' = DOMAIN bookings \cup {n}
          /\ \A i \in DOMAIN bookings : bookings'[i] = bookings[i]
          /\ bookings'[n] = Booking(job[k].room, job[k].start, job[k].end)
          /\ UNCHANGED <<events, notes>>
      BY <1>2, InsertEffect
    <2>2. Proper(job[k])
      BY <1>0, <1>2 DEF InsertBooking, WindowOK
    <2>3. Proper(bookings'[n])
      BY <2>1, <2>2, TimesOf DEF Proper
    <2>4. WindowOK(job'[k])
      <3>1. CASE job[k].op # "create"
        BY <1>0, <1>2, <3>1, InsertEffect, WindowNextNote
      <3>2. CASE job[k].op = "create"
        <4>1. /\ job'[k].op = "create" /\ job'[k].pc = "link"
              /\ job'[k].start = job[k].start /\ job'[k].end = job[k].end
              /\ job'[k].batch = job[k].batch /\ job'[k].todo = job[k].todo
          BY <1>2, <3>2, InsertEffect
        <4> QED BY <1>0, <2>2, <4>1 DEF WindowOK, Proper
      <3> QED BY <3>1, <3>2
    <2> HIDE DEF n
    <2> QED BY <1>1, <2>1, <2>3, <2>4
  <1>3. CASE AttachEvent(k)
    <2>1. /\ job[k].id \in DOMAIN bookings /\ DOMAIN bookings' = DOMAIN bookings
          /\ \A x \in DOMAIN bookings : x # job[k].id => bookings'[x] = bookings[x]
          /\ bookings'[job[k].id].start = bookings[job[k].id].start
          /\ bookings'[job[k].id].end = bookings[job[k].id].end
          /\ job'[k] = Idle /\ UNCHANGED <<events, notes>>
      BY <1>3, AttachEffect
    <2>2. bookings[job[k].id].live
      BY <1>3, TheRead DEF AttachEvent, OfBooking
    <2>3. Proper(bookings'[job[k].id])
      BY <2>1, <2>2 DEF WindowsInv, WindowsValid, Proper
    <2> QED BY <1>0, <1>1, <2>1, <2>3
  <1>4. CASE SaveUpdate(k)
    <2>1. /\ DOMAIN bookings' = DOMAIN bookings
          /\ \A x \in DOMAIN bookings : x # job[k].id => bookings'[x] = bookings[x]
          /\ bookings'[job[k].id].start = job[k].start /\ bookings'[job[k].id].end = job[k].end
          /\ UNCHANGED <<events, notes>>
      BY <1>4, SaveEffect
    <2>2. Proper(job[k])
      BY <1>0, <1>4 DEF SaveUpdate, WindowOK
    <2>3. Proper(bookings'[job[k].id])
      BY <2>1, <2>2 DEF Proper
    <2>4. WindowOK(job'[k])
      BY <1>0, <1>4, <2>2, SaveEffect, GotoEffect, EndEffect, WindowKept
    <2> QED BY <1>1, <2>1, <2>3, <2>4
  <1>5. CASE ApplyEvent(k)
    <2>1. /\ DOMAIN bookings' = DOMAIN bookings
          /\ \A x \in DOMAIN bookings : x # job[k].id => bookings'[x] = bookings[x]
          /\ bookings'[job[k].id].start = job[k].start /\ bookings'[job[k].id].end = job[k].end
          /\ UNCHANGED <<events, notes>> /\ NextNote(k, bookings'[job[k].id])
      BY <1>5, ApplyEffect
    <2>2. Proper(job[k])
      BY <1>0, <1>5 DEF ApplyEvent, WindowOK
    <2>3. Proper(bookings'[job[k].id])
      BY <2>1, <2>2 DEF Proper
    <2>4. WindowOK(job'[k])
      BY <1>0, <2>1, WindowNextNote
    <2> QED BY <1>1, <2>1, <2>3, <2>4
  <1>6. CASE RemoveBooking(k)
    <2>1. /\ DOMAIN bookings' = DOMAIN bookings
          /\ \A x \in DOMAIN bookings : x # job[k].id => bookings'[x] = bookings[x]
          /\ ~bookings'[job[k].id].live
          /\ UNCHANGED <<events, notes>>
      BY <1>6, RemoveEffect, Rows
    <2>2. WindowOK(job'[k])
      BY <1>0, <1>6, RemoveEffect, EndEffect, WindowNextNote
    <2> QED BY <1>1, <2>1, <2>2
  <1> QED BY <1>2, <1>3, <1>4, <1>5, <1>6

\* Events that a request writes.
LEMMA WindowsEvents ==
    ASSUME IInv, ReadInv, WindowsInv, NEW k, Workers = {k},
           CreateEvent(k) \/ PatchEvent(k) \/ DropEvent(k)
    PROVE  WindowsInv'
  <1>0. WindowOK(job[k]) /\ WindowOK(Idle)
    BY WindowIdle DEF WindowsInv
  <1>1. ASSUME NEW e, DOMAIN events' \subseteq DOMAIN events \cup {e},
               \A x \in DOMAIN events : x # e => events'[x] = events[x],
               events'[e].live => Proper(events'[e]),
               NEW n, n.kind # "deleted" => Proper(n), notes' = notes \cup {n},
               UNCHANGED bookings, WindowOK(job'[k])
        PROVE  WindowsInv'
    BY <1>1 DEF WindowsInv, WindowsValid, NotesProper
  <1>2. ASSUME UNCHANGED <<bookings, events, notes>>, WindowOK(job'[k])
        PROVE  WindowsInv'
    BY <1>2 DEF WindowsInv, WindowsValid
  <1>3. CASE CreateEvent(k)
    <2> DEFINE n == Len(events) + 1
               x == Event(job[k].room, job[k].start, job[k].end, job[k].id)
               m == Note("created", n, Elsewhere, job[k].start, job[k].end)
    <2>1. Proper(job[k])
      BY <1>0, <1>3 DEF CreateEvent, WindowOK
    <2>2. Proper(x) /\ Proper(m)
      BY <2>1, TimesOf DEF Proper
    <2>3. WindowOK(job'[k])
      BY <1>0, <1>3, CreateEventEffect, EndEffect DEF WindowOK
    <2>4. /\ UNCHANGED bookings
          /\ \/ UNCHANGED <<events, notes>>
             \/ /\ DOMAIN events' = DOMAIN events \cup {n} /\ events'[n] = x
                /\ \A e \in DOMAIN events : events'[e] = events[e]
                /\ notes' = notes \cup {m}
      BY <1>3, CreateEventEffect
    <2> HIDE DEF n, x, m
    <2> QED BY <1>1, <1>2, <2>2, <2>3, <2>4
  <1>4. CASE PatchEvent(k)
    <2> DEFINE e == job[k].seen.event
               m == Note("updated", e, Elsewhere, job[k].start, job[k].end)
    <2>1. Proper(job[k])
      BY <1>0, <1>4 DEF PatchEvent, WindowOK
    <2>2. /\ UNCHANGED bookings /\ job'[k] = Idle
          /\ \/ UNCHANGED <<events, notes>>
             \/ /\ DOMAIN events' = DOMAIN events
                /\ \A y \in DOMAIN events : y # e => events'[y] = events[y]
                /\ events'[e].start = job[k].start /\ events'[e].end = job[k].end
                /\ notes' = notes \cup {m}
      BY <1>4, PatchEffect
    <2>3. Proper(m)
      BY <2>1, TimesOf DEF Proper
    <2> HIDE DEF e, m
    <2>4. events'[e].start = job[k].start /\ events'[e].end = job[k].end => Proper(events'[e])
      BY <2>1 DEF Proper
    <2> QED BY <1>0, <1>1, <1>2, <2>2, <2>3, <2>4
  <1>5. CASE DropEvent(k)
    <2> DEFINE e == job[k].seen.event
    <2>1. WindowOK(job'[k])
      <3>1. /\ Kept(job'[k], job[k]) /\ job[k].pc = "drop"
            /\ job'[k].pc = (IF job[k].op = "delete" THEN "remove" ELSE "link")
        BY <1>5, DropEffect DEF DropEvent
      <3>2. job[k].op \in {"update", "delete"}
        BY <3>1, TheRead DEF OpOK
      <3>3. job[k].op = "update" => Proper(job[k])
        BY <1>0, <3>1 DEF WindowOK
      <3> QED BY <1>0, <3>1, <3>2, <3>3, WindowKept
    <2>2. /\ UNCHANGED bookings
          /\ \/ UNCHANGED <<events, notes>>
             \/ /\ DOMAIN events' = DOMAIN events
                /\ \A y \in DOMAIN events : y # e => events'[y] = events[y]
                /\ ~events'[e].live /\ notes' = notes \cup {Deleted(e)}
      BY <1>5, DropEffect
    <2>3. Deleted(e).kind = "deleted"
      BY TimesOf
    <2> HIDE DEF e
    <2> QED BY <1>1, <1>2, <2>1, <2>2, <2>3
  <1> QED BY <1>3, <1>4, <1>5

\* What is left: checks, notifications, the end of a request.
LEMMA WindowsRest ==
    ASSUME IInv, ReadInv, WindowsInv, NEW k, Workers = {k},
           \/ CheckUpdate(k) \/ FetchEvent(k) \/ PostEnd(k) \/ Fail(k)
           \/ \E n \in job[k].todo : NoteDeleted(k, n) \/ NoteUpdated(k, n) \/ NoteCreated(k, n)
    PROVE  WindowsInv'
  <1>0. WindowOK(job[k]) /\ WindowOK(Idle)
    BY WindowIdle DEF WindowsInv
  <1>1. ASSUME UNCHANGED <<bookings, events>>, NotesProper(notes'), WindowOK(job'[k])
        PROVE  WindowsInv'
    BY <1>1 DEF WindowsInv, WindowsValid
  <1>2. NotesProper(notes) /\ NotesProper(notes \cup job[k].batch)
    BY <1>0 DEF WindowsInv, NotesProper, WindowOK
  <1>3. CASE CheckUpdate(k)
    <2>1. Proper(job[k])
      BY <1>0, <1>3 DEF CheckUpdate, WindowOK
    <2> QED BY <1>0, <1>1, <1>2, <1>3, <2>1, CheckEffect, WindowKept
  <1>4. CASE FetchEvent(k)
    <2>1. CASE NextNote(k, job[k].seen)
      BY <1>0, <1>1, <1>2, <1>4, <2>1, WindowNextNote, FetchEffect
    <2>2. CASE /\ events[job[k].event].live /\ job'[k].pc = "apply"
               /\ job'[k].batch = job[k].batch /\ job'[k].todo = job[k].todo
               /\ job'[k].start = events[job[k].event].start
               /\ job'[k].end = events[job[k].event].end
      <3>1. job[k].event \in DOMAIN events
        BY <1>4, FetchEffect
      <3>2. Proper(events[job[k].event])
        BY <2>2, <3>1 DEF WindowsInv
      <3>3. WindowOK(job'[k])
        BY <1>0, <2>2, <3>2 DEF WindowOK, Proper
      <3> QED BY <1>1, <1>2, <1>4, <3>3, FetchEffect
    <2> QED BY <1>4, <2>1, <2>2, FetchEffect
  <1>5. CASE PostEnd(k) \/ Fail(k)
    BY <1>0, <1>1, <1>2, <1>5, OverEffect
  <1>6. ASSUME NEW n, NoteDeleted(k, n) \/ NoteUpdated(k, n) \/ NoteCreated(k, n)
        PROVE  WindowsInv'
    <2>1. /\ UNCHANGED <<bookings, events, notes>> /\ n \in job[k].todo
          /\ job'[k].batch = job[k].batch /\ job'[k].todo = job[k].todo \ {n}
          /\ \/ job'[k].pc \in {"next", "remove", "fetch"}
             \/ /\ n.kind # "deleted" /\ job'[k].pc \in {"insert", "apply"}
                /\ job'[k].start = n.start /\ job'[k].end = n.end
      BY <1>6, NoteEffect
    <2>2. n.kind # "deleted" => Proper(n)
      BY <1>0, <2>1 DEF WindowOK, NotesProper
    <2>3. WindowOK(job'[k])
      BY <1>0, <2>1, <2>2 DEF WindowOK, NotesProper, Proper
    <2> QED BY <1>1, <1>2, <2>1, <2>3
  <1> QED BY <1>3, <1>4, <1>5, <1>6

\* People choose what an event spans in Outlook.
LEMMA WindowsOutside == ASSUME IInv, WindowsInv, Outside PROVE WindowsInv'
  <1>1. UNCHANGED <<bookings, job>>
    BY OutsideEffect
  <1>2. ASSUME NEW e, DOMAIN events' \subseteq DOMAIN events \cup {e},
               \A x \in DOMAIN events : x # e => events'[x] = events[x],
               events'[e].live => Proper(events'[e]),
               NEW n, n.kind # "deleted" => Proper(n), notes' = notes \cup {n}
        PROVE  WindowsInv'
    BY <1>1, <1>2 DEF WindowsInv, WindowsValid, NotesProper
  <1>3. ASSUME NEW n, NEW r, NEW w \in Spans,
               DOMAIN events' = DOMAIN events \cup {n}, n \notin DOMAIN events,
               \A e \in DOMAIN events : events'[e] = events[e],
               events'[n].start = w.start, events'[n].end = w.end,
               notes' = notes \cup {Note("created", n, r, w.start, w.end)}
        PROVE  WindowsInv'
    <2> DEFINE m == Note("created", n, r, w.start, w.end)
    <2>1. Proper(events'[n]) /\ Proper(m)
      BY <1>3, TimesOf DEF Proper
    <2> HIDE DEF m
    <2> QED BY <1>2, <1>3, <2>1 DEF m
  <1>4. ASSUME NEW e \in DOMAIN events, NEW w \in Spans,
               DOMAIN events' = DOMAIN events,
               \A y \in DOMAIN events : y # e => events'[y] = events[y],
               events'[e].start = w.start, events'[e].end = w.end,
               notes' = notes \cup {Note("updated", e, Elsewhere, w.start, w.end)}
        PROVE  WindowsInv'
    <2> DEFINE m == Note("updated", e, Elsewhere, w.start, w.end)
    <2>1. Proper(events'[e]) /\ Proper(m)
      BY <1>4, TimesOf DEF Proper
    <2> HIDE DEF m
    <2> QED BY <1>2, <1>4, <2>1 DEF m
  <1>5. ASSUME NEW e \in DOMAIN events, DOMAIN events' = DOMAIN events,
               \A y \in DOMAIN events : y # e => events'[y] = events[y],
               ~events'[e].live, notes' = notes \cup {Deleted(e)}
        PROVE  WindowsInv'
    BY <1>2, <1>5, TimesOf
  <1> QED BY <1>3, <1>4, <1>5, OutsideEffect

\* Nothing says a time at first.
LEMMA WindowsInit == Init => WindowsInv
  BY WindowIdle DEF Init, WindowsInv, WindowsValid, NotesProper

\* Every step keeps it.
LEMMA WindowsNext ==
    ASSUME NEW k, Workers = {k}
    PROVE  IInv /\ ReadInv /\ WindowsInv /\ [Next]_vars => WindowsInv'
  <1> SUFFICES ASSUME IInv, ReadInv, WindowsInv, [Next]_vars PROVE WindowsInv'
    OBVIOUS
  <1>1. CASE Request(k)
    BY <1>1, WindowsStart, WindowsRows, WindowsEvents, WindowsRest DEF Request
  <1>2. CASE Notification(k) \/ Fail(k)
    BY <1>2, WindowsStart, WindowsRows, WindowsRest DEF Notification
  <1>3. CASE Outside
    BY <1>3, WindowsOutside
  <1>4. CASE UNCHANGED vars
    BY <1>4 DEF vars, WindowsInv, WindowsValid
  <1> QED BY <1>1, <1>2, <1>3, <1>4 DEF Next

\* What holds between any two calls when requests do not overlap.
LEMMA AlwaysWindows ==
    ASSUME NEW only, Workers = {only}
    PROVE  Spec => [](IInv /\ ReadInv /\ WindowsInv)
  <1>1. Init => IInv /\ ReadInv /\ WindowsInv
    BY InitIInv, ReadInit, WindowsInit
  <1>2. IInv /\ ReadInv /\ WindowsInv /\ [Next]_vars => (IInv /\ ReadInv /\ WindowsInv)'
    BY NextIInv, ReadNext, WindowsNext
  <1> QED BY <1>1, <1>2, PTL DEF Spec

\* "StartTime must be before EndTime" is a promise of what is in the table too, as
\* long as requests do not overlap, but for the times at which people put events of
\* no length, which notifications apply unchecked: a request then writes the columns
\* that differ from the row as it is, so that start and end of a row come from one
\* request or one event (CreateBookingAsync, UpdateBookingAsync,
\* ApplyEventDataToBooking).  No event ends before it starts, and no row does.
THEOREM RowsAreWindows ==
    ASSUME NEW only, Workers = {only}
    PROVE  Spec => []WindowsValid
  <1>1. Spec => [](IInv /\ ReadInv /\ WindowsInv)
    BY AlwaysWindows
  <1> QED BY <1>1, PTL DEF WindowsInv

-----------------------------------------------------------------------------
(* One request at a time, what was free is free when it is written.         *)

\* Only the calls that write a booking rely on the room being free.
LEMMA FreeElsewhere ==
    ASSUME NEW k, Workers = {k}, job'[k].pc \notin {"insert", "save"}
    PROVE  FreeInv'
  BY DEF FreeInv, FreeOK

\* Nothing is about to be written at first.
LEMMA FreeInit == Init => FreeInv
  BY IdleIs DEF Init, FreeInv, FreeOK

\* A check and the write it is for have no other step between them.
LEMMA FreeNext ==
    ASSUME NEW k, Workers = {k}
    PROVE  IInv /\ ReadInv /\ FreeInv /\ [Next]_vars => FreeInv'
  <1> SUFFICES ASSUME IInv, ReadInv, FreeInv, [Next]_vars PROVE FreeInv'
    OBVIOUS
  <1>1. CASE \E r \in Rooms, w \in Windows : CreateBooking(k, r, w)
    <2>1. PICK r \in Rooms, w \in Windows : CreateBooking(k, r, w)
      BY <1>1
    <2>2. /\ job'[k].op = "create" /\ job'[k].pc = "insert" /\ job'[k].room = r
          /\ job'[k].start = w.start /\ job'[k].end = w.end /\ UNCHANGED bookings
      BY <2>1, CreateEffect
    <2>3. ~HasConflict(r, w, 0)
      BY <2>1 DEF CreateBooking
    <2> QED BY <2>2, <2>3 DEF FreeInv, FreeOK, HasConflict, Overlap
  <1>2. CASE \/ \E i \in DOMAIN bookings, r \in Rooms, w \in Windows : UpdateBooking(k, i, r, w)
             \/ \E i \in DOMAIN bookings : DeleteBooking(k, i)
             \/ \E a, b \in notes : Post(k, {a, b})
    BY <1>2, UpdateEffect, DeleteEffect, PostEffect, FreeElsewhere
  <1>3. CASE InsertBooking(k)
    BY <1>3, InsertEffect, NextNoteEffect, FreeElsewhere
  <1>4. CASE CreateEvent(k) \/ AttachEvent(k) \/ PatchEvent(k)
    BY <1>4, CreateEventEffect, AttachEffect, PatchEffect, EndEffect, IdleIs, FreeElsewhere
  <1>5. CASE CheckUpdate(k)
    <2>1. UNCHANGED bookings
      BY <1>5, CheckEffect
    <2>2. CASE job'[k] = Idle
      BY <2>2, IdleIs, FreeElsewhere
    <2>3. CASE /\ ~HasConflict(job[k].room, job[k], job[k].id)
               /\ job'[k].pc = "save" /\ Kept(job'[k], job[k])
      BY <2>1, <2>3 DEF FreeInv, FreeOK, HasConflict, Overlap, Kept
    <2> QED BY <1>5, <2>2, <2>3, CheckEffect
  <1>6. CASE SaveUpdate(k)
    <2>1. AfterSave(job[k]) \notin {"insert", "save"}
      BY DEF AfterSave
    <2> QED BY <1>6, <2>1, SaveEffect, GotoEffect, EndEffect, IdleIs, FreeElsewhere
  <1>7. CASE DropEvent(k)
    BY <1>7, DropEffect, FreeElsewhere
  <1>8. CASE RemoveBooking(k) \/ FetchEvent(k) \/ ApplyEvent(k)
    BY <1>8, RemoveEffect, FetchEffect, ApplyEffect, NextNoteEffect, EndEffect, IdleIs,
       FreeElsewhere
  <1>9. CASE PostEnd(k) \/ Fail(k)
    BY <1>9, OverEffect, IdleIs, FreeElsewhere
  <1>10. ASSUME NEW n, NoteDeleted(k, n) \/ NoteUpdated(k, n) \/ NoteCreated(k, n)
         PROVE  FreeInv'
    <2>1. job'[k].op = job[k].op /\ job[k].pc = "next" /\ job'[k].pc # "save"
      BY <1>10, NoteEffect
    <2>2. job[k].op = "post"
      BY <2>1, TheRead DEF OpOK
    <2> QED BY <2>1, <2>2 DEF FreeInv, FreeOK
  <1>11. CASE Outside \/ UNCHANGED vars
    <2>1. UNCHANGED <<bookings, job>>
      BY <1>11, OutsideEffect DEF vars
    <2> QED BY <2>1 DEF FreeInv, FreeOK, HasConflict, Overlap
  <1> QED BY <1>1, <1>2, <1>3, <1>4, <1>5, <1>6, <1>7, <1>8, <1>9, <1>10, <1>11
          DEF Next, Request, Notification

\* Bookings whose rows say the same clash or not whichever comes first.
LEMMA OverlapEither ==
    \A a, b \in [start : Nat, end : Nat] : Overlap(a, b) => Overlap(b, a)
  BY DEF Overlap

\* A row is a window of numbers.
LEMMA RowTimes ==
    ASSUME IInv, NEW k \in Workers
    PROVE  /\ \A i \in DOMAIN bookings : bookings[i].start \in Nat /\ bookings[i].end \in Nat
           /\ job[k].start \in Nat /\ job[k].end \in Nat
  BY TheJob, JobParts, TimeZero DEF BookingRow

\* What is written where the room is free clashes with nothing.
LEMMA FreeNoClash ==
    ASSUME IInv, NEW k \in Workers, NEW x, NEW i,
           ~HasConflict(job[k].room, job[k], x), x = i \/ (x = 0 /\ i \notin DOMAIN bookings),
           DOMAIN bookings' = DOMAIN bookings \cup {i},
           \A y \in DOMAIN bookings : y # i => bookings'[y] = bookings[y],
           bookings'[i].room = job[k].room, bookings'[i].start = job[k].start,
           bookings'[i].end = job[k].end
    PROVE  ~Clashes(bookings', i)
  <1> SUFFICES ASSUME NEW y \in DOMAIN bookings' \ {i}, bookings'[y].live,
                      bookings'[i].room = bookings'[y].room, Overlap(bookings'[i], bookings'[y])
               PROVE  FALSE
    BY DEF Clashes
  <1>1. y \in DOMAIN bookings \ {x} /\ bookings'[y] = bookings[y]
    BY TheJob
  <1>2. ~Overlap(bookings[y], job[k])
    BY <1>1 DEF HasConflict
  <1>3. /\ bookings[y].start \in Nat /\ bookings[y].end \in Nat
        /\ job[k].start \in Nat /\ job[k].end \in Nat
    BY <1>1, RowTimes
  <1>4. job[k].start < bookings[y].end /\ job[k].end > bookings[y].start
    BY <1>1 DEF Overlap
  <1> QED BY <1>2, <1>3, <1>4 DEF Overlap

\* Rows that stay where and when they are.
LEMMA SameTimes ==
    ASSUME NEW k, DOMAIN bookings' = DOMAIN bookings,
           \A x \in DOMAIN bookings : SameTime(bookings'[x], bookings[x])
    PROVE  \A i \in DOMAIN bookings' :
              (i \in DOMAIN bookings => ~SameTime(bookings'[i], bookings[i])) =>
                  ~Clashes(bookings', i)
  OBVIOUS

\* What a step of a web request puts in the table.
LEMMA WriteFree ==
    ASSUME NEW k, Workers = {k}, IInv, ReadInv, FreeInv, [Next]_vars,
           job[k].op \in {"create", "update"}, job'[k] # job[k]
    PROVE  \A i \in DOMAIN bookings' :
              (i \in DOMAIN bookings => ~SameTime(bookings'[i], bookings[i])) =>
                  ~Clashes(bookings', i)
  <1>0. FreeOK(job[k]) /\ OpOK(job[k])
    BY TheRead DEF FreeInv
  <1>1. CASE UNCHANGED bookings
    BY <1>1, SameTimes DEF SameTime
  <1>2. CASE InsertBooking(k)
    <2> DEFINE n == Len(bookings) + 1
    <2>1. /\ DOMAIN bookings' = DOMAIN bookings \cup {n} /\ n \notin DOMAIN bookings
          /\ \A i \in DOMAIN bookings : bookings'[i] = bookings[i]
          /\ bookings'[n] = Booking(job[k].room, job[k].start, job[k].end)
      BY <1>2, InsertEffect
    <2>2. job[k].op = "create"
      BY <1>0, <1>2 DEF InsertBooking, OpOK
    <2>3. ~HasConflict(job[k].room, job[k], 0)
      BY <1>0, <1>2, <2>2 DEF InsertBooking, FreeOK
    <2>4. /\ bookings'[n].room = job[k].room /\ bookings'[n].start = job[k].start
          /\ bookings'[n].end = job[k].end
      BY <2>1 DEF Booking
    <2> HIDE DEF n
    <2>5. ~Clashes(bookings', n)
      BY <2>1, <2>3, <2>4, FreeNoClash
    <2>6. \A i \in DOMAIN bookings : SameTime(bookings'[i], bookings[i])
      BY <2>1 DEF SameTime
    <2> QED BY <2>1, <2>5, <2>6
  <1>3. CASE AttachEvent(k)
    <2>1. \A i \in DOMAIN bookings : SameTime(bookings'[i], bookings[i])
      BY <1>3, AttachEffect DEF SameTime
    <2>2. DOMAIN bookings' = DOMAIN bookings
      BY <1>3, AttachEffect
    <2> QED BY <2>1, <2>2, SameTimes
  <1>4. CASE SaveUpdate(k)
    <2> DEFINE n == job[k].id
    <2>1. /\ n \in DOMAIN bookings /\ DOMAIN bookings' = DOMAIN bookings
          /\ \A x \in DOMAIN bookings : x # n => bookings'[x] = bookings[x]
          /\ bookings'[n].room = job[k].room /\ bookings'[n].start = job[k].start
          /\ bookings'[n].end = job[k].end
      BY <1>4, SaveEffect
    <2>2. ~HasConflict(job[k].room, job[k], n)
      BY <1>0, <1>4 DEF SaveUpdate, FreeOK
    <2> HIDE DEF n
    <2>3. ~Clashes(bookings', n)
      BY <2>1, <2>2, FreeNoClash
    <2>4. \A i \in DOMAIN bookings \ {n} : SameTime(bookings'[i], bookings[i])
      BY <2>1 DEF SameTime
    <2> QED BY <2>1, <2>3, <2>4
  <1>5. CASE RemoveBooking(k) \/ ApplyEvent(k)
    BY <1>0, <1>5 DEF RemoveBooking, ApplyEvent, OpOK
  <1>6. CASE Request(k)
    <2>1. CASE \/ \E r \in Rooms, w \in Windows : CreateBooking(k, r, w)
               \/ \E i \in DOMAIN bookings, r \in Rooms, w \in Windows : UpdateBooking(k, i, r, w)
               \/ \E i \in DOMAIN bookings : DeleteBooking(k, i)
      BY <1>1, <2>1, CreateEffect, UpdateEffect, DeleteEffect
    <2>2. CASE CreateEvent(k) \/ CheckUpdate(k) \/ PatchEvent(k) \/ DropEvent(k)
      BY <1>1, <2>2, CreateEventEffect, CheckEffect, PatchEffect, DropEffect
    <2> QED BY <1>2, <1>3, <1>4, <1>5, <1>6, <2>1, <2>2 DEF Request
  <1>7. CASE Notification(k)
    <2>1. CASE \E a, b \in notes : Post(k, {a, b})
      BY <1>1, <2>1, PostEffect
    <2>2. CASE \/ \E n \in job[k].todo : NoteDeleted(k, n) \/ NoteUpdated(k, n) \/ NoteCreated(k, n)
               \/ FetchEvent(k) \/ PostEnd(k)
      BY <1>1, <2>2, NoteEffect, FetchEffect, OverEffect
    <2> QED BY <1>5, <1>7, <2>1, <2>2 DEF Notification
  <1>8. CASE Fail(k)
    BY <1>1, <1>8, OverEffect
  <1>9. CASE Outside \/ UNCHANGED vars
    BY <1>1, <1>9, OutsideEffect DEF vars
  <1> QED BY <1>6, <1>7, <1>8, <1>9 DEF Next

\* "Enforce domain invariants (conflict detection)": as long as requests do not
\* overlap, what a web request writes clashes with no booking, notifications that
\* came before it included (CreateBookingAsync and UpdateBookingAsync ask
\* HasConflictAsync and write in separate calls).
THEOREM WritesAreFree ==
    ASSUME NEW only, Workers = {only}
    PROVE  Spec => NoConflictAccepted
  <1>1. Init => FreeInv
    BY FreeInit
  <1>2. IInv /\ ReadInv /\ FreeInv /\ [Next]_vars => FreeInv'
    BY FreeNext
  <1>3. IInv /\ ReadInv /\ FreeInv /\ [Next]_vars =>
           [(\E k \in Workers : job[k].op \in {"create", "update"} /\ job'[k] # job[k]) =>
               \A i \in DOMAIN bookings' :
                   (i \in DOMAIN bookings => ~SameTime(bookings'[i], bookings[i])) =>
                       ~Clashes(bookings', i)]_vars
    BY WriteFree
  <1>4. Spec => [](IInv /\ ReadInv /\ WindowsInv)
    BY AlwaysWindows
  <1>5. Spec => []FreeInv
    BY <1>1, <1>2, <1>4, PTL DEF Spec
  <1> QED BY <1>3, <1>4, <1>5, PTL DEF Spec, NoConflictAccepted

-----------------------------------------------------------------------------
(* One request at a time, bookings and events match.                        *)

\* The invariant, said of the only request.
LEMMA TheEvents ==
    ASSUME IInv, ReadInv, EventsInv, NEW k, Workers = {k}
    PROVE  /\ job[k] \in Job /\ JobOK(job[k]) /\ OpOK(job[k]) /\ ReadOK(job[k])
           /\ NotesTrue(notes, events) /\ EventOK(job[k])
           /\ ~faulted => /\ \A e \in DOMAIN events : Owned(e, job[k])
                          /\ \A i \in DOMAIN bookings : Matched(i, job[k])
                          /\ \A i \in DOMAIN bookings : bookings[i].live \/ i \in asked
  BY TheRead DEF EventsInv, KeptUnlessAsked, BookingSurvives

LEMMA EventsGoal ==
    ASSUME NEW k, Workers = {k}, NotesTrue(notes', events'), EventOK(job[k])',
           ~faulted' => /\ \A e \in DOMAIN events' : Owned(e, job[k])'
                        /\ \A i \in DOMAIN bookings' : Matched(i, job[k])'
                        /\ \A i \in DOMAIN bookings' : bookings'[i].live \/ i \in asked'
    PROVE  EventsInv'
  BY DEF EventsInv, KeptUnlessAsked, BookingSurvives

\* Notifications of a deletion stay true: an event that is gone does not come back.
LEMMA NotesStayTrue ==
    ASSUME NEW set, NEW now, NEW then, NotesTrue(set, now), NotesIn(set, now),
           \A e \in DOMAIN now : then[e].live => now[e].live
    PROVE  NotesTrue(set, then)
  BY DEF NotesTrue, NotesIn

\* A worker that serves nothing.
LEMMA EventIdle == ASSUME NEW k, job'[k] = Idle PROVE EventOK(job[k])'
  <1>1. /\ job'[k].op = "none" /\ job'[k].pc = "idle"
        /\ job'[k].batch = {} /\ job'[k].todo = {}
    BY IdleIs
  <1> QED BY <1>1 DEF EventOK, NotesTrue

\* Only what is between the calls of an update, or before the removal of a row, is
\* at odds: another step that leaves the mailbox and the links alone keeps the rest.
LEMMA EventsFrame ==
    ASSUME IInv, ReadInv, EventsInv, NEW k, Workers = {k},
           UNCHANGED <<events, notes>>, faulted' = faulted, asked \subseteq asked',
           DOMAIN bookings' = DOMAIN bookings,
           \A i \in DOMAIN bookings : /\ bookings'[i].live = bookings[i].live
                                      /\ bookings'[i].event = bookings[i].event
                                      /\ bookings'[i].room = bookings[i].room,
           job[k].pc \notin {"link", "attach", "drop", "remove"},
           \A n \in job[k].todo : n.kind = "deleted" => n \in job'[k].todo,
           EventOK(job[k])'
    PROVE  EventsInv'
  <1> USE TheEvents
  <1>1. NotesTrue(notes', events')
    OBVIOUS
  <1> SUFFICES ASSUME ~faulted
               PROVE  /\ \A e \in DOMAIN events' : Owned(e, job[k])'
                      /\ \A i \in DOMAIN bookings' : Matched(i, job[k])'
                      /\ \A i \in DOMAIN bookings' : bookings'[i].live \/ i \in asked'
    BY <1>1, EventsGoal
  <1>2. ASSUME NEW e \in DOMAIN events' PROVE Owned(e, job[k])'
    BY <1>2 DEF Owned, Tagged, LinkedTo
  <1>3. ASSUME NEW i \in DOMAIN bookings' PROVE Matched(i, job[k])'
    <2>1. Matched(i, job[k])
      OBVIOUS
    <2>2. Deleted(bookings[i].event).kind = "deleted"
      BY TimesOf
    <2> QED BY <2>1, <2>2 DEF Matched
  <1>4. \A i \in DOMAIN bookings' : bookings'[i].live \/ i \in asked'
    OBVIOUS
  <1> QED BY <1>2, <1>3, <1>4

\* Requests that start.
LEMMA EventsStart ==
    ASSUME IInv, ReadInv, EventsInv, NEW k, Workers = {k},
           \/ \E r \in Rooms, w \in Windows : CreateBooking(k, r, w)
           \/ \E i \in DOMAIN bookings, r \in Rooms, w \in Windows : UpdateBooking(k, i, r, w)
           \/ \E i \in DOMAIN bookings : DeleteBooking(k, i)
    PROVE  EventsInv'
  <1>0. NotesTrue({}, events)
    BY DEF NotesTrue
  <1>1. ASSUME job[k].pc = "idle", job[k].op = "none",
               UNCHANGED <<bookings, events, notes, faulted>>, asked \subseteq asked',
               EventOK(job[k])'
        PROVE  EventsInv'
    <2>1. job[k].todo = {}
      BY <1>1, TheEvents DEF EventOK
    <2> QED BY <1>1, <2>1, EventsFrame
  <1>2. CASE \E r \in Rooms, w \in Windows : CreateBooking(k, r, w)
    <2>1. /\ job'[k].op = "create" /\ job'[k].pc = "insert"
          /\ job'[k].batch = {} /\ job'[k].todo = {} /\ UNCHANGED events
      BY <1>2, CreateEffect
    <2>2. EventOK(job[k])'
      BY <1>0, <2>1 DEF EventOK
    <2> QED BY <1>1, <1>2, <2>2, CreateEffect
  <1>3. CASE \E i \in DOMAIN bookings, r \in Rooms, w \in Windows : UpdateBooking(k, i, r, w)
    <2>1. /\ job'[k].op = "update" /\ job'[k].pc = "conflict"
          /\ job'[k].batch = {} /\ job'[k].todo = {} /\ UNCHANGED events
      BY <1>3, UpdateEffect
    <2>2. EventOK(job[k])'
      BY <1>0, <2>1 DEF EventOK
    <2> QED BY <1>1, <1>3, <2>2, UpdateEffect
  <1>4. CASE \E i \in DOMAIN bookings : DeleteBooking(k, i)
    <2>1. PICK i \in DOMAIN bookings : DeleteBooking(k, i)
      BY <1>4
    <2>2. /\ job'[k].op = "delete" /\ job'[k].id = i /\ job'[k].seen = bookings[i]
          /\ job'[k].pc = IF bookings[i].event = 0 THEN "remove" ELSE "drop"
          /\ job'[k].batch = {} /\ job'[k].todo = {}
          /\ asked' = asked \cup {i} /\ UNCHANGED events
      BY <2>1, DeleteEffect
    <2>3. EventOK(job[k])'
      BY <1>0, <2>2 DEF EventOK
    <2> QED BY <1>1, <2>1, <2>3, DeleteEffect
  <1> QED BY <1>2, <1>3, <1>4

\* Notifications go from Graph to the POST that brings them.
LEMMA EventsPost ==
    ASSUME IInv, ReadInv, EventsInv, NEW k, Workers = {k},
           NEW a \in notes, NEW b \in notes, Post(k, {a, b})
    PROVE  EventsInv'
  <1>0. /\ job[k].pc = "idle" /\ job[k].op = "none" /\ job'[k].op = "post" /\ job'[k].pc = "next"
        /\ job'[k].batch = {a, b} /\ job'[k].todo = {a, b} /\ notes' = notes \ {a, b}
        /\ UNCHANGED <<bookings, events, asked, faulted>>
    BY PostEffect
  <1>1. NotesTrue({a, b}, events) /\ NotesTrue(notes \ {a, b}, events)
    BY TheEvents DEF NotesTrue
  <1>2. EventOK(job[k])'
    BY <1>0, <1>1 DEF EventOK
  <1>3. ASSUME ~faulted, NEW e \in DOMAIN events' PROVE Owned(e, job[k])'
    BY <1>0, <1>3, TheEvents DEF Owned, Tagged, LinkedTo
  <1>4. ASSUME ~faulted, NEW i \in DOMAIN bookings' PROVE Matched(i, job[k])'
    <2>1. Matched(i, job[k]) /\ job[k].todo = {}
      BY <1>0, <1>4, TheEvents DEF EventOK
    <2> QED BY <1>0, <2>1 DEF Matched
  <1> QED BY <1>0, <1>1, <1>2, <1>3, <1>4, TheEvents, EventsGoal

\* A new booking has no event yet.
LEMMA EventsInsert ==
    ASSUME IInv, ReadInv, EventsInv, NEW k, Workers = {k}, InsertBooking(k)
    PROVE  EventsInv'
  <1> DEFINE n == Len(bookings) + 1
  <1>0. /\ DOMAIN bookings' = DOMAIN bookings \cup {n} /\ n \notin DOMAIN bookings
        /\ \A i \in DOMAIN bookings : bookings'[i] = bookings[i]
        /\ bookings'[n] = Booking(job[k].room, job[k].start, job[k].end)
        /\ UNCHANGED <<events, notes, asked, faulted>>
    BY InsertEffect
  <1>1. bookings'[n].event = 0 /\ bookings'[n].live
    BY <1>0 DEF Booking
  <1>2. job[k].pc = "insert" /\ job[k].op \in {"create", "post"}
    BY TheEvents DEF InsertBooking, OpOK
  <1>3. /\ job'[k].op = job[k].op /\ job'[k].pc \in {"link", "next"}
        /\ job'[k].batch = job[k].batch /\ job'[k].todo = job[k].todo
    BY <1>2, InsertEffect, NextNoteEffect
  <1> HIDE DEF n
  <1>4. EventOK(job[k])'
    BY <1>0, <1>2, <1>3, TheEvents DEF EventOK
  <1>5. ASSUME ~faulted, NEW e \in DOMAIN events' PROVE Owned(e, job[k])'
    <2>1. Owned(e, job[k])
      BY <1>0, <1>5, TheEvents
    <2> QED BY <1>0, <1>2, <2>1 DEF Owned, Tagged, LinkedTo
  <1>6. ASSUME ~faulted, NEW i \in DOMAIN bookings' PROVE Matched(i, job[k])'
    <2>1. CASE i = n
      BY <1>1, <2>1 DEF Matched
    <2>2. CASE i # n
      <3>1. i \in DOMAIN bookings /\ bookings'[i] = bookings[i] /\ Matched(i, job[k])
        BY <1>0, <1>6, <2>2, TheEvents
      <3> QED BY <1>0, <1>2, <1>3, <3>1 DEF Matched
    <2> QED BY <2>1, <2>2
  <1>7. ASSUME ~faulted, NEW i \in DOMAIN bookings' PROVE bookings'[i].live \/ i \in asked'
    BY <1>0, <1>1, <1>7, TheEvents
  <1> QED BY <1>0, <1>4, <1>5, <1>6, <1>7, TheEvents, EventsGoal

\* A new event waits for its booking.
LEMMA EventsCreateEvent ==
    ASSUME IInv, ReadInv, EventsInv, NEW k, Workers = {k}, CreateEvent(k)
    PROVE  EventsInv'
  <1> DEFINE n == Len(events) + 1
             m == Note("created", n, Elsewhere, job[k].start, job[k].end)
  <1>0. job[k].pc = "link" /\ UNCHANGED <<bookings, asked>>
    BY CreateEventEffect DEF CreateEvent
  <1>1. CASE UNCHANGED <<events, notes>> /\ faulted' = TRUE /\ End(k)
    BY <1>1, EndEffect, EventIdle, TheEvents, EventsGoal
  <1>2. CASE /\ DOMAIN events' = DOMAIN events \cup {n} /\ n \notin DOMAIN events /\ n # 0
             /\ \A e \in DOMAIN events : events'[e] = events[e]
             /\ events'[n] = Event(job[k].room, job[k].start, job[k].end, job[k].id)
             /\ notes' = notes \cup {m}
             /\ \/ /\ UNCHANGED faulted /\ job'[k].op = job[k].op /\ job'[k].pc = "attach"
                   /\ job'[k].event = n /\ job'[k].id = job[k].id
                   /\ job'[k].room = job[k].room /\ job'[k].seen = job[k].seen
                   /\ job'[k].batch = job[k].batch /\ job'[k].todo = job[k].todo
                \/ faulted' = TRUE /\ End(k)
    <2>1. m.kind = "created" /\ events'[n].room = job[k].room /\ events'[n].live
      BY <1>2, TimesOf DEF Event
    <2> HIDE DEF n, m
    <2>2. NotesTrue(notes, events') /\ NotesTrue(job[k].batch, events')
          /\ NotesTrue(job[k].todo, events')
      <3>1. NotesIn(notes, events) /\ NotesIn(job[k].batch, events) /\ NotesIn(job[k].todo, events)
        BY TheJob, TheEvents DEF JobOK, JobIn
      <3>2. /\ NotesTrue(notes, events) /\ NotesTrue(job[k].batch, events)
            /\ NotesTrue(job[k].todo, events)
        BY TheEvents DEF EventOK
      <3> QED BY <1>2, <3>1, <3>2, NotesStayTrue
    <2>3. NotesTrue(notes', events')
      BY <1>2, <2>1, <2>2 DEF NotesTrue
    <2>4. CASE faulted' = TRUE /\ End(k)
      BY <2>3, <2>4, EndEffect, EventIdle, EventsGoal
    <2>5. CASE /\ UNCHANGED faulted /\ job'[k].op = job[k].op /\ job'[k].pc = "attach"
               /\ job'[k].event = n /\ job'[k].id = job[k].id
               /\ job'[k].room = job[k].room /\ job'[k].seen = job[k].seen
               /\ job'[k].batch = job[k].batch /\ job'[k].todo = job[k].todo
      <3>1. job[k].seen.event \in DOMAIN events \cup {0} /\ job[k].op \in {"create", "update"}
        BY <1>0, TheEvents DEF JobOK, JobIn, OpOK
      <3>2. job[k].op = "update" => job[k].seen.event # 0
        BY <1>0, TheEvents DEF EventOK
      <3>3. job[k].op = "update" /\ ~faulted => ~events'[job[k].seen.event].live
        BY <1>0, <1>2, <3>1, <3>2, TheEvents DEF EventOK
      <3>4. job[k].todo = {}
        BY <3>1, TheEvents DEF EventOK
      <3>5. EventOK(job[k])'
        BY <1>0, <2>1, <2>2, <2>5, <3>1, <3>2, <3>3, <3>4 DEF EventOK
      <3>6. ASSUME ~faulted, NEW e \in DOMAIN events' PROVE Owned(e, job[k])'
        <4>1. CASE e = n
          BY <2>5, <4>1 DEF Owned
        <4>2. CASE e # n
          <5>1. e \in DOMAIN events /\ Owned(e, job[k]) /\ events'[e] = events[e]
            BY <1>2, <3>6, <4>2, TheEvents
          <5> QED BY <1>0, <5>1 DEF Owned, Tagged, LinkedTo
        <4> QED BY <4>1, <4>2
      <3>7. ASSUME ~faulted, NEW i \in DOMAIN bookings' PROVE Matched(i, job[k])'
        <4>1. Matched(i, job[k]) /\ i \in DOMAIN bookings
          BY <1>0, <3>7, TheEvents
        <4>2. bookings[i].event # 0 => events'[bookings[i].event] = events[bookings[i].event]
          BY <1>2, <4>1, TheJob
        <4> QED BY <1>0, <1>2, <2>5, <4>1, <4>2 DEF Matched
      <3> QED BY <1>0, <2>3, <2>5, <3>5, <3>6, <3>7, TheEvents, EventsGoal
    <2> QED BY <1>2, <2>4, <2>5
  <1> QED BY <1>1, <1>2, CreateEventEffect

\* An event has one booking, the one it was made for.
LEMMA OneBooking ==
    ASSUME IInv, NEW i \in DOMAIN bookings, NEW y \in DOMAIN bookings,
           bookings[i].event # 0, bookings[y].event = bookings[i].event
    PROVE  y = i
  BY DEF IInv, LinkedToOwn

\* The booking gets its event; the one it had before, in another room, is gone.
LEMMA EventsAttach ==
    ASSUME IInv, ReadInv, EventsInv, NEW k, Workers = {k}, AttachEvent(k)
    PROVE  EventsInv'
  <1> DEFINE b == job[k].id
             n == job[k].event
  <1>0. /\ b \in DOMAIN bookings /\ DOMAIN bookings' = DOMAIN bookings
        /\ \A x \in DOMAIN bookings : x # b => bookings'[x] = bookings[x]
        /\ bookings'[b].room = bookings[b].room /\ bookings'[b].live
        /\ bookings'[b].event = n /\ job'[k] = Idle
        /\ UNCHANGED <<events, notes, asked, faulted>>
    BY AttachEffect
  <1>1. /\ job[k].pc = "attach" /\ job[k].op \in {"create", "update"} /\ job[k].todo = {}
        /\ bookings[b].room = job[k].room /\ bookings[b].event = job[k].seen.event
        /\ n \in DOMAIN events
    BY TheEvents DEF AttachEvent, OpOK, ReadOK, EventOK, JobOK, JobIn
  <1>2. bookings[b].event = 0 \/ faulted \/ ~events[bookings[b].event].live
    BY <1>1, TheEvents DEF ReadOK, EventOK
  <1>3. ~faulted => IF events[n].live THEN events[n].room = job[k].room \/ events[n].moved
                    ELSE b \in asked /\ Deleted(n) \in notes
    BY <1>1, TheEvents DEF EventOK
  <1>4. EventOK(job[k])'
    BY <1>0, EventIdle
  <1> HIDE DEF b, n
  <1>5. ASSUME ~faulted, NEW e \in DOMAIN events', Tagged(e)' PROVE (\E x : x \in LinkedTo(e))'
    <2>1. CASE e = n
      <3>1. b \in LinkedTo(e)'
        BY <1>0, <2>1 DEF LinkedTo
      <3> QED BY <3>1
    <2>2. CASE e # n
      <3>1. e \in Nat \ {0} /\ Tagged(e) /\ Owned(e, job[k])
        BY <1>0, <1>5, TheJob, TheEvents DEF Tagged
      <3>2. PICK x : x \in LinkedTo(e)
        BY <1>1, <2>2, <3>1 DEF Owned, n
      <3>3. x # b
        BY <1>2, <1>5, <3>1, <3>2 DEF LinkedTo, Tagged
      <3>4. x \in LinkedTo(e)'
        BY <1>0, <3>2, <3>3 DEF LinkedTo
      <3> QED BY <3>4
    <2> QED BY <2>1, <2>2
  <1>6. ASSUME ~faulted, NEW e \in DOMAIN events' PROVE Owned(e, job[k])'
    BY <1>5, <1>6 DEF Owned
  <1>7. ASSUME ~faulted, NEW i \in DOMAIN bookings' PROVE Matched(i, job[k])'
    <2>1. CASE i = b
      BY <1>0, <1>1, <1>3, <1>7, <2>1 DEF Matched
    <2>2. CASE i # b
      <3>1. i \in DOMAIN bookings /\ bookings'[i] = bookings[i] /\ Matched(i, job[k])
        BY <1>0, <1>7, <2>2, TheEvents
      <3> QED BY <1>0, <1>1, <2>2, <3>1 DEF Matched, b
    <2> QED BY <2>1, <2>2
  <1>8. ASSUME ~faulted, NEW i \in DOMAIN bookings' PROVE bookings'[i].live \/ i \in asked'
    BY <1>0, <1>8, TheEvents
  <1> QED BY <1>0, <1>4, <1>6, <1>7, <1>8, TheEvents, EventsGoal

\* The check of an update changes nothing but where the update is.
LEMMA EventsCheck ==
    ASSUME IInv, ReadInv, EventsInv, NEW k, Workers = {k}, CheckUpdate(k)
    PROVE  EventsInv'
  <1>0. job[k].pc = "conflict" /\ UNCHANGED <<bookings, events, notes, asked, faulted>>
    BY CheckEffect
  <1>1. job[k].op = "update" /\ job[k].todo = {}
    BY <1>0, TheEvents DEF OpOK, EventOK
  <1>2. CASE job'[k] = Idle
    BY <1>0, <1>1, <1>2, EventIdle, EventsFrame
  <1>3. CASE job'[k].pc = "save" /\ Kept(job'[k], job[k])
    <2>1. EventOK(job[k])'
      BY <1>0, <1>1, <1>3, TheEvents DEF Kept, EventOK
    <2> QED BY <1>0, <1>1, <2>1, EventsFrame
  <1> QED BY <1>2, <1>3, CheckEffect

\* A booking that changes room is ahead of its event until the event is dropped.
LEMMA EventsSave ==
    ASSUME IInv, ReadInv, EventsInv, NEW k, Workers = {k}, SaveUpdate(k)
    PROVE  EventsInv'
  <1> DEFINE b == job[k].id
  <1>0. /\ b \in DOMAIN bookings /\ DOMAIN bookings' = DOMAIN bookings
        /\ \A x \in DOMAIN bookings : x # b => bookings'[x] = bookings[x]
        /\ bookings'[b].room = job[k].room /\ bookings'[b].live
        /\ bookings'[b].event = bookings[b].event
        /\ UNCHANGED <<events, notes, asked, faulted>>
    BY SaveEffect
  <1>1. job[k].pc = "save" /\ job[k].op = "update" /\ job[k].todo = {}
        /\ job[k].seen = bookings[b] /\ bookings[b].live
    BY TheEvents DEF SaveUpdate, OpOK, ReadOK, OfBooking, EventOK
  <1>2. CASE job[k].seen.event = 0 /\ End(k)
    <2>1. job'[k] = Idle
      BY <1>2, EndEffect
    <2> HIDE DEF b
    <2>2. ASSUME ~faulted, NEW e \in DOMAIN events' PROVE Owned(e, job[k])'
      <3>1. Owned(e, job[k]) /\ e # 0
        BY <1>0, <2>2, TheEvents, TheJob
      <3> QED BY <1>0, <1>1, <3>1 DEF Owned, Tagged, LinkedTo
    <2>3. ASSUME ~faulted, NEW i \in DOMAIN bookings' PROVE Matched(i, job[k])'
      <3>1. Matched(i, job[k])
        BY <1>0, <2>3, TheEvents
      <3>2. CASE i = b
        BY <1>0, <1>1, <1>2, <3>2 DEF Matched
      <3>3. CASE i # b
        BY <1>0, <1>1, <2>1, <3>1, <3>3 DEF Matched
      <3> QED BY <3>2, <3>3
    <2> QED BY <1>0, <2>1, <2>2, <2>3, EventIdle, TheEvents, EventsGoal
  <1>3. CASE job[k].seen.event # 0 /\ Goto(k, AfterSave(job[k]))
    <2>1. /\ Kept(job'[k], job[k])
          /\ job'[k].pc = IF job[k].room # job[k].seen.room THEN "drop" ELSE "patch"
      BY <1>3, GotoEffect DEF AfterSave
    <2>2. EventOK(job[k])'
      BY <1>0, <1>1, <1>3, <2>1, TheEvents DEF Kept, EventOK
    <2>3. job'[k].op = "update" /\ job'[k].id = b /\ job'[k].todo = {}
      BY <1>1, <2>1 DEF Kept
    <2> HIDE DEF b
    <2>4. ASSUME ~faulted, NEW e \in DOMAIN events' PROVE Owned(e, job[k])'
      <3>1. Owned(e, job[k])
        BY <1>0, <2>4, TheEvents
      <3> QED BY <1>0, <1>1, <3>1 DEF Owned, Tagged, LinkedTo
    <2>5. ASSUME ~faulted, NEW i \in DOMAIN bookings' PROVE Matched(i, job[k])'
      <3>1. Matched(i, job[k])
        BY <1>0, <2>5, TheEvents
      <3>2. CASE i = b
        BY <1>0, <1>1, <2>1, <2>3, <3>1, <3>2 DEF Matched
      <3>3. CASE i # b
        BY <1>0, <1>1, <2>3, <3>1, <3>3 DEF Matched
      <3> QED BY <3>2, <3>3
    <2> QED BY <1>0, <2>2, <2>4, <2>5, TheEvents, EventsGoal
  <1> QED BY <1>2, <1>3, SaveEffect

\* The event of a booking that stays in its room moves with it.
LEMMA EventsPatch ==
    ASSUME IInv, ReadInv, EventsInv, NEW k, Workers = {k}, PatchEvent(k)
    PROVE  EventsInv'
  <1> DEFINE e == job[k].seen.event
             b == job[k].id
             m == Note("updated", e, Elsewhere, job[k].start, job[k].end)
  <1>0. job'[k] = Idle /\ UNCHANGED <<bookings, asked>>
    BY PatchEffect
  <1>1. /\ job[k].pc = "patch" /\ job[k].op = "update" /\ job[k].todo = {}
        /\ b \in DOMAIN bookings /\ bookings[b].room = job[k].room /\ bookings[b].event = e
    BY TheEvents DEF PatchEvent, OpOK, ReadOK, OfBooking, EventOK
  <1>2. EventOK(job[k])'
    BY <1>0, EventIdle
  <1>3. CASE UNCHANGED <<events, notes, faulted>>
    BY <1>0, <1>1, <1>2, <1>3, EventsFrame
  <1>4. CASE UNCHANGED <<events, notes>> /\ faulted' = TRUE
    BY <1>2, <1>4, TheEvents, EventsGoal
  <1>5. CASE /\ e \in DOMAIN events /\ DOMAIN events' = DOMAIN events
             /\ \A y \in DOMAIN events : y # e => events'[y] = events[y]
             /\ events[e].live /\ events'[e].live /\ events'[e].booking = events[e].booking
             /\ events'[e].room = job[k].room
             /\ notes' = notes \cup {m} /\ UNCHANGED faulted
    <2>1. m.kind = "updated"
      BY TimesOf
    <2> HIDE DEF e, b, m
    <2>2. NotesTrue(notes', events')
      <3>1. NotesTrue(notes, events')
        BY <1>5, TheJob, TheEvents, NotesStayTrue
      <3> QED BY <1>5, <2>1, <3>1 DEF NotesTrue
    <2>3. ASSUME ~faulted, NEW x \in DOMAIN events' PROVE Owned(x, job[k])'
      <3>1. Owned(x, job[k])
        BY <1>5, <2>3, TheEvents
      <3> QED BY <1>0, <1>1, <1>5, <3>1 DEF Owned, Tagged, LinkedTo
    <2>4. ASSUME ~faulted, NEW i \in DOMAIN bookings' PROVE Matched(i, job[k])'
      <3>1. Matched(i, job[k]) /\ i \in DOMAIN bookings
        BY <1>0, <2>4, TheEvents
      <3>2. CASE bookings[i].event = e /\ e # 0
        <4>1. i = b
          BY <1>1, <3>1, <3>2, OneBooking
        <4> QED BY <1>0, <1>1, <1>5, <3>2, <4>1 DEF Matched
      <3>3. CASE bookings[i].event # e \/ e = 0
        <4>1. bookings[i].event # 0 => events'[bookings[i].event] = events[bookings[i].event]
          BY <1>5, <3>1, <3>3, TheJob
        <4> QED BY <1>0, <1>1, <1>5, <3>1, <4>1 DEF Matched
      <3> QED BY <3>2, <3>3
    <2> QED BY <1>0, <1>2, <1>5, <2>2, <2>3, <2>4, TheEvents, EventsGoal
  <1> QED BY <1>3, <1>4, <1>5, PatchEffect

\* The event of a booking that goes, or changes room, is deleted, unless it was.
LEMMA EventsDrop ==
    ASSUME IInv, ReadInv, EventsInv, NEW k, Workers = {k}, DropEvent(k)
    PROVE  EventsInv'
  <1> DEFINE e == job[k].seen.event
             b == job[k].id
  <1>0. /\ UNCHANGED <<bookings, asked>> /\ e \in DOMAIN events
        /\ job'[k].pc = (IF job[k].op = "delete" THEN "remove" ELSE "link")
        /\ Kept(job'[k], job[k])
    BY DropEffect
  <1>1. /\ job[k].pc = "drop" /\ job[k].op \in {"update", "delete"} /\ job[k].todo = {}
        /\ NotesTrue(job[k].batch, events)
        /\ b \in DOMAIN bookings /\ bookings[b].event = e
        /\ job[k].op = "delete" => b \in asked
        /\ job[k].op = "update" => e # 0
    BY TheEvents DEF DropEvent, OpOK, ReadOK, OfBooking, EventOK
  <1>2. NotesIn(job[k].batch, events) /\ NotesIn(notes, events) /\ NotesTrue(notes, events)
    BY TheJob, TheEvents DEF JobOK, JobIn
  <1>3. /\ job'[k].op = job[k].op /\ job'[k].id = b /\ job'[k].todo = {}
        /\ job'[k].batch = job[k].batch /\ job'[k].seen = job[k].seen
    BY <1>0, <1>1 DEF Kept
  <1>4. CASE UNCHANGED <<events, notes>> /\ faulted' = TRUE
    <2>1. EventOK(job[k])'
      BY <1>0, <1>1, <1>3, <1>4, TheEvents DEF EventOK
    <2> QED BY <1>2, <1>4, <2>1, EventsGoal
  <1>5. CASE ~Tagged(e) /\ UNCHANGED <<events, notes, faulted>>
    <2>1. e # 0 => ~events[e].live
      BY <1>1, <1>5, TheJob DEF Tagged
    <2>2. EventOK(job[k])'
      BY <1>0, <1>1, <1>3, <1>5, <2>1, TheEvents DEF EventOK
    <2> HIDE DEF e, b
    <2>3. ASSUME ~faulted, NEW x \in DOMAIN events' PROVE Owned(x, job[k])'
      <3>1. Owned(x, job[k])
        BY <1>5, <2>3, TheEvents
      <3> QED BY <1>0, <1>1, <1>5, <3>1 DEF Owned, Tagged, LinkedTo
    <2>4. ASSUME ~faulted, NEW i \in DOMAIN bookings' PROVE Matched(i, job[k])'
      <3>1. Matched(i, job[k]) /\ i \in DOMAIN bookings
        BY <1>0, <2>4, TheEvents
      <3>2. CASE i = b
        BY <1>0, <1>1, <1>5, <2>1, <3>1, <3>2 DEF Matched
      <3>3. CASE i # b
        BY <1>0, <1>1, <1>5, <3>1, <3>3 DEF Matched, b
      <3> QED BY <3>2, <3>3
    <2> QED BY <1>0, <1>2, <1>5, <2>2, <2>3, <2>4, TheEvents, EventsGoal
  <1>6. CASE /\ DOMAIN events' = DOMAIN events
             /\ \A y \in DOMAIN events : y # e => events'[y] = events[y]
             /\ ~events'[e].live /\ events'[e].booking = events[e].booking
             /\ notes' = notes \cup {Deleted(e)} /\ UNCHANGED faulted
    <2>1. NotesTrue(notes, events') /\ NotesTrue(job[k].batch, events')
      <3>1. \A y \in DOMAIN events : events'[y].live => events[y].live
        BY <1>6
      <3> QED BY <1>1, <1>2, <3>1, NotesStayTrue
    <2>2. NotesTrue(notes', events')
      BY <1>6, <2>1, TimesOf DEF NotesTrue
    <2>3. EventOK(job[k])'
      BY <1>0, <1>1, <1>3, <1>6, <2>1 DEF EventOK, NotesTrue
    <2> HIDE DEF e, b
    <2>4. ASSUME ~faulted, NEW x \in DOMAIN events' PROVE Owned(x, job[k])'
      <3>1. Owned(x, job[k])
        BY <1>6, <2>4, TheEvents
      <3> QED BY <1>0, <1>1, <1>6, <3>1 DEF Owned, Tagged, LinkedTo
    <2>5. ASSUME ~faulted, NEW i \in DOMAIN bookings' PROVE Matched(i, job[k])'
      <3>1. Matched(i, job[k]) /\ i \in DOMAIN bookings
        BY <1>0, <2>5, TheEvents
      <3>2. CASE i = b
        BY <1>0, <1>1, <1>3, <1>6, <3>2 DEF Matched
      <3>3. CASE i # b
        <4>1. bookings[i].event # 0 => events'[bookings[i].event] = events[bookings[i].event]
          BY <1>1, <1>6, <3>1, <3>3, TheJob, OneBooking
        <4> QED BY <1>0, <1>1, <1>6, <3>1, <3>3, <4>1 DEF Matched, b
      <3> QED BY <3>2, <3>3
    <2> QED BY <1>0, <1>6, <2>2, <2>3, <2>4, <2>5, TheEvents, EventsGoal
  <1> QED BY <1>4, <1>5, <1>6, DropEffect

\* A row goes when someone asked for it, and its event is gone by then.
LEMMA EventsRemove ==
    ASSUME IInv, ReadInv, EventsInv, NEW k, Workers = {k}, RemoveBooking(k)
    PROVE  EventsInv'
  <1> DEFINE b == job[k].id
             e == bookings[b].event
  <1>0. /\ b \in DOMAIN bookings /\ DOMAIN bookings' = DOMAIN bookings
        /\ \A x \in DOMAIN bookings : x # b => bookings'[x] = bookings[x]
        /\ ~bookings'[b].live /\ UNCHANGED <<events, notes, asked, faulted>>
    BY RemoveEffect, Rows
  <1>1. /\ job[k].pc = "remove" /\ job[k].op \in {"delete", "post"} /\ bookings[b].live
    BY TheEvents DEF RemoveBooking, OpOK, ReadOK, OfBooking
  <1>2. ~faulted => e = 0 \/ ~events[e].live
    BY <1>1, TheEvents DEF EventOK, ReadOK
  <1>3. ~faulted => b \in asked
    <2>1. CASE job[k].op = "delete"
      BY <2>1, TheEvents DEF EventOK
    <2>2. CASE job[k].op = "post"
      <3>1. e # 0
        BY <1>1, <2>2, TheEvents DEF EventOK
      <3> HIDE DEF e
      <3>2. ~faulted => Matched(b, job[k])
        BY <1>0, TheEvents
      <3> QED BY <1>1, <1>2, <2>2, <3>1, <3>2 DEF Matched, e
    <2> QED BY <1>1, <2>1, <2>2
  <1>4. /\ EventOK(job[k])' /\ job'[k].todo = job[k].todo
    <2>1. CASE job[k].op = "post" /\ NextNote(k, job[k].seen)
      <3>1. /\ job'[k].op = "post" /\ job'[k].pc = "next"
            /\ job'[k].batch = job[k].batch /\ job'[k].todo = job[k].todo
        BY <2>1, NextNoteEffect
      <3> QED BY <1>0, <3>1, TheEvents DEF EventOK
    <2>2. CASE job[k].op = "delete" /\ End(k)
      <3>1. job[k].todo = {}
        BY <2>2, TheEvents DEF EventOK
      <3> QED BY <2>2, <3>1, EndEffect, EventIdle, IdleIs
    <2> QED BY <2>1, <2>2, RemoveEffect
  <1> HIDE DEF b
  <1>5. ASSUME ~faulted, NEW x \in DOMAIN events' PROVE Owned(x, job[k])'
    <2>1. Owned(x, job[k]) /\ x # 0
      BY <1>0, <1>5, TheEvents, TheJob
    <2>2. Tagged(x) => x # e
      BY <1>2, <1>5, <2>1 DEF Tagged
    <2> HIDE DEF e
    <2> QED BY <1>0, <1>1, <2>1, <2>2 DEF Owned, Tagged, LinkedTo, e
  <1>6. ASSUME ~faulted, NEW i \in DOMAIN bookings' PROVE Matched(i, job[k])'
    <2>1. CASE i = b
      BY <1>0, <2>1 DEF Matched
    <2>2. CASE i # b
      <3>1. i \in DOMAIN bookings /\ bookings'[i] = bookings[i] /\ Matched(i, job[k])
        BY <1>0, <1>6, <2>2, TheEvents
      <3> QED BY <1>0, <1>1, <1>4, <2>2, <3>1 DEF Matched, b
    <2> QED BY <2>1, <2>2
  <1>7. ASSUME ~faulted, NEW i \in DOMAIN bookings' PROVE bookings'[i].live \/ i \in asked'
    BY <1>0, <1>3, <1>7, TheEvents
  <1> QED BY <1>0, <1>4, <1>5, <1>6, <1>7, TheEvents, EventsGoal

\* The notification of a deletion leads to the booking of the event, if it has one.
LEMMA EventsNote ==
    ASSUME IInv, ReadInv, EventsInv, NEW k, Workers = {k}, NEW n,
           NoteDeleted(k, n) \/ NoteUpdated(k, n) \/ NoteCreated(k, n)
    PROVE  EventsInv'
  <1>0. /\ n \in job[k].todo /\ n.event \in DOMAIN events /\ job[k].pc = "next"
        /\ UNCHANGED <<bookings, events, notes, asked, faulted>>
        /\ job'[k].op = job[k].op /\ job'[k].batch = job[k].batch
        /\ job'[k].todo = job[k].todo \ {n}
    BY NoteEffect
  <1>1. job[k].op = "post"
    BY <1>0, TheEvents DEF OpOK
  <1>2. NotesTrue(job[k].batch, events) /\ NotesTrue(job[k].todo \ {n}, events)
    BY TheEvents DEF EventOK, NotesTrue
  <1>3. CASE job'[k].pc \in {"next", "insert", "apply", "fetch"} /\ n.kind # "deleted"
    <2>1. EventOK(job[k])'
      BY <1>0, <1>1, <1>2, <1>3 DEF EventOK
    <2> QED BY <1>0, <1>3, <2>1, EventsFrame
  <1>4. ASSUME n.kind = "deleted",
               \/ job'[k].pc = "next" /\ LinkedTo(n.event) = {}
               \/ \E i \in LinkedTo(n.event) :
                     job'[k].pc = "remove" /\ job'[k].id = i /\ job'[k].event = n.event
        PROVE  EventsInv'
    <2>1. n = Deleted(n.event) /\ ~events[n.event].live /\ n.event # 0
      BY <1>0, <1>4, TheEvents, TheJob DEF EventOK, NotesTrue
    <2>2. EventOK(job[k])'
      <3>1. CASE job'[k].pc = "next"
        BY <1>0, <1>1, <1>2, <3>1 DEF EventOK
      <3>2. CASE \E i \in LinkedTo(n.event) :
                     job'[k].pc = "remove" /\ job'[k].id = i /\ job'[k].event = n.event
        <4>1. /\ job'[k].pc = "remove" /\ bookings[job'[k].id].event = job'[k].event
              /\ job'[k].event = n.event
          BY <3>2 DEF LinkedTo
        <4> QED BY <1>0, <1>1, <1>2, <2>1, <4>1 DEF EventOK
      <3> QED BY <1>4, <3>1, <3>2
    <2>3. ASSUME ~faulted, NEW e \in DOMAIN events' PROVE Owned(e, job[k])'
      <3>1. Owned(e, job[k])
        BY <1>0, <2>3, TheEvents
      <3> QED BY <1>0, <3>1 DEF Owned, Tagged, LinkedTo
    <2>4. ASSUME ~faulted, NEW i \in DOMAIN bookings' PROVE Matched(i, job[k])'
      <3>1. Matched(i, job[k]) /\ i \in DOMAIN bookings
        BY <1>0, <2>4, TheEvents
      <3>2. CASE bookings[i].live /\ bookings[i].event = n.event
        <4>1. i \in LinkedTo(n.event)
          BY <3>1, <3>2 DEF LinkedTo
        <4>2. job'[k].pc = "remove" /\ job'[k].id = i
          <5>1. PICK y \in LinkedTo(n.event) : job'[k].pc = "remove" /\ job'[k].id = y
            BY <1>4, <4>1
          <5>2. y = i
            BY <2>1, <3>1, <3>2, OneBooking DEF LinkedTo
          <5> QED BY <5>1, <5>2
        <4> QED BY <1>0, <2>1, <3>1, <3>2, <4>2 DEF Matched
      <3>3. CASE ~bookings[i].live \/ bookings[i].event # n.event
        <4>1. Deleted(bookings[i].event) # n \/ ~bookings[i].live
          BY <3>3, TimesOf
        <4> QED BY <1>0, <3>1, <4>1 DEF Matched
      <3> QED BY <3>2, <3>3
    <2> QED BY <1>0, <2>2, <2>3, <2>4, TheEvents, EventsGoal
  <1>5. \/ n.kind # "deleted" /\ job'[k].pc \in {"next", "insert", "apply", "fetch"}
        \/ n.kind = "deleted" /\ job'[k].pc = "next" /\ LinkedTo(n.event) = {}
        \/ n.kind = "deleted" /\ \E i \in LinkedTo(n.event) :
              job'[k].pc = "remove" /\ job'[k].id = i /\ job'[k].event = n.event
    BY NoteEffect
  <1> QED BY <1>3, <1>4, <1>5

\* A failure excuses the rest: only what is said of notifications has to stay true.
LEMMA EventsFail ==
    ASSUME IInv, ReadInv, EventsInv, NEW k, Workers = {k}, faulted' = TRUE, UNCHANGED events,
           notes' \in {notes, notes \cup job[k].batch}, EventOK(job[k])'
    PROVE  EventsInv'
  <1>1. NotesTrue(notes', events')
    BY TheEvents DEF EventOK, NotesTrue
  <1> QED BY <1>1, EventsGoal

\* The other calls of a POST, and the end of a request.
LEMMA EventsRest ==
    ASSUME IInv, ReadInv, EventsInv, NEW k, Workers = {k},
           FetchEvent(k) \/ ApplyEvent(k) \/ PostEnd(k) \/ Fail(k)
    PROVE  EventsInv'
  <1>1. ASSUME NEW read, NextNote(k, read), UNCHANGED events
        PROVE  EventOK(job[k])' /\ job'[k].todo = job[k].todo
    <2>1. /\ job'[k].op = "post" /\ job'[k].pc = "next"
          /\ job'[k].batch = job[k].batch /\ job'[k].todo = job[k].todo
      BY <1>1, NextNoteEffect
    <2> QED BY <1>1, <2>1, TheEvents DEF EventOK
  <1>2. CASE FetchEvent(k)
    <2>0. /\ job[k].pc = "fetch" /\ job[k].op = "post"
          /\ UNCHANGED <<bookings, events, notes, asked>>
      BY <1>2, FetchEffect, TheEvents DEF OpOK
    <2>1. CASE /\ job'[k].op = job[k].op /\ job'[k].pc = "apply"
               /\ job'[k].batch = job[k].batch /\ job'[k].todo = job[k].todo /\ UNCHANGED faulted
      <3>1. EventOK(job[k])'
        BY <2>0, <2>1, TheEvents DEF EventOK
      <3> QED BY <2>0, <2>1, <3>1, EventsFrame
    <2>2. CASE NextNote(k, job[k].seen) /\ UNCHANGED faulted
      BY <1>1, <2>0, <2>2, EventsFrame
    <2>3. CASE NextNote(k, job[k].seen) /\ faulted' = TRUE
      BY <1>1, <2>0, <2>3, EventsFail
    <2> QED BY <1>2, <2>1, <2>2, <2>3, FetchEffect
  <1>3. CASE ApplyEvent(k)
    <2> DEFINE b == job[k].id
    <2>1. /\ b \in DOMAIN bookings /\ DOMAIN bookings' = DOMAIN bookings
          /\ \A x \in DOMAIN bookings : x # b => bookings'[x] = bookings[x]
          /\ bookings'[b].room = bookings[b].room /\ bookings'[b].live
          /\ bookings'[b].event = bookings[b].event
          /\ NextNote(k, bookings'[b]) /\ UNCHANGED <<events, notes, asked, faulted>>
      BY <1>3, ApplyEffect
    <2>2. job[k].pc = "apply" /\ bookings[b].live
      BY <1>3, TheEvents DEF ApplyEvent, ReadOK, OfBooking
    <2>3. \A i \in DOMAIN bookings : /\ bookings'[i].live = bookings[i].live
                                     /\ bookings'[i].event = bookings[i].event
                                     /\ bookings'[i].room = bookings[i].room
      <3> TAKE i \in DOMAIN bookings
      <3>1. bookings[b] \in BookingRow /\ bookings'[b] \in BookingRow
        BY <1>3, <2>1, TheJob, ApplyStep DEF IInv, TypeOK
      <3> QED BY <2>1, <2>2, <3>1 DEF BookingRow
    <2> HIDE DEF b
    <2>4. EventOK(job[k])' /\ job'[k].todo = job[k].todo
      BY <1>1, <2>1
    <2> QED BY <2>1, <2>2, <2>3, <2>4, EventsFrame
  <1>4. CASE UNCHANGED <<notes, faulted>> /\ job[k].pc = "next" /\ job[k].todo = {}
              /\ job'[k] = Idle /\ UNCHANGED <<bookings, events, asked>>
    BY <1>4, EventIdle, EventsFrame
  <1>5. CASE /\ faulted' = TRUE /\ notes' \in {notes, notes \cup job[k].batch}
             /\ job'[k] = Idle /\ UNCHANGED <<bookings, events, asked>>
    BY <1>5, EventIdle, EventsFail
  <1> QED BY <1>2, <1>3, <1>4, <1>5, OverEffect

\* People delete events in Outlook: the booking is then asked to go, and the
\* notification on its way.
LEMMA EventsOutside ==
    ASSUME IInv, ReadInv, EventsInv, NEW k, Workers = {k}, Outside
    PROVE  EventsInv'
  <1>0. UNCHANGED <<bookings, job, faulted>>
    BY OutsideEffect
  <1>1. /\ NotesIn(notes, events) /\ NotesIn(job[k].batch, events) /\ NotesIn(job[k].todo, events)
        /\ NotesTrue(notes, events) /\ NotesTrue(job[k].batch, events)
        /\ NotesTrue(job[k].todo, events)
    BY TheJob, TheEvents DEF JobOK, JobIn, EventOK
  <1>2. ASSUME DOMAIN events \subseteq DOMAIN events', asked \subseteq asked',
               notes \subseteq notes', NotesTrue(notes', events'),
               \A e \in DOMAIN events' \ DOMAIN events : ~Tagged(e)',
               \A e \in DOMAIN events :
                  /\ events'[e].booking = events[e].booking
                  /\ events'[e].live =>
                        /\ events[e].live
                        /\ events[e].moved \/ events'[e].room # events[e].room => events'[e].moved
                  /\ events[e].live /\ ~events'[e].live =>
                        /\ Deleted(e) \in notes'
                        /\ events[e].booking # 0 => events[e].booking \in asked'
        PROVE  EventsInv'
    <2>1. NotesTrue(job[k].batch, events') /\ NotesTrue(job[k].todo, events')
      BY <1>1, <1>2, NotesStayTrue
    <2>2. EventOK(job[k])'
      <3>1. /\ job[k].seen.event # 0 => job[k].seen.event \in DOMAIN events
            /\ job[k].pc = "remove" /\ job[k].op = "post" => job[k].event \in DOMAIN events
            /\ job[k].pc = "attach" => /\ job[k].event \in DOMAIN events
                                       /\ events[job[k].event].booking = job[k].id
                                       /\ job[k].id # 0
        <4>1. job[k].pc = "remove" /\ job[k].op = "post" => job[k].event \in DOMAIN events
          <5> SUFFICES ASSUME job[k].pc = "remove", job[k].op = "post"
                       PROVE  job[k].event \in DOMAIN events
            OBVIOUS
          <5>1. /\ job[k].id \in DOMAIN bookings /\ bookings[job[k].id].event = job[k].event
                /\ job[k].event # 0
            BY TheEvents DEF EventOK, ReadOK, OfBooking
          <5> QED BY <5>1, TheJob
        <4>2. job[k].seen.event # 0 => job[k].seen.event \in DOMAIN events
          BY TheEvents DEF JobOK, JobIn
        <4>3. job[k].pc = "attach" => /\ job[k].event \in DOMAIN events
                                      /\ events[job[k].event].booking = job[k].id
                                      /\ job[k].id # 0
          BY TheEvents, TheJob DEF JobOK, JobIn
        <4> QED BY <4>1, <4>2, <4>3
      <3>2. EventOK(job[k])
        BY TheEvents
      <3>3. /\ job[k].op = "post" /\ job[k].pc = "remove" => ~events'[job[k].event].live
            /\ job[k].op = "update" /\ job[k].pc \in {"link", "attach"} /\ ~faulted =>
                 ~events'[job[k].seen.event].live
            /\ job[k].op = "delete" /\ job[k].pc = "remove" /\ ~faulted =>
                 job[k].seen.event = 0 \/ ~events'[job[k].seen.event].live
        BY <1>2, <3>1, <3>2 DEF EventOK
      <3>4. job[k].pc = "attach" /\ ~faulted =>
               IF events'[job[k].event].live
               THEN events'[job[k].event].room = job[k].room \/ events'[job[k].event].moved
               ELSE job[k].id \in asked' /\ Deleted(job[k].event) \in notes'
        BY <1>2, <3>1, <3>2 DEF EventOK
      <3> QED BY <1>0, <1>2, <2>1, <3>2, <3>3, <3>4 DEF EventOK
    <2>3. ASSUME ~faulted, NEW e \in DOMAIN events' PROVE Owned(e, job[k])'
      <3>1. CASE e \notin DOMAIN events
        BY <1>2, <3>1 DEF Owned
      <3>2. CASE e \in DOMAIN events
        <4>1. Owned(e, job[k])
          BY <2>3, <3>2, TheEvents
        <4> QED BY <1>0, <1>2, <3>2, <4>1 DEF Owned, Tagged, LinkedTo
      <3> QED BY <3>1, <3>2
    <2>4. ASSUME ~faulted, NEW i \in DOMAIN bookings' PROVE Matched(i, job[k])'
      <3>1. Matched(i, job[k]) /\ i \in DOMAIN bookings /\ i # 0
        BY <1>0, <2>4, TheEvents, TheJob
      <3>2. bookings[i].event # 0 =>
               bookings[i].event \in DOMAIN events /\ events[bookings[i].event].booking = i
        BY <3>1, TheJob
      <3> QED BY <1>0, <1>2, <3>1, <3>2 DEF Matched
    <2> QED BY <1>0, <1>2, <2>2, <2>3, <2>4, TheEvents, EventsGoal
  <1>3. ASSUME \A e \in DOMAIN events : events'[e].live => events[e].live,
               NEW m, notes' = notes \cup {m},
               m.kind = "deleted" => ~events'[m.event].live /\ m = Deleted(m.event)
        PROVE  NotesTrue(notes', events')
    <2>1. NotesTrue(notes, events')
      BY <1>1, <1>3, NotesStayTrue
    <2> QED BY <1>3, <2>1 DEF NotesTrue
  <1>4. ASSUME NEW n, NEW r, NEW w,
               DOMAIN events' = DOMAIN events \cup {n}, n \notin DOMAIN events,
               \A e \in DOMAIN events : events'[e] = events[e],
               events'[n].booking = 0,
               notes' = notes \cup {Note("created", n, r, w.start, w.end)}, UNCHANGED asked
        PROVE  EventsInv'
    <2> DEFINE m == Note("created", n, r, w.start, w.end)
    <2>1. m.kind = "created"
      BY TimesOf
    <2> HIDE DEF m
    <2>2. NotesTrue(notes', events')
      BY <1>3, <1>4, <2>1 DEF m
    <2>3. \A e \in DOMAIN events' \ DOMAIN events : ~Tagged(e)'
      BY <1>4 DEF Tagged
    <2> QED BY <1>2, <1>4, <2>2, <2>3
  <1>5. ASSUME NEW e \in DOMAIN events, NEW w, DOMAIN events' = DOMAIN events,
               \A y \in DOMAIN events : y # e => events'[y] = events[y],
               events[e].live, events'[e].live, events'[e].booking = events[e].booking,
               events[e].moved \/ events'[e].room # events[e].room => events'[e].moved,
               notes' = notes \cup {Note("updated", e, Elsewhere, w.start, w.end)},
               UNCHANGED asked
        PROVE  EventsInv'
    <2> DEFINE m == Note("updated", e, Elsewhere, w.start, w.end)
    <2>1. m.kind = "updated"
      BY TimesOf
    <2> HIDE DEF m
    <2>2. NotesTrue(notes', events')
      BY <1>3, <1>5, <2>1 DEF m
    <2> QED BY <1>2, <1>5, <2>2
  <1>6. ASSUME NEW e \in DOMAIN events, DOMAIN events' = DOMAIN events,
               \A y \in DOMAIN events : y # e => events'[y] = events[y],
               ~events'[e].live, events'[e].booking = events[e].booking,
               notes' = notes \cup {Deleted(e)},
               asked' = asked \cup ({events[e].booking} \ {0})
        PROVE  EventsInv'
    <2>1. NotesTrue(notes', events')
      BY <1>3, <1>6, TimesOf
    <2> QED BY <1>2, <1>6, <2>1
  <1> QED BY <1>4, <1>5, <1>6, OutsideEffect

\* Nothing is at odds at first.
LEMMA EventsInit == Init => EventsInv
  BY IdleIs DEF Init, EventsInv, EventOK, NotesTrue, KeptUnlessAsked, BookingSurvives

\* Every step keeps it.
LEMMA EventsNext ==
    ASSUME NEW k, Workers = {k}
    PROVE  IInv /\ ReadInv /\ EventsInv /\ [Next]_vars => EventsInv'
  <1> SUFFICES ASSUME IInv, ReadInv, EventsInv, [Next]_vars PROVE EventsInv'
    OBVIOUS
  <1>1. CASE Request(k)
    BY <1>1, EventsStart, EventsInsert, EventsCreateEvent, EventsAttach, EventsCheck, EventsSave,
       EventsPatch, EventsDrop, EventsRemove DEF Request
  <1>2. CASE Notification(k) \/ Fail(k)
    BY <1>2, EventsPost, EventsNote, EventsRest DEF Notification
  <1>3. CASE Outside
    BY <1>3, EventsOutside
  <1>4. CASE UNCHANGED vars
    BY <1>4 DEF vars, EventsInv, EventOK, Owned, Matched, Tagged, LinkedTo, KeptUnlessAsked,
                BookingSurvives
  <1> QED BY <1>1, <1>2, <1>3, <1>4 DEF Next

\* The same, between any two calls.
LEMMA AlwaysEvents ==
    ASSUME NEW only, Workers = {only}
    PROVE  Spec => [](IInv /\ ReadInv /\ EventsInv)
  <1>1. Init => IInv /\ ReadInv /\ EventsInv
    BY InitIInv, ReadInit, EventsInit
  <1>2. IInv /\ ReadInv /\ EventsInv /\ [Next]_vars => (IInv /\ ReadInv /\ EventsInv)'
    BY NextIInv, ReadNext, EventsNext
  <1> QED BY <1>1, <1>2, PTL DEF Spec

\* When requests do not overlap and no call failed, then between two requests every
\* event Bookify made belongs to a booking, and the event of a booking is in its room,
\* unless people have changed its place since Bookify wrote it (notifications leave the
\* room of the booking alone), or its deletion is on the way, although each request
\* writes the table and the mailbox in calls of their own (CreateBookingAsync,
\* UpdateBookingAsync, DeleteBookingAsync, ApplyCalendarEventDeletedAsync) and people
\* edit the mailbox between any two of them.
THEOREM EventsMatch ==
    ASSUME NEW only, Workers = {only}
    PROVE  Spec => []EventsMatchBookings
  <1>1. IInv /\ ReadInv /\ EventsInv => EventsMatchBookings
    <2> SUFFICES ASSUME IInv, ReadInv, EventsInv, ~faulted, job[only] = Idle
                 PROVE  /\ \A e \in DOMAIN events : Tagged(e) => LinkedTo(e) # {}
                        /\ \A i \in DOMAIN bookings : bookings[i].live /\ bookings[i].event # 0 =>
                              LET e == events[bookings[i].event] IN
                                IF e.live THEN e.room = bookings[i].room \/ e.moved
                                          ELSE Deleted(bookings[i].event) \in notes
      BY DEF EventsMatchBookings
    <2>1. job[only].pc = "idle" /\ job[only].todo = {}
      BY IdleIs
    <2> QED BY <2>1, TheEvents DEF Owned, Matched
  <1>2. Spec => [](IInv /\ ReadInv /\ EventsInv)
    BY AlwaysEvents
  <1> QED BY <1>1, <1>2, PTL

\* When requests do not overlap and no call failed, a booking is in the table until
\* someone deletes it, here or in Outlook: no notification of Bookify's own changes
\* takes a booking away (ApplyCalendarEventDeletedAsync finds the booking of an event
\* that was replaced when the booking changed room no more).
THEOREM KeptAlways ==
    ASSUME NEW only, Workers = {only}
    PROVE  Spec => []KeptUnlessAsked
  <1>1. Spec => [](IInv /\ ReadInv /\ EventsInv)
    BY AlwaysEvents
  <1> QED BY <1>1, PTL DEF EventsInv

=============================================================================
