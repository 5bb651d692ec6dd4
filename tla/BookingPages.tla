---------------------------- MODULE BookingPages ----------------------------
(***************************************************************************)
(* Bookify: the main page of the browser client with its two dialogs, over  *)
(* the REST interface (lib/api.ts).  One dialog books a room or edits a     *)
(* booking; the other lists the bookings of a room, deletes them and hands  *)
(* one to the first for editing.                                            *)
(*                                                                         *)
(* The dialogs are components that stay mounted while closed: what they     *)
(* hold, and what they asked for, outlives the closing, and their effects   *)
(* and continuations set the state of whatever is shown by then.  A request *)
(* is sent, served and settles; requests overtake each other.  A request    *)
(* that the client sees fail may have been carried out.                     *)
(***************************************************************************)
EXTENDS Naturals, FiniteSets

CONSTANTS
    Rooms,
    BookingIds,  \* ids the database may give
    NoRoom, NoBooking,
    Saves,       \* POST and PUT requests that may be under way at once
    Opens,       \* bookings dialog: GETs for its openings, under way at once
    Cancels,     \* DELETEs under way at once
    MaxSaves,    \* bound: saves that succeed
    MaxUnderWay, \* bound: the user clicks only while fewer requests are under way
    MaxClicks    \* bound: clicks that open a dialog or send a request

ASSUME PagesAssumption ==
    /\ NoRoom \notin Rooms /\ NoBooking \notin BookingIds
    /\ Opens \cap Cancels = {}
    /\ MaxSaves \in Nat /\ MaxUnderWay \in Nat /\ MaxClicks \in Nat

VARIABLES
    \* the server
    db,          \* the room of each booking; NoRoom when there is none
    given,       \* ids it gave so far
    \* Index.tsx
    loading, refreshing,
    grid,        \* the rooms shown: how many of the saves they reflect
    loadRooms,   \* the loads of the rooms: at the opening, and after each save
    refresh,     \* the GET of handleRefresh
    bookingDialog, bookingsDialog,
    \* BookingDialog.tsx
    selectedTime, \* whether a time is picked
    isSaving,
    save,        \* its requests
    \* RoomBookingsDialog.tsx
    bookings,    \* the rows, and the room they were listed for
    bookingsLoading,
    deletingId,
    list,        \* its GETs: for the openings, and for the reload after a DELETE
    cancel,      \* its DELETEs
    \* history
    told,        \* saves the page was told of
    roomsRaced,  \* a load of the rooms failed, or began while another was under way
    mixed,       \* a list failed, or the dialog opened while it worked on another room
    dismissed,   \* the booking dialog was dismissed while it saved
    clicks

serverVars == <<db, given>>
gridVars == <<loading, refreshing, grid, loadRooms, refresh, roomsRaced>>
formVars == <<selectedTime, isSaving, save, told, dismissed>>
listVars == <<bookings, bookingsLoading, deletingId, list, cancel, mixed>>
dialogVars == <<bookingDialog, bookingsDialog>>
pagesVars == <<serverVars, gridVars, formVars, listVars, dialogVars, clicks>>

Lists == Opens \cup Cancels
Stages == {"none", "sent", "ok", "error"}
NoLoad == [stage |-> "none", at |-> 0]
NoSave == [stage |-> "none", id |-> NoBooking, room |-> NoRoom]
NoList == [stage |-> "none", room |-> NoRoom, ids |-> {}]
NoCancel == [stage |-> "none", id |-> NoBooking, room |-> NoRoom]
SomeRoom == Rooms \cup {NoRoom}
SomeBooking == BookingIds \cup {NoBooking}
RoomLoads == [stage : Stages, at : 0 .. MaxSaves]

ServerTypeOK == db \in [BookingIds -> SomeRoom] /\ given \in SUBSET BookingIds

GridTypeOK ==
    /\ loading \in BOOLEAN /\ refreshing \in BOOLEAN /\ roomsRaced \in BOOLEAN
    /\ grid \in 0 .. MaxSaves
    /\ loadRooms \in [0 .. MaxSaves -> RoomLoads] /\ refresh \in RoomLoads

FormTypeOK ==
    /\ isSaving \in BOOLEAN /\ selectedTime \in BOOLEAN /\ dismissed \in BOOLEAN
    /\ told \in 0 .. MaxSaves
    /\ save \in [Saves -> [stage : Stages, id : SomeBooking, room : SomeRoom]]

ListTypeOK ==
    /\ bookingsLoading \in BOOLEAN /\ mixed \in BOOLEAN
    /\ bookings \in [room : SomeRoom, ids : SUBSET BookingIds]
    /\ deletingId \in SomeBooking
    /\ list \in [Lists -> [stage : Stages, room : SomeRoom, ids : SUBSET BookingIds]]
    /\ cancel \in [Cancels -> [stage : Stages \cup {"reloading"}, id : SomeBooking,
                               room : SomeRoom]]

DialogTypeOK ==
    /\ bookingDialog \in [open : BOOLEAN, roomId : SomeRoom, bookingToEdit : SomeBooking,
                          sent : BOOLEAN]
    /\ bookingsDialog \in [open : BOOLEAN, roomId : SomeRoom]

PagesTypeOK ==
    /\ ServerTypeOK /\ GridTypeOK /\ FormTypeOK /\ ListTypeOK /\ DialogTypeOK
    /\ clicks \in 0 .. MaxClicks

\* What a closed dialog was for is not told apart: opening it sets all of it.
Closed == [open |-> FALSE, roomId |-> NoRoom]
ClosedForm == [open |-> FALSE, roomId |-> NoRoom, bookingToEdit |-> NoBooking, sent |-> FALSE]

\* Any bookings; the page opens with a load of the rooms.
PagesInit ==
    /\ given \in SUBSET BookingIds
    /\ db \in {f \in [BookingIds -> SomeRoom] :
                  \A b \in BookingIds : (b \in given) = (f[b] # NoRoom)}
    /\ loading = TRUE /\ refreshing = FALSE /\ grid = 0
    /\ loadRooms = [n \in 0 .. MaxSaves |-> IF n = 0 THEN [NoLoad EXCEPT !.stage = "sent"]
                                                      ELSE NoLoad]
    /\ refresh = NoLoad
    /\ bookingDialog = ClosedForm /\ bookingsDialog = Closed
    /\ selectedTime = FALSE /\ isSaving = FALSE
    /\ save = [v \in Saves |-> NoSave]
    /\ bookings = [room |-> NoRoom, ids |-> {}]
    /\ bookingsLoading = FALSE /\ deletingId = NoBooking
    /\ list = [q \in Lists |-> NoList]
    /\ cancel = [d \in Cancels |-> NoCancel]
    /\ told = 0 /\ roomsRaced = FALSE /\ mixed = FALSE /\ dismissed = FALSE
    /\ clicks = 0

-----------------------------------------------------------------------------

UnderWay ==
    Cardinality({n \in 0 .. MaxSaves : loadRooms[n] # NoLoad}
                \cup {q \in Lists : list[q] # NoList} \cup {v \in Saves : save[v] # NoSave})
    + Cardinality({d \in Cancels : cancel[d].stage \in Stages \ {"none"}})
    + IF refreshing THEN 1 ELSE 0

\* A click that opens a dialog or sends a request.
Click == /\ UnderWay < MaxUnderWay
         /\ clicks < MaxClicks
         /\ clicks' = clicks + 1

\* The rooms

LoadingRooms == refresh # NoLoad \/ \E n \in 0 .. MaxSaves : loadRooms[n] # NoLoad

\* The page itself can be clicked: the rooms are shown, and no dialog above them.
CardsLive == ~loading /\ ~bookingDialog.open /\ ~bookingsDialog.open

handleRefresh ==
    /\ CardsLive /\ ~refreshing /\ Click
    /\ refreshing' = TRUE
    /\ refresh' = [refresh EXCEPT !.stage = "sent"]
    /\ roomsRaced' = (roomsRaced \/ LoadingRooms)
    /\ UNCHANGED <<loading, grid, loadRooms>>
    /\ UNCHANGED <<serverVars, formVars, listVars, dialogVars>>

\* The server lists the rooms as they are now, or fails.
Listing == {[stage |-> "ok", at |-> told], [stage |-> "error", at |-> 0]}

GetRooms(n) ==
    /\ loadRooms[n].stage = "sent"
    /\ \E answer \in Listing : loadRooms' = [loadRooms EXCEPT ![n] = answer]
    /\ UNCHANGED <<loading, refreshing, grid, refresh, roomsRaced>>
    /\ UNCHANGED <<serverVars, formVars, listVars, dialogVars>>

RefreshRooms ==
    /\ refresh.stage = "sent"
    /\ refresh' \in Listing
    /\ UNCHANGED <<loading, refreshing, grid, loadRooms, roomsRaced>>
    /\ UNCHANGED <<serverVars, formVars, listVars, dialogVars>>

SetMeetingRooms(answer) ==
    /\ answer.stage \in {"ok", "error"}
    /\ grid' = IF answer.stage = "ok" THEN answer.at ELSE grid
    /\ roomsRaced' = (roomsRaced \/ answer.stage = "error")

LoadRoomsSettles(n) ==
    /\ SetMeetingRooms(loadRooms[n])
    /\ loadRooms' = [loadRooms EXCEPT ![n] = NoLoad]
    /\ loading' = FALSE
    /\ UNCHANGED <<refreshing, refresh>>
    /\ UNCHANGED <<serverVars, formVars, listVars, dialogVars>>

RefreshSettles ==
    /\ SetMeetingRooms(refresh)
    /\ refresh' = NoLoad
    /\ refreshing' = FALSE
    /\ UNCHANGED <<loading, loadRooms>>
    /\ UNCHANGED <<serverVars, formVars, listVars, dialogVars>>

-----------------------------------------------------------------------------
\* The booking dialog

\* Opening, or another booking to edit, fills the form anew: with the booking's time, or
\* with none.  isSaving is not touched.
OpenBookingDialog(room, booking) ==
    /\ bookingDialog' = [open |-> TRUE, roomId |-> room, bookingToEdit |-> booking,
                         sent |-> FALSE]
    /\ selectedTime' = (booking # NoBooking)
    /\ UNCHANGED <<isSaving, save, told, dismissed>>

handleBook(room) ==
    /\ CardsLive /\ Click
    /\ OpenBookingDialog(room, NoBooking)
    /\ UNCHANGED <<bookingsDialog, serverVars, gridVars, listVars>>

PickTime ==
    /\ bookingDialog.open
    /\ ~selectedTime
    /\ selectedTime' = TRUE
    /\ UNCHANGED <<isSaving, save, told, dismissed>>
    /\ UNCHANGED <<serverVars, gridVars, listVars, dialogVars>>

\* A plausible bug: the dialog forgets that it saves.
DismissAndForget ==
    /\ bookingDialog.open
    /\ bookingDialog' = ClosedForm
    /\ selectedTime' = FALSE /\ isSaving' = FALSE
    /\ dismissed' = (dismissed \/ isSaving)
    /\ UNCHANGED <<save, told, bookingsDialog>>
    /\ UNCHANGED <<serverVars, gridVars, listVars>>

\* Escape, the corner cross or a click outside, which nothing disables; or Cancel.
DismissBookingDialog ==
    /\ bookingDialog.open
    /\ bookingDialog' = ClosedForm
    /\ selectedTime' = FALSE
    /\ dismissed' = (dismissed \/ isSaving)
    /\ UNCHANGED <<isSaving, save, told, bookingsDialog>>
    /\ UNCHANGED <<serverVars, gridVars, listVars>>

\* A plausible bug: the button stays enabled while the dialog saves.
handleSaveAgain ==
    /\ bookingDialog.open
    /\ selectedTime
    /\ told < MaxSaves /\ Click
    /\ \E v \in Saves :
         /\ save[v] = NoSave
         /\ save' = [save EXCEPT ![v] = [stage |-> "sent", id |-> bookingDialog.bookingToEdit,
                                         room |-> bookingDialog.roomId]]
    /\ bookingDialog' = [bookingDialog EXCEPT !.sent = TRUE]
    /\ UNCHANGED <<selectedTime, isSaving, told, dismissed, bookingsDialog>>
    /\ UNCHANGED <<serverVars, gridVars, listVars>>

handleSave ==
    /\ bookingDialog.open
    /\ selectedTime
    /\ ~isSaving
    /\ told < MaxSaves /\ Click
    /\ isSaving' = TRUE
    /\ \E v \in Saves :
         /\ save[v] = NoSave
         /\ save' = [save EXCEPT ![v] = [stage |-> "sent", id |-> bookingDialog.bookingToEdit,
                                         room |-> bookingDialog.roomId]]
    /\ bookingDialog' = [bookingDialog EXCEPT !.sent = TRUE]
    /\ UNCHANGED <<selectedTime, told, dismissed, bookingsDialog>>
    /\ UNCHANGED <<serverVars, gridVars, listVars>>

\* The server books a room, or changes a booking that is still there.
Stored(v) ==
    IF save[v].id = NoBooking
    THEN \E b \in BookingIds \ given : /\ db' = [db EXCEPT ![b] = save[v].room]
                                       /\ given' = given \cup {b}
    ELSE /\ db[save[v].id] # NoRoom
         /\ db' = [db EXCEPT ![save[v].id] = save[v].room]
         /\ UNCHANGED given

ServeSave(v) ==
    /\ save[v].stage = "sent"
    /\ \/ Stored(v) /\ save' = [save EXCEPT ![v].stage = "ok"]
       \/ (Stored(v) \/ UNCHANGED serverVars) /\ save' = [save EXCEPT ![v].stage = "error"]
    /\ UNCHANGED <<selectedTime, isSaving, told, dismissed>>
    /\ UNCHANGED <<gridVars, listVars, dialogVars>>

\* A plausible bug: a success does not load the rooms.
SaveSettlesQuietly(v) ==
    /\ save[v].stage \in {"ok", "error"}
    /\ save' = [save EXCEPT ![v] = NoSave]
    /\ isSaving' = FALSE
    /\ bookingDialog' = IF save[v].stage = "ok" THEN ClosedForm ELSE bookingDialog
    /\ selectedTime' = (selectedTime /\ save[v].stage # "ok")
    /\ told' = IF save[v].stage = "ok" THEN told + 1 ELSE told
    /\ UNCHANGED <<dismissed, bookingsDialog, gridVars, serverVars, listVars>>

\* A success closes the booking dialog, whatever it shows by now, and loads the rooms.
SaveSettles(v) ==
    /\ save[v].stage \in {"ok", "error"}
    /\ save' = [save EXCEPT ![v] = NoSave]
    /\ isSaving' = FALSE
    /\ \/ /\ save[v].stage = "ok"
          /\ bookingDialog' = ClosedForm
          /\ selectedTime' = FALSE
          /\ told' = told + 1
          /\ loading' = TRUE
          /\ loadRooms' = [loadRooms EXCEPT ![told + 1].stage = "sent"]
          /\ roomsRaced' = (roomsRaced \/ LoadingRooms)
       \/ /\ save[v].stage = "error"
          /\ bookingDialog' = [bookingDialog EXCEPT !.sent = FALSE]
          /\ UNCHANGED <<selectedTime, told, loading, loadRooms, roomsRaced>>
    /\ UNCHANGED <<dismissed, bookingsDialog, refreshing, grid, refresh>>
    /\ UNCHANGED <<serverVars, listVars>>

-----------------------------------------------------------------------------
\* The bookings dialog

WorksOnOther(room) ==
    \/ \E q \in Lists : list[q].room \notin {room, NoRoom}
    \/ \E d \in Cancels : cancel[d].room \notin {room, NoRoom}

\* A plausible bug: the rows stay live while the list loads.
loadBookingsQuietly(q, room) ==
    /\ list[q] = NoList
    /\ list' = [list EXCEPT ![q] = [NoList EXCEPT !.stage = "sent", !.room = room]]
    /\ UNCHANGED bookingsLoading

loadBookings(q, room) ==
    /\ list[q] = NoList
    /\ list' = [list EXCEPT ![q] = [NoList EXCEPT !.stage = "sent", !.room = room]]
    /\ bookingsLoading' = TRUE

\* The rows of the last room stay until the answer for this one.
handleViewBookings(room) ==
    /\ CardsLive /\ Click
    /\ bookingsDialog' = [open |-> TRUE, roomId |-> room]
    /\ \E q \in Opens : loadBookings(q, room)
    /\ mixed' = (mixed \/ WorksOnOther(room))
    /\ UNCHANGED <<bookings, deletingId, cancel, bookingDialog>>
    /\ UNCHANGED <<serverVars, gridVars, formVars>>

CloseBookingsDialog ==
    /\ bookingsDialog.open
    /\ bookingsDialog' = Closed
    /\ UNCHANGED <<bookingDialog, serverVars, gridVars, formVars, listVars>>

GetRoomBookings(q) ==
    /\ list[q].stage = "sent"
    /\ \/ list' = [list EXCEPT ![q].stage = "ok",
                               ![q].ids = {b \in BookingIds : db[b] = list[q].room}]
       \/ list' = [list EXCEPT ![q].stage = "error"]
    /\ UNCHANGED <<bookings, bookingsLoading, deletingId, cancel, mixed>>
    /\ UNCHANGED <<serverVars, gridVars, formVars, dialogVars>>

\* The rows become those of the answer, whatever room the dialog is for by now.  The
\* reload after a deletion ends that deletion.
LoadBookingsSettles(q) ==
    /\ list[q].stage \in {"ok", "error"}
    /\ bookings' = IF list[q].stage = "ok" THEN [room |-> list[q].room, ids |-> list[q].ids]
                                           ELSE bookings
    /\ mixed' = (mixed \/ list[q].stage = "error")
    /\ bookingsLoading' = FALSE
    /\ list' = [list EXCEPT ![q] = NoList]
    /\ IF q \in Cancels
       THEN deletingId' = NoBooking /\ cancel' = [cancel EXCEPT ![q] = NoCancel]
       ELSE UNCHANGED <<deletingId, cancel>>
    /\ UNCHANGED <<serverVars, gridVars, formVars, dialogVars>>

\* A plausible bug: rows can be clicked while the list loads.
RowsAlwaysLive == bookingsDialog.open

RowsLive == bookingsDialog.open /\ ~bookingsLoading

handleDelete(b) ==
    /\ RowsLive
    /\ b \in bookings.ids
    /\ deletingId # b /\ Click
    /\ deletingId' = b
    /\ \E d \in Cancels :
         /\ cancel[d] = NoCancel
         /\ cancel' = [cancel EXCEPT ![d] = [stage |-> "sent", id |-> b,
                                             room |-> bookingsDialog.roomId]]
    /\ UNCHANGED <<bookings, bookingsLoading, list, mixed>>
    /\ UNCHANGED <<serverVars, gridVars, formVars, dialogVars>>

CancelBooking(d) ==
    /\ cancel[d].stage = "sent"
    /\ \E answer \in {"ok", "error"} :
         /\ cancel' = [cancel EXCEPT ![d].stage = answer]
         /\ answer = "ok" => db[cancel[d].id] # NoRoom
         /\ db' \in {[db EXCEPT ![cancel[d].id] = NoRoom]} \cup {db : x \in {answer} \ {"ok"}}
    /\ UNCHANGED <<given, bookings, bookingsLoading, deletingId, list, mixed>>
    /\ UNCHANGED <<gridVars, formVars, dialogVars>>

\* A success lists the room again that the dialog was for when Delete was clicked.
CancelSettles(d) ==
    /\ \/ /\ cancel[d].stage = "ok"
          /\ cancel' = [cancel EXCEPT ![d].stage = "reloading"]
          /\ loadBookings(d, cancel[d].room)
          /\ UNCHANGED deletingId
       \/ /\ cancel[d].stage = "error"
          /\ cancel' = [cancel EXCEPT ![d] = NoCancel]
          /\ deletingId' = NoBooking
          /\ UNCHANGED <<list, bookingsLoading>>
    /\ UNCHANGED <<bookings, mixed>>
    /\ UNCHANGED <<serverVars, gridVars, formVars, dialogVars>>

\* Edit: the row goes to the booking dialog, with the room of the bookings dialog.
handleEditFromDialog(b) ==
    /\ RowsLive
    /\ b \in bookings.ids
    /\ Click
    /\ bookingsDialog' = Closed
    /\ OpenBookingDialog(bookingsDialog.roomId, b)
    /\ UNCHANGED <<serverVars, gridVars, listVars>>

-----------------------------------------------------------------------------

UserNext ==
    \/ handleRefresh \/ handleSave
    \/ \E room \in Rooms : handleBook(room) \/ handleViewBookings(room)
    \/ \E b \in BookingIds : handleDelete(b) \/ handleEditFromDialog(b)

RefreshProgress == (RefreshRooms \/ RefreshSettles) /\ UNCHANGED clicks
RoomsProgress(n) == (GetRooms(n) \/ LoadRoomsSettles(n)) /\ UNCHANGED clicks
SaveProgress(v) == (ServeSave(v) \/ SaveSettles(v)) /\ UNCHANGED clicks
ListProgress(q) == (GetRoomBookings(q) \/ LoadBookingsSettles(q)) /\ UNCHANGED clicks
CancelProgress(d) == (CancelBooking(d) \/ CancelSettles(d)) /\ UNCHANGED clicks

PagesNext ==
    \/ UserNext
    \/ (PickTime \/ DismissBookingDialog \/ CloseBookingsDialog) /\ UNCHANGED clicks
    \/ RefreshProgress
    \/ \E n \in 0 .. MaxSaves : RoomsProgress(n)
    \/ \E v \in Saves : SaveProgress(v)
    \/ \E q \in Lists : ListProgress(q)
    \/ \E d \in Cancels : CancelProgress(d)

\* Every request is served or refused and every answer reaches the page; the user need
\* not do anything.
PagesFair ==
    /\ WF_pagesVars(RefreshProgress)
    /\ \A n \in 0 .. MaxSaves : WF_pagesVars(RoomsProgress(n))
    /\ \A v \in Saves : WF_pagesVars(SaveProgress(v))
    /\ \A q \in Lists : WF_pagesVars(ListProgress(q))
    /\ \A d \in Cancels : WF_pagesVars(CancelProgress(d))

PagesSpec == PagesInit /\ [][PagesNext]_pagesVars /\ PagesFair

-----------------------------------------------------------------------------

(* The bookings dialog shows rows of another room than its title's only      *)
(* after it was opened while it still worked on another room, or after a     *)
(* list failed (the rows of the room before stay).  Opened and answered in   *)
(* turn it is always right.                                                  *)
RowsAreOfTheRoom == RowsLive => bookings.room = bookingsDialog.roomId \/ mixed

(* An edit takes the booking from the row and the room from the title: the   *)
(* mix-up then moves the booking to the other room.  Nothing else moves one. *)
MovedOnlyIfMixed ==
    [][\A b \in BookingIds :
          db[b] # NoRoom /\ db'[b] # NoRoom /\ db'[b] # db[b] => mixed]_pagesVars

(* However often the dialog is dismissed and opened again while it saves,    *)
(* one save is under way at most: isSaving outlives the closing.             *)
AtMostOneSave ==
    \A v, w \in Saves : save[v] # NoSave /\ save[w] # NoSave => v = w /\ isSaving

(* A form the user is filling in closes without being asked only when an     *)
(* earlier one was dismissed while it saved: the success of that save closes *)
(* whatever the dialog shows by then.                                        *)
ClosesItsOwnForm ==
    [][bookingDialog.open /\ ~bookingDialog.sent /\ ~bookingDialog'.open =>
          DismissBookingDialog \/ dismissed]_pagesVars

(* When nothing loads any more the rooms shown reflect every save the user   *)
(* was told of, unless two loads overlapped (the older may settle last) or   *)
(* one failed.                                                               *)
GridKnowsSaves == LoadingRooms \/ grid = told \/ roomsRaced

(* Once the user clicks no more, no dialog and no button stays busy: saving, *)
(* loading, refreshing and deleting end, whichever requests overlapped or    *)
(* failed.                                                                   *)
PagesSettle ==
    <>[](~(isSaving \/ loading \/ refreshing \/ bookingsLoading) /\ deletingId = NoBooking)

=============================================================================
