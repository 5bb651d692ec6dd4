--------------------------- MODULE BookingPages_proofs ---------------------------
(***************************************************************************)
(* Proofs about Bookify's pages, for every set of rooms, bookings and       *)
(* requests and every bound.                                                *)
(***************************************************************************)
EXTENDS BookingPages, TLAPS

\* What the parts of the pages rely on.  The two dialogs are never open together; a save is
\* under way while the dialog that sent it shows, or was dismissed; its success has room.
DialogsApart == ~(bookingDialog.open /\ bookingsDialog.open)

SavesShown ==
    \A v \in Saves : save[v] # NoSave =>
        /\ told < MaxSaves
        /\ dismissed \/ (bookingDialog.open /\ bookingDialog.sent)

FormOK == AtMostOneSave /\ DialogsApart /\ SavesShown

\* What makes GridKnowsSaves inductive: until loads of the rooms overlap or fail, an answer
\* still to come in holds every save the user was told of.
LoadOK(load) == load.stage = "ok" => load.at = told

GridOK ==
    /\ GridKnowsSaves
    /\ roomsRaced \/ (LoadOK(refresh) /\ \A n \in 0 .. MaxSaves : LoadOK(loadRooms[n]))

\* What makes RowsAreOfTheRoom inductive: until the dialog is mixed up, all it works on is
\* for the room of its title.
WorkOfTheRoom ==
    mixed \/ (bookingsDialog.open => ~WorksOnOther(bookingsDialog.roomId))

\* What is under way for the bookings dialog is for some room.
ForARoom ==
    /\ bookingsDialog.open => bookingsDialog.roomId \in Rooms
    /\ \A q \in Lists : list[q] # NoList => list[q].room \in Rooms
    /\ \A d \in Cancels : cancel[d] # NoCancel => cancel[d].room \in Rooms

\* What makes MovedOnlyIfMixed inductive: a booking that was listed, is being edited or is
\* being saved is of the room it was listed for, or gone.
Is(b, room) == b \in given /\ db[b] \in {room, NoRoom}

OfItsRoom ==
    /\ \A b \in BookingIds : db[b] # NoRoom => b \in given
    /\ mixed \/
       /\ \A b \in bookings.ids : Is(b, bookings.room)
       /\ \A q \in Lists : \A b \in list[q].ids : Is(b, list[q].room)
       /\ bookingDialog.bookingToEdit # NoBooking =>
             Is(bookingDialog.bookingToEdit, bookingDialog.roomId)
       /\ \A v \in Saves : save[v].id # NoBooking => Is(save[v].id, save[v].room)

PagesInv == /\ PagesTypeOK /\ FormOK /\ GridOK
        /\ ForARoom /\ WorkOfTheRoom /\ RowsAreOfTheRoom /\ OfItsRoom

-----------------------------------------------------------------------------
(* Type correctness.                                                        *)

\* Requests that are not under way, and closed dialogs, are of their types.
LEMMA PagesNothing ==
    /\ NoSave \in [stage : Stages, id : SomeBooking, room : SomeRoom]
    /\ NoList \in [stage : Stages, room : SomeRoom, ids : SUBSET BookingIds]
    /\ NoCancel \in [stage : Stages \cup {"reloading"}, id : SomeBooking, room : SomeRoom]
    /\ NoLoad \in RoomLoads
    /\ [NoLoad EXCEPT !.stage = "sent"] \in RoomLoads
  BY PagesAssumption
     DEF NoSave, NoList, NoCancel, NoLoad, RoomLoads, Stages, SomeBooking, SomeRoom

LEMMA ListingType == ASSUME told \in 0 .. MaxSaves PROVE Listing \subseteq RoomLoads
  BY PagesAssumption DEF Listing, RoomLoads, Stages

LEMMA NothingShown ==
    /\ ClosedForm \in [open : BOOLEAN, roomId : SomeRoom, bookingToEdit : SomeBooking,
                       sent : BOOLEAN]
    /\ Closed \in [open : BOOLEAN, roomId : SomeRoom]
  BY DEF ClosedForm, Closed, SomeBooking, SomeRoom

LEMMA PagesTypeInit == PagesInit => PagesTypeOK
  <1> SUFFICES ASSUME PagesInit PROVE PagesTypeOK
    OBVIOUS
  <1> USE DEF PagesInit
  <1>1. ServerTypeOK
    BY DEF ServerTypeOK, SomeRoom
  <1>2. GridTypeOK
    <2>1. loadRooms \in [0 .. MaxSaves -> RoomLoads] /\ refresh \in RoomLoads
      BY PagesNothing
    <2>2. grid \in 0 .. MaxSaves
      BY PagesAssumption
    <2> QED
      BY <2>1, <2>2 DEF GridTypeOK
  <1>3. FormTypeOK
    <2>1. told \in 0 .. MaxSaves
      BY PagesAssumption
    <2>2. save \in [Saves -> [stage : Stages, id : SomeBooking, room : SomeRoom]]
      BY PagesNothing
    <2> QED
      BY <2>1, <2>2 DEF FormTypeOK
  <1>4. ListTypeOK
    BY PagesNothing DEF ListTypeOK, SomeBooking, SomeRoom
  <1>5. DialogTypeOK
    BY NothingShown DEF DialogTypeOK
  <1> QED
    BY <1>1, <1>2, <1>3, <1>4, <1>5, PagesAssumption DEF PagesTypeOK

\* Groups of variables that a step leaves alone keep to their types.
LEMMA TypeSame ==
    /\ ServerTypeOK /\ UNCHANGED serverVars => ServerTypeOK'
    /\ GridTypeOK /\ UNCHANGED gridVars => GridTypeOK'
    /\ FormTypeOK /\ UNCHANGED formVars => FormTypeOK'
    /\ ListTypeOK /\ UNCHANGED listVars => ListTypeOK'
    /\ DialogTypeOK /\ UNCHANGED dialogVars => DialogTypeOK'
  <1>1. ServerTypeOK /\ UNCHANGED serverVars => ServerTypeOK'
    BY DEF ServerTypeOK, serverVars
  <1>2. GridTypeOK /\ UNCHANGED gridVars => GridTypeOK'
    BY DEF GridTypeOK, gridVars
  <1>3. FormTypeOK /\ UNCHANGED formVars => FormTypeOK'
    BY DEF FormTypeOK, formVars
  <1>4. ListTypeOK /\ UNCHANGED listVars => ListTypeOK'
    BY DEF ListTypeOK, listVars
  <1>5. DialogTypeOK /\ UNCHANGED dialogVars => DialogTypeOK'
    BY DEF DialogTypeOK, dialogVars
  <1> QED
    BY <1>1, <1>2, <1>3, <1>4, <1>5

LEMMA TypeRooms ==
    ASSUME GridTypeOK, told \in 0 .. MaxSaves, RefreshRooms \/ RefreshSettles
    PROVE  GridTypeOK'
  <1>1. CASE RefreshRooms
    BY <1>1, ListingType DEF GridTypeOK, RefreshRooms
  <1>2. CASE RefreshSettles
    <2>1. grid' \in 0 .. MaxSaves /\ roomsRaced' \in BOOLEAN
      BY <1>2 DEF GridTypeOK, RefreshSettles, SetMeetingRooms, RoomLoads
    <2> QED
      BY <1>2, <2>1, PagesNothing DEF GridTypeOK, RefreshSettles
  <1> QED
    BY <1>1, <1>2

LEMMA TypeLoad ==
    ASSUME GridTypeOK, told \in 0 .. MaxSaves, NEW n \in 0 .. MaxSaves,
           GetRooms(n) \/ LoadRoomsSettles(n)
    PROVE  GridTypeOK'
  <1>1. CASE GetRooms(n)
    <2>1. loadRooms' \in [0 .. MaxSaves -> RoomLoads]
      BY <1>1, ListingType DEF GridTypeOK, GetRooms
    <2> QED
      BY <1>1, <2>1 DEF GridTypeOK, GetRooms
  <1>2. CASE LoadRoomsSettles(n)
    <2>1. loadRooms[n] \in RoomLoads
      BY DEF GridTypeOK
    <2>2. grid' \in 0 .. MaxSaves /\ roomsRaced' \in BOOLEAN
      BY <1>2, <2>1 DEF GridTypeOK, LoadRoomsSettles, SetMeetingRooms, RoomLoads
    <2>3. loadRooms' \in [0 .. MaxSaves -> RoomLoads]
      BY <1>2, PagesNothing DEF GridTypeOK, LoadRoomsSettles
    <2> QED
      BY <1>2, <2>2, <2>3 DEF GridTypeOK, LoadRoomsSettles
  <1> QED
    BY <1>1, <1>2

LEMMA TypeHandleRefresh == ASSUME GridTypeOK, handleRefresh PROVE GridTypeOK'
  <1>1. refresh' \in RoomLoads
    BY DEF GridTypeOK, handleRefresh, RoomLoads, Stages
  <1>2. roomsRaced' \in BOOLEAN
    BY DEF GridTypeOK, handleRefresh, LoadingRooms
  <1> QED
    BY <1>1, <1>2 DEF GridTypeOK, handleRefresh

\* Opening a dialog.
LEMMA TypeOpen ==
    ASSUME FormTypeOK, NEW room \in SomeRoom, NEW b \in SomeBooking, OpenBookingDialog(room, b)
    PROVE  /\ FormTypeOK'
           /\ bookingDialog' \in [open : BOOLEAN, roomId : SomeRoom,
                                  bookingToEdit : SomeBooking, sent : BOOLEAN]
  BY DEF FormTypeOK, OpenBookingDialog

LEMMA TypeHandleSave ==
    ASSUME FormTypeOK, DialogTypeOK, handleSave PROVE FormTypeOK' /\ DialogTypeOK'
  <1>1. save' \in [Saves -> [stage : Stages, id : SomeBooking, room : SomeRoom]]
    BY DEF FormTypeOK, DialogTypeOK, handleSave, Stages
  <1>2. DialogTypeOK'
    BY DEF DialogTypeOK, handleSave
  <1> QED
    BY <1>1, <1>2 DEF FormTypeOK, handleSave

LEMMA TypeServeSave ==
    ASSUME ServerTypeOK, FormTypeOK, NEW v \in Saves, ServeSave(v)
    PROVE  ServerTypeOK' /\ FormTypeOK'
  <1>1. ASSUME Stored(v) PROVE ServerTypeOK'
    BY <1>1 DEF ServerTypeOK, FormTypeOK, Stored
  <1>2. ServerTypeOK'
    BY <1>1, TypeSame DEF ServeSave
  <1>3. save' \in [Saves -> [stage : Stages, id : SomeBooking, room : SomeRoom]]
    BY DEF FormTypeOK, ServeSave, Stages
  <1> QED
    BY <1>2, <1>3 DEF FormTypeOK, ServeSave

LEMMA TypeSaveSettles ==
    ASSUME GridTypeOK, FormTypeOK, DialogTypeOK, SavesShown, NEW v \in Saves, SaveSettles(v)
    PROVE  GridTypeOK' /\ FormTypeOK' /\ DialogTypeOK'
  <1>1. save' \in [Saves -> [stage : Stages, id : SomeBooking, room : SomeRoom]]
    BY PagesNothing DEF FormTypeOK, SaveSettles
  <1>2. told < MaxSaves
    BY DEF SavesShown, SaveSettles, NoSave
  <1>3. told' \in 0 .. MaxSaves
    BY <1>2, PagesAssumption DEF FormTypeOK, SaveSettles
  <1>4. FormTypeOK'
    BY <1>1, <1>3 DEF FormTypeOK, SaveSettles
  <1>5. DialogTypeOK'
    BY NothingShown DEF DialogTypeOK, SaveSettles
  <1>6. loadRooms' \in [0 .. MaxSaves -> RoomLoads]
    BY DEF GridTypeOK, SaveSettles, RoomLoads, Stages
  <1>7. roomsRaced' \in BOOLEAN
    BY DEF GridTypeOK, SaveSettles, LoadingRooms
  <1> QED
    BY <1>4, <1>5, <1>6, <1>7 DEF GridTypeOK, SaveSettles

\* The bookings dialog.
LEMMA TypeView ==
    ASSUME ListTypeOK, DialogTypeOK, NEW room \in Rooms, handleViewBookings(room)
    PROVE  ListTypeOK' /\ DialogTypeOK'
  <1>1. PICK q \in Opens : loadBookings(q, room)
    BY DEF handleViewBookings
  <1>2. list' \in [Lists -> [stage : Stages, room : SomeRoom, ids : SUBSET BookingIds]]
    BY <1>1 DEF ListTypeOK, loadBookings, NoList, Stages, SomeRoom
  <1>3. mixed' \in BOOLEAN
    BY DEF handleViewBookings, ListTypeOK, WorksOnOther
  <1>4. DialogTypeOK'
    BY DEF DialogTypeOK, handleViewBookings, SomeRoom
  <1> QED
    BY <1>1, <1>2, <1>3, <1>4 DEF ListTypeOK, handleViewBookings, loadBookings

LEMMA PagesTypeList ==
    ASSUME ListTypeOK, NEW q \in Lists, GetRoomBookings(q) \/ LoadBookingsSettles(q)
    PROVE  ListTypeOK'
  <1>1. CASE GetRoomBookings(q)
    <2> DEFINE Found == {b \in BookingIds : db[b] = list[q].room}
    <2>1. Found \in SUBSET BookingIds
      OBVIOUS
    <2>2. list' \in [Lists -> [stage : Stages, room : SomeRoom, ids : SUBSET BookingIds]]
      <3> HIDE DEF Found
      <3>1. \/ list' = [list EXCEPT ![q].stage = "ok", ![q].ids = Found]
            \/ list' = [list EXCEPT ![q].stage = "error"]
        BY <1>1 DEF GetRoomBookings, Found
      <3> QED
        BY <2>1, <3>1 DEF ListTypeOK, Stages
    <2> QED
      BY <1>1, <2>2 DEF ListTypeOK, GetRoomBookings
  <1>2. CASE LoadBookingsSettles(q)
    <2>1. list' \in [Lists -> [stage : Stages, room : SomeRoom, ids : SUBSET BookingIds]]
      BY <1>2, PagesNothing DEF ListTypeOK, LoadBookingsSettles
    <2>2. bookings' \in [room : SomeRoom, ids : SUBSET BookingIds]
      BY <1>2 DEF ListTypeOK, LoadBookingsSettles
    <2>3. /\ deletingId' \in SomeBooking
          /\ cancel' \in [Cancels -> [stage : Stages \cup {"reloading"}, id : SomeBooking,
                                      room : SomeRoom]]
      BY <1>2, PagesNothing DEF ListTypeOK, LoadBookingsSettles, SomeBooking
    <2>4. mixed' \in BOOLEAN /\ bookingsLoading' \in BOOLEAN
      BY <1>2 DEF ListTypeOK, LoadBookingsSettles
    <2> QED
      BY <2>1, <2>2, <2>3, <2>4 DEF ListTypeOK
  <1> QED
    BY <1>1, <1>2

LEMMA TypeHandleDelete ==
    ASSUME ListTypeOK, DialogTypeOK, NEW b \in BookingIds, handleDelete(b)
    PROVE  ListTypeOK'
  <1>1. cancel' \in [Cancels -> [stage : Stages \cup {"reloading"}, id : SomeBooking,
                                 room : SomeRoom]]
    BY DEF ListTypeOK, DialogTypeOK, handleDelete, Stages, SomeBooking
  <1> QED
    BY <1>1 DEF ListTypeOK, handleDelete, SomeBooking

LEMMA TypeCancelBooking ==
    ASSUME ServerTypeOK, ListTypeOK, NEW d \in Cancels, CancelBooking(d)
    PROVE  ServerTypeOK' /\ ListTypeOK'
  <1>1. cancel' \in [Cancels -> [stage : Stages \cup {"reloading"}, id : SomeBooking,
                                 room : SomeRoom]]
    BY DEF ListTypeOK, CancelBooking, Stages
  <1>2. db' = db \/ db' = [db EXCEPT ![cancel[d].id] = NoRoom]
    BY DEF CancelBooking
  <1>3. ServerTypeOK'
    BY <1>2 DEF ServerTypeOK, CancelBooking, SomeRoom
  <1> QED
    BY <1>1, <1>3 DEF ListTypeOK, CancelBooking

LEMMA TypeCancelSettles ==
    ASSUME ListTypeOK, NEW d \in Cancels, CancelSettles(d) PROVE ListTypeOK'
  <1>1. cancel' \in [Cancels -> [stage : Stages \cup {"reloading"}, id : SomeBooking,
                                 room : SomeRoom]]
    <2>1. CASE cancel' = [cancel EXCEPT ![d].stage = "reloading"]
      BY <2>1 DEF ListTypeOK
    <2>2. CASE cancel' = [cancel EXCEPT ![d] = NoCancel]
      BY <2>2, PagesNothing DEF ListTypeOK
    <2> QED
      BY <2>1, <2>2 DEF CancelSettles
  <1>2. list' \in [Lists -> [stage : Stages, room : SomeRoom, ids : SUBSET BookingIds]]
    <2>1. CASE loadBookings(d, cancel[d].room)
      BY <2>1 DEF ListTypeOK, loadBookings, NoList, Stages
    <2> QED
      BY <2>1 DEF ListTypeOK, CancelSettles
  <1> QED
    BY <1>1, <1>2 DEF ListTypeOK, CancelSettles, loadBookings, SomeBooking

\* The dialogs.
LEMMA TypeDismiss ==
    ASSUME FormTypeOK, DialogTypeOK, DismissBookingDialog PROVE FormTypeOK' /\ DialogTypeOK'
  BY NothingShown DEF FormTypeOK, DialogTypeOK, DismissBookingDialog

LEMMA TypeEdit ==
    ASSUME FormTypeOK, DialogTypeOK, NEW b \in BookingIds, handleEditFromDialog(b)
    PROVE  FormTypeOK' /\ DialogTypeOK'
  <1>1. b \in SomeBooking /\ bookingsDialog.roomId \in SomeRoom
    BY DEF DialogTypeOK, SomeBooking
  <1>2. OpenBookingDialog(bookingsDialog.roomId, b)
    BY DEF handleEditFromDialog
  <1> QED
    BY <1>1, <1>2, TypeOpen, NothingShown DEF DialogTypeOK, handleEditFromDialog

LEMMA TypeBook ==
    ASSUME FormTypeOK, DialogTypeOK, NEW room \in Rooms, handleBook(room)
    PROVE  FormTypeOK' /\ DialogTypeOK'
  <1>1. room \in SomeRoom /\ NoBooking \in SomeBooking
    BY DEF SomeBooking, SomeRoom
  <1>2. OpenBookingDialog(room, NoBooking)
    BY DEF handleBook
  <1> QED
    BY <1>1, <1>2, TypeOpen DEF DialogTypeOK, handleBook

LEMMA TypeClicks ==
    ASSUME clicks \in 0 .. MaxClicks, Click \/ UNCHANGED clicks PROVE clicks' \in 0 .. MaxClicks
  BY PagesAssumption DEF Click

\* The parts of the pages, and the actions that touch them.
LEMMA ServerSteps ==
    ASSUME [PagesNext]_pagesVars
    PROVE  \/ \E v \in Saves : ServeSave(v)
           \/ \E d \in Cancels : CancelBooking(d)
           \/ UNCHANGED serverVars
  BY DEF PagesNext, UserNext, RefreshProgress, RoomsProgress, SaveProgress, ListProgress,
         CancelProgress, pagesVars, handleRefresh, handleSave, handleBook, handleViewBookings,
         handleDelete, handleEditFromDialog, PickTime, DismissBookingDialog,
         CloseBookingsDialog, RefreshRooms, RefreshSettles, GetRooms, LoadRoomsSettles,
         SaveSettles, GetRoomBookings, LoadBookingsSettles, CancelSettles

LEMMA GridSteps ==
    ASSUME [PagesNext]_pagesVars
    PROVE  \/ handleRefresh \/ RefreshRooms \/ RefreshSettles
           \/ \E n \in 0 .. MaxSaves : GetRooms(n) \/ LoadRoomsSettles(n)
           \/ \E v \in Saves : SaveSettles(v)
           \/ UNCHANGED <<gridVars, told>>
  BY DEF PagesNext, UserNext, RefreshProgress, RoomsProgress, SaveProgress, ListProgress,
         CancelProgress, pagesVars, formVars, handleSave, handleBook, handleViewBookings,
         OpenBookingDialog, handleDelete, handleEditFromDialog, PickTime,
         DismissBookingDialog, CloseBookingsDialog, ServeSave, GetRoomBookings,
         LoadBookingsSettles, CancelBooking, CancelSettles

LEMMA FormSteps ==
    ASSUME [PagesNext]_pagesVars
    PROVE  \/ handleSave \/ PickTime \/ DismissBookingDialog \/ CloseBookingsDialog
           \/ \E room \in Rooms : handleBook(room) \/ handleViewBookings(room)
           \/ \E b \in BookingIds : handleEditFromDialog(b)
           \/ \E v \in Saves : ServeSave(v) \/ SaveSettles(v)
           \/ UNCHANGED <<formVars, dialogVars>>
  BY DEF PagesNext, UserNext, RefreshProgress, RoomsProgress, SaveProgress, ListProgress,
         CancelProgress, pagesVars, handleRefresh, handleDelete, RefreshRooms,
         RefreshSettles, GetRooms, LoadRoomsSettles, GetRoomBookings, LoadBookingsSettles,
         CancelBooking, CancelSettles

LEMMA ListSteps ==
    ASSUME [PagesNext]_pagesVars
    PROVE  \/ \E room \in Rooms : handleViewBookings(room)
           \/ \E b \in BookingIds : handleDelete(b) \/ handleEditFromDialog(b)
           \/ CloseBookingsDialog
           \/ \E q \in Lists : GetRoomBookings(q) \/ LoadBookingsSettles(q)
           \/ \E d \in Cancels : CancelBooking(d) \/ CancelSettles(d)
           \/ UNCHANGED <<listVars, bookingsDialog>>
  BY DEF PagesNext, UserNext, RefreshProgress, RoomsProgress, SaveProgress, ListProgress,
         CancelProgress, pagesVars, dialogVars, handleRefresh, handleSave, handleBook,
         PickTime, DismissBookingDialog, RefreshRooms, RefreshSettles, GetRooms,
         LoadRoomsSettles, ServeSave, SaveSettles

\* A step keeps every part to its type.
LEMMA PagesTypeNext ==
    ASSUME PagesTypeOK, SavesShown, [PagesNext]_pagesVars PROVE PagesTypeOK'
  <1> USE DEF PagesTypeOK
  <1>1. ServerTypeOK'
    BY ServerSteps, TypeServeSave, TypeCancelBooking, TypeSame
  <1>2. GridTypeOK'
    <2>1. told \in 0 .. MaxSaves
      BY DEF FormTypeOK
    <2>2. UNCHANGED <<gridVars, told>> => UNCHANGED gridVars
      OBVIOUS
    <2> QED
      BY <2>1, <2>2, GridSteps, TypeHandleRefresh, TypeRooms, TypeLoad, TypeSaveSettles,
         TypeSame
  <1>3. FormTypeOK' /\ DialogTypeOK'
    <2>1. CASE \E room \in Rooms : handleViewBookings(room)
      BY <2>1, TypeView, TypeSame DEF handleViewBookings
    <2>2. CASE \E v \in Saves : ServeSave(v)
      BY <2>2, TypeServeSave, TypeSame DEF ServeSave
    <2>3. CASE PickTime \/ CloseBookingsDialog
      BY <2>3, NothingShown
         DEF FormTypeOK, DialogTypeOK, PickTime, CloseBookingsDialog, formVars, dialogVars
    <2>4. CASE UNCHANGED <<formVars, dialogVars>>
      BY <2>4, TypeSame
    <2> QED
      BY <2>1, <2>2, <2>3, <2>4, FormSteps, TypeHandleSave, TypeDismiss, TypeBook, TypeEdit,
         TypeSaveSettles
  <1>4. ListTypeOK'
    <2>1. CASE CloseBookingsDialog \/ \E b \in BookingIds : handleEditFromDialog(b)
      BY <2>1, TypeSame DEF CloseBookingsDialog, handleEditFromDialog
    <2>2. CASE UNCHANGED <<listVars, bookingsDialog>>
      BY <2>2, TypeSame
    <2> QED
      BY <2>1, <2>2, ListSteps, TypeView, TypeHandleDelete, PagesTypeList, TypeCancelBooking,
         TypeCancelSettles
  <1>5. clicks' \in 0 .. MaxClicks
    <2>1. Click \/ UNCHANGED clicks
      BY DEF PagesNext, UserNext, RefreshProgress, RoomsProgress, SaveProgress, ListProgress,
             CancelProgress, pagesVars, handleRefresh, handleSave, handleBook,
             handleViewBookings, handleDelete, handleEditFromDialog
    <2> QED
      BY <2>1, TypeClicks
  <1> QED
    BY <1>1, <1>2, <1>3, <1>4, <1>5

-----------------------------------------------------------------------------
(* The booking dialog: one save at a time, shown or dismissed.               *)

LEMMA FormInit == PagesInit => FormOK
  BY DEF PagesInit, FormOK, AtMostOneSave, DialogsApart, SavesShown, Closed, NoSave

\* While isSaving is false nothing is saved.
LEMMA NotSaving == ASSUME AtMostOneSave, ~isSaving, NEW v \in Saves PROVE save[v] = NoSave
  BY DEF AtMostOneSave

LEMMA FormHandleSave ==
    ASSUME FormTypeOK, DialogTypeOK, FormOK, handleSave PROVE FormOK'
  <1> USE DEF FormOK
  <1>1. PICK v \in Saves :
            save' = [save EXCEPT ![v] = [stage |-> "sent", id |-> bookingDialog.bookingToEdit,
                                         room |-> bookingDialog.roomId]]
    BY DEF handleSave
  <1>2. \A w \in Saves : w # v => save'[w] = NoSave
    BY <1>1, NotSaving DEF FormTypeOK, handleSave
  <1>3. AtMostOneSave'
    BY <1>2 DEF AtMostOneSave, handleSave
  <1>4. bookingDialog'.open /\ bookingDialog'.sent
    BY DEF DialogTypeOK, handleSave
  <1>5. DialogsApart'
    BY <1>4 DEF DialogsApart, handleSave
  <1>6. SavesShown'
    BY <1>4 DEF SavesShown, handleSave
  <1> QED
    BY <1>3, <1>5, <1>6

LEMMA FormServeSave ==
    ASSUME FormTypeOK, FormOK, NEW v \in Saves, ServeSave(v) PROVE FormOK'
  <1> USE DEF FormOK
  <1>1. save[v] # NoSave /\ \A w \in Saves : w # v => save'[w] = save[w]
    BY DEF FormTypeOK, ServeSave, NoSave
  <1>2. UNCHANGED <<isSaving, told, dismissed, bookingDialog, bookingsDialog>>
    BY DEF ServeSave, dialogVars
  <1>3. AtMostOneSave'
    BY <1>1, <1>2 DEF AtMostOneSave
  <1>4. SavesShown'
    BY <1>1, <1>2 DEF SavesShown
  <1> QED
    BY <1>2, <1>3, <1>4 DEF DialogsApart

LEMMA FormSaveSettles ==
    ASSUME FormTypeOK, DialogTypeOK, FormOK, NEW v \in Saves, SaveSettles(v) PROVE FormOK'
  <1> USE DEF FormOK
  <1>1. \A w \in Saves : save'[w] = NoSave
    BY DEF FormTypeOK, AtMostOneSave, SaveSettles, NoSave
  <1>2. bookingDialog'.open => bookingDialog.open
    BY DEF DialogTypeOK, SaveSettles, ClosedForm
  <1>3. DialogsApart'
    BY <1>2 DEF DialogsApart, SaveSettles
  <1> QED
    BY <1>1, <1>3 DEF AtMostOneSave, SavesShown

LEMMA FormNext == ASSUME PagesTypeOK, FormOK, [PagesNext]_pagesVars PROVE FormOK'
  <1> USE DEF FormOK
  <1>1. CASE handleSave \/ \E v \in Saves : ServeSave(v) \/ SaveSettles(v)
    BY <1>1, FormHandleSave, FormServeSave, FormSaveSettles DEF PagesTypeOK
  <1>2. CASE PickTime
    BY <1>2 DEF PickTime, dialogVars, AtMostOneSave, DialogsApart, SavesShown
  <1>3. CASE DismissBookingDialog
    BY <1>3 DEF DismissBookingDialog, ClosedForm, AtMostOneSave, DialogsApart, SavesShown
  <1>4. CASE CloseBookingsDialog
    BY <1>4 DEF CloseBookingsDialog, Closed, formVars, AtMostOneSave, DialogsApart, SavesShown
  <1>5. ASSUME NEW room \in Rooms, handleBook(room) PROVE FormOK'
    BY <1>5 DEF handleBook, OpenBookingDialog, CardsLive, AtMostOneSave, DialogsApart,
                SavesShown
  <1>6. ASSUME NEW room \in Rooms, handleViewBookings(room) PROVE FormOK'
    BY <1>6 DEF handleViewBookings, CardsLive, formVars, AtMostOneSave, DialogsApart,
                SavesShown
  <1>7. ASSUME NEW b \in BookingIds, handleEditFromDialog(b) PROVE FormOK'
    BY <1>7 DEF handleEditFromDialog, OpenBookingDialog, RowsLive, Closed, AtMostOneSave,
                DialogsApart, SavesShown
  <1>8. CASE UNCHANGED <<formVars, dialogVars>>
    BY <1>8 DEF formVars, dialogVars, AtMostOneSave, DialogsApart, SavesShown
  <1> QED
    BY <1>1, <1>2, <1>3, <1>4, <1>5, <1>6, <1>7, <1>8, FormSteps

-----------------------------------------------------------------------------
(* The rooms shown.                                                          *)

LEMMA GridInit == PagesInit => GridOK
  <1> SUFFICES ASSUME PagesInit PROVE GridOK
    OBVIOUS
  <1>1. GridKnowsSaves
    BY DEF PagesInit, GridKnowsSaves
  <1>2. LoadOK(refresh) /\ \A n \in 0 .. MaxSaves : LoadOK(loadRooms[n])
    BY DEF PagesInit, LoadOK, NoLoad
  <1> QED
    BY <1>1, <1>2 DEF GridOK

\* An answer served now is of now; one that settles makes the grid so.
LEMMA GridAnswer ==
    /\ \A answer \in Listing : LoadOK(answer) /\ answer # NoLoad
    /\ \A answer \in RoomLoads : LoadOK(answer) /\ SetMeetingRooms(answer)
                                  => grid' = told \/ roomsRaced'
  <1>1. \A answer \in Listing : LoadOK(answer) /\ answer # NoLoad
    BY DEF Listing, LoadOK, NoLoad
  <1>2. \A answer \in RoomLoads : LoadOK(answer) /\ SetMeetingRooms(answer)
                                   => grid' = told \/ roomsRaced'
    BY DEF SetMeetingRooms, LoadOK
  <1> QED
    BY <1>1, <1>2

\* Nothing that raced is forgotten.
LEMMA RacedStays == ASSUME roomsRaced, [PagesNext]_pagesVars PROVE roomsRaced'
  BY GridSteps
     DEF handleRefresh, RefreshRooms, RefreshSettles, GetRooms, LoadRoomsSettles, SaveSettles,
         SetMeetingRooms, gridVars

LEMMA GridServes ==
    ASSUME GridTypeOK, GridOK, ~roomsRaced,
           UNCHANGED <<told, grid, roomsRaced>>,
           \/ refresh # NoLoad /\ refresh' \in Listing /\ UNCHANGED loadRooms
           \/ /\ UNCHANGED refresh
              /\ \E n \in 0 .. MaxSaves, answer \in Listing :
                    loadRooms' = [loadRooms EXCEPT ![n] = answer]
    PROVE  GridOK'
  <1>1. CASE refresh # NoLoad /\ refresh' \in Listing /\ UNCHANGED loadRooms
    BY <1>1, GridAnswer DEF GridOK, GridKnowsSaves, LoadingRooms, LoadOK
  <1>2. ASSUME NEW n \in 0 .. MaxSaves, NEW answer \in Listing, UNCHANGED refresh,
               loadRooms' = [loadRooms EXCEPT ![n] = answer]
        PROVE  GridOK'
    <2>1. loadRooms'[n] = answer /\ \A m \in 0 .. MaxSaves \ {n} : loadRooms'[m] = loadRooms[m]
      BY <1>2 DEF GridTypeOK
    <2>2. answer # NoLoad /\ LoadOK(answer)
      BY GridAnswer
    <2> QED
      BY <1>2, <2>1, <2>2 DEF GridOK, GridKnowsSaves, LoadingRooms, LoadOK
  <1> QED
    BY <1>1, <1>2

LEMMA GridSettles ==
    ASSUME GridTypeOK, GridOK, ~roomsRaced, UNCHANGED told,
           \/ RefreshSettles
           \/ \E n \in 0 .. MaxSaves : LoadRoomsSettles(n)
    PROVE  GridOK'
  <1>1. CASE RefreshSettles
    BY <1>1, GridAnswer
       DEF GridTypeOK, GridOK, GridKnowsSaves, RefreshSettles, LoadOK, NoLoad
  <1>2. ASSUME NEW n \in 0 .. MaxSaves, LoadRoomsSettles(n) PROVE GridOK'
    <2>1. grid' = told \/ roomsRaced'
      BY <1>2, GridAnswer DEF GridTypeOK, GridOK, LoadRoomsSettles
    <2>2. \A m \in 0 .. MaxSaves : loadRooms'[m] \in {loadRooms[m], NoLoad}
      BY <1>2 DEF GridTypeOK, LoadRoomsSettles
    <2> QED
      BY <1>2, <2>1, <2>2 DEF GridOK, GridKnowsSaves, LoadRoomsSettles, LoadOK, NoLoad
  <1> QED
    BY <1>1, <1>2

LEMMA GridSaveSettles ==
    ASSUME GridTypeOK, FormTypeOK, GridOK, SavesShown, ~roomsRaced, ~roomsRaced',
           NEW v \in Saves, SaveSettles(v)
    PROVE  GridOK'
  <1>1. CASE save[v].stage = "error"
    BY <1>1 DEF SaveSettles, GridOK, GridKnowsSaves, LoadingRooms, LoadOK
  <1>2. CASE save[v].stage = "ok"
    <2>1. told + 1 \in 0 .. MaxSaves
      BY <1>2, PagesAssumption DEF SavesShown, NoSave, FormTypeOK
    <2>2. refresh = NoLoad /\ \A n \in 0 .. MaxSaves : loadRooms[n] = NoLoad
      BY <1>2 DEF SaveSettles, LoadingRooms
    <2>3. loadRooms' = [loadRooms EXCEPT ![told + 1].stage = "sent"]
      BY <1>2 DEF SaveSettles
    <2>4. loadRooms'[told + 1].stage = "sent"
      BY <2>1, <2>3 DEF GridTypeOK, RoomLoads
    <2>5. \A n \in 0 .. MaxSaves : n # told + 1 => loadRooms'[n] = NoLoad
      BY <2>1, <2>2, <2>3 DEF GridTypeOK
    <2>6. LoadingRooms'
      BY <2>1, <2>4 DEF LoadingRooms, NoLoad
    <2>7. LoadOK(refresh)' /\ \A n \in 0 .. MaxSaves : LoadOK(loadRooms[n])'
      BY <2>2, <2>4, <2>5 DEF LoadOK, NoLoad, SaveSettles
    <2> QED
      BY <2>6, <2>7 DEF GridOK, GridKnowsSaves
  <1> QED
    BY <1>1, <1>2 DEF SaveSettles

LEMMA GridNext ==
    ASSUME PagesTypeOK, GridOK, SavesShown, [PagesNext]_pagesVars PROVE GridOK'
  <1>1. CASE roomsRaced \/ roomsRaced'
    BY <1>1, RacedStays DEF GridOK, GridKnowsSaves
  <1>2. CASE ~roomsRaced /\ ~roomsRaced'
    <2>1. GridTypeOK /\ FormTypeOK
      BY DEF PagesTypeOK
    <2>2. CASE handleRefresh
      BY <1>2, <2>1, <2>2
         DEF handleRefresh, GridTypeOK, RoomLoads, GridOK, GridKnowsSaves, LoadingRooms,
             LoadOK, NoLoad, formVars
    <2>3. CASE RefreshRooms \/ \E n \in 0 .. MaxSaves : GetRooms(n)
      BY <1>2, <2>1, <2>3, GridServes DEF RefreshRooms, GetRooms, formVars, NoLoad
    <2>4. CASE RefreshSettles \/ \E n \in 0 .. MaxSaves : LoadRoomsSettles(n)
      BY <1>2, <2>1, <2>4, GridSettles DEF RefreshSettles, LoadRoomsSettles, formVars
    <2>5. CASE UNCHANGED <<gridVars, told>>
      BY <2>5 DEF gridVars, GridOK, GridKnowsSaves, LoadingRooms, LoadOK
    <2> QED
      BY <1>2, <2>1, <2>2, <2>3, <2>4, <2>5, GridSteps, GridSaveSettles
  <1> QED
    BY <1>1, <1>2

-----------------------------------------------------------------------------
(* The bookings dialog: all it works on is of its room, unless mixed up.     *)

DialogOK == ForARoom /\ WorkOfTheRoom /\ RowsAreOfTheRoom

LEMMA DialogInit == PagesInit => DialogOK
  BY DEF PagesInit, DialogOK, ForARoom, WorkOfTheRoom, RowsAreOfTheRoom, RowsLive, Closed

LEMMA MixedStays == ASSUME mixed, [PagesNext]_pagesVars PROVE mixed'
  BY ListSteps
     DEF handleViewBookings, handleDelete, handleEditFromDialog, CloseBookingsDialog,
         GetRoomBookings, LoadBookingsSettles, CancelBooking, CancelSettles, listVars

\* A list under way is for the room it was asked for.
LEMMA LoadsFor ==
    ASSUME ListTypeOK, NEW q \in Lists, NEW room \in Rooms, loadBookings(q, room)
    PROVE  /\ bookingsLoading'
           /\ list'[q].room = room
           /\ \A p \in Lists \ {q} : list'[p] = list[p]
  BY DEF ListTypeOK, loadBookings, NoList

LEMMA DialogView ==
    ASSUME ListTypeOK, DialogTypeOK, DialogOK, NEW room \in Rooms, handleViewBookings(room)
    PROVE  DialogOK'
  <1>1. PICK q \in Lists : loadBookings(q, room)
    BY DEF handleViewBookings, Lists
  <1>2. /\ bookingsLoading' /\ list'[q].room = room
        /\ \A p \in Lists \ {q} : list'[p] = list[p]
    BY <1>1, LoadsFor
  <1>3. bookingsDialog'.open /\ bookingsDialog'.roomId = room
    BY DEF handleViewBookings
  <1>4. ForARoom'
    BY <1>2, <1>3 DEF DialogOK, ForARoom, handleViewBookings
  <1>5. WorkOfTheRoom'
    BY <1>2, <1>3 DEF WorkOfTheRoom, WorksOnOther, handleViewBookings
  <1> QED
    BY <1>2, <1>4, <1>5 DEF DialogOK, RowsAreOfTheRoom, RowsLive

LEMMA DialogList ==
    ASSUME ListTypeOK, DialogOK, NEW q \in Lists, GetRoomBookings(q) \/ LoadBookingsSettles(q)
    PROVE  DialogOK'
  <1>1. UNCHANGED bookingsDialog
    BY DEF GetRoomBookings, LoadBookingsSettles, dialogVars
  <1>2. list[q] # NoList /\ list[q].room \in Rooms
    BY DEF GetRoomBookings, LoadBookingsSettles, DialogOK, ForARoom, NoList
  <1>3. CASE GetRoomBookings(q)
    <2>1. list'[q].room = list[q].room /\ \A p \in Lists \ {q} : list'[p] = list[p]
      BY <1>3 DEF ListTypeOK, GetRoomBookings
    <2>2. ForARoom'
      BY <1>1, <1>2, <1>3, <2>1 DEF DialogOK, ForARoom, GetRoomBookings
    <2>3. WorkOfTheRoom'
      BY <1>1, <1>3, <2>1 DEF DialogOK, WorkOfTheRoom, WorksOnOther, GetRoomBookings
    <2> QED
      BY <1>1, <1>3, <2>2, <2>3 DEF DialogOK, RowsAreOfTheRoom, RowsLive, GetRoomBookings
  <1>4. CASE LoadBookingsSettles(q)
    <2>1. \A p \in Lists : list'[p] \in {list[p], NoList}
      BY <1>4 DEF ListTypeOK, LoadBookingsSettles
    <2>2. \A d \in Cancels : cancel'[d] \in {cancel[d], NoCancel}
      BY <1>4 DEF ListTypeOK, LoadBookingsSettles
    <2>3. ForARoom'
      BY <1>1, <2>1, <2>2 DEF DialogOK, ForARoom
    <2>4. WorkOfTheRoom'
      <3>1. mixed => mixed'
        BY <1>4 DEF LoadBookingsSettles
      <3> QED
        BY <1>1, <2>1, <2>2, <3>1
           DEF DialogOK, WorkOfTheRoom, WorksOnOther, NoList, NoCancel
    <2>5. RowsAreOfTheRoom'
      <3>1. CASE list[q].stage = "error"
        BY <1>4, <3>1 DEF LoadBookingsSettles, RowsAreOfTheRoom
      <3>2. CASE list[q].stage = "ok" /\ bookingsDialog.open
        <4>1. bookings'.room = list[q].room /\ (mixed => mixed')
          BY <1>4, <3>2 DEF LoadBookingsSettles
        <4>2. mixed \/ list[q].room = bookingsDialog.roomId
          BY <1>2, <3>2, PagesAssumption DEF DialogOK, WorkOfTheRoom, WorksOnOther
        <4> QED
          BY <1>1, <4>1, <4>2 DEF RowsAreOfTheRoom
      <3> QED
        BY <1>1, <1>4, <3>1, <3>2 DEF LoadBookingsSettles, RowsAreOfTheRoom, RowsLive
    <2> QED
      BY <2>3, <2>4, <2>5 DEF DialogOK
  <1> QED
    BY <1>3, <1>4

LEMMA DialogDelete ==
    ASSUME ListTypeOK, DialogOK, NEW b \in BookingIds, handleDelete(b) PROVE DialogOK'
  <1>1. PICK d \in Cancels :
            cancel' = [cancel EXCEPT ![d] = [stage |-> "sent", id |-> b,
                                             room |-> bookingsDialog.roomId]]
    BY DEF handleDelete
  <1>2. /\ cancel'[d].room = bookingsDialog.roomId
        /\ \A e \in Cancels \ {d} : cancel'[e] = cancel[e]
    BY <1>1 DEF ListTypeOK
  <1>3. bookingsDialog.open /\ UNCHANGED <<bookingsDialog, bookings, bookingsLoading, list, mixed>>
    BY DEF handleDelete, RowsLive, dialogVars
  <1>4. ForARoom'
    BY <1>2, <1>3 DEF DialogOK, ForARoom
  <1>5. WorkOfTheRoom'
    BY <1>2, <1>3 DEF DialogOK, WorkOfTheRoom, WorksOnOther
  <1> QED
    BY <1>3, <1>4, <1>5 DEF DialogOK, RowsAreOfTheRoom, RowsLive

LEMMA DialogCancel ==
    ASSUME ListTypeOK, DialogOK, NEW d \in Cancels, CancelBooking(d) \/ CancelSettles(d)
    PROVE  DialogOK'
  <1>1. UNCHANGED <<bookingsDialog, bookings, mixed>>
    BY DEF CancelBooking, CancelSettles, dialogVars
  <1>2. cancel[d] # NoCancel /\ cancel[d].room \in Rooms
    BY DEF CancelBooking, CancelSettles, DialogOK, ForARoom, NoCancel
  <1>3. \A e \in Cancels : \/ cancel'[e] = NoCancel
                           \/ cancel[e] # NoCancel /\ cancel'[e].room = cancel[e].room
                           \/ cancel'[e] = cancel[e]
    BY <1>2 DEF ListTypeOK, CancelBooking, CancelSettles
  <1>4. d \in Lists
    BY DEF Lists
  <1>5. \/ UNCHANGED <<list, bookingsLoading>>
        \/ /\ bookingsLoading' /\ list'[d].room = cancel[d].room
           /\ \A p \in Lists \ {d} : list'[p] = list[p]
    BY <1>2, <1>4, LoadsFor DEF CancelBooking, CancelSettles
  <1>6. ForARoom'
    BY <1>1, <1>2, <1>3, <1>5 DEF DialogOK, ForARoom
  <1>7. WorkOfTheRoom'
    BY <1>1, <1>2, <1>3, <1>4, <1>5 DEF DialogOK, WorkOfTheRoom, WorksOnOther, NoCancel
  <1> QED
    BY <1>1, <1>5, <1>6, <1>7 DEF DialogOK, RowsAreOfTheRoom, RowsLive

LEMMA DialogNext == ASSUME PagesTypeOK, DialogOK, [PagesNext]_pagesVars PROVE DialogOK'
  <1> USE DEF PagesTypeOK
  <1>1. CASE CloseBookingsDialog \/ \E b \in BookingIds : handleEditFromDialog(b)
    <2>1. ~bookingsDialog'.open /\ UNCHANGED <<list, cancel>>
      BY <1>1 DEF CloseBookingsDialog, handleEditFromDialog, Closed, listVars
    <2> QED
      BY <2>1 DEF DialogOK, ForARoom, WorkOfTheRoom, RowsAreOfTheRoom, RowsLive
  <1>2. CASE UNCHANGED <<listVars, bookingsDialog>>
    BY <1>2 DEF listVars, DialogOK, ForARoom, WorkOfTheRoom, WorksOnOther, RowsAreOfTheRoom,
                RowsLive
  <1> QED
    BY <1>1, <1>2, ListSteps, DialogView, DialogList, DialogDelete, DialogCancel

-----------------------------------------------------------------------------
(* Bookings keep their room.                                                 *)

LEMMA RoomInit == PagesInit => OfItsRoom
  <1> SUFFICES ASSUME PagesInit PROVE OfItsRoom
    OBVIOUS
  <1>1. \A b \in BookingIds : db[b] # NoRoom => b \in given
    BY DEF PagesInit
  <1>2. /\ bookings.ids = {} /\ bookingDialog.bookingToEdit = NoBooking
        /\ \A q \in Lists : list[q].ids = {}
        /\ \A v \in Saves : save[v].id = NoBooking
    BY DEF PagesInit, ClosedForm, NoList, NoSave
  <1> QED
    BY <1>1, <1>2 DEF OfItsRoom

\* A step of the server keeps what is of its room so: a new booking has an id that was
\* never given, an edit that is of its room moves nothing, and a deletion leaves no room.
DbStep ==
    /\ given \subseteq given'
    /\ \A b \in BookingIds : db'[b] # NoRoom => b \in given'
    /\ mixed \/ \A b \in given \cap BookingIds : db'[b] \in {db[b], NoRoom}

LEMMA RoomServeSave ==
    ASSUME ServerTypeOK, FormTypeOK, OfItsRoom, NEW v \in Saves, ServeSave(v) PROVE DbStep
  <1>1. CASE UNCHANGED serverVars
    BY <1>1 DEF serverVars, OfItsRoom, DbStep
  <1>2. CASE save[v].id = NoBooking /\ Stored(v)
    BY <1>2 DEF ServerTypeOK, Stored, OfItsRoom, DbStep
  <1>3. CASE save[v].id # NoBooking /\ Stored(v)
    BY <1>3 DEF ServerTypeOK, FormTypeOK, SomeBooking, Stored, OfItsRoom, DbStep, Is
  <1> QED
    BY <1>1, <1>2, <1>3 DEF ServeSave

LEMMA RoomCancel ==
    ASSUME ServerTypeOK, ListTypeOK, OfItsRoom, NEW d \in Cancels, CancelBooking(d)
    PROVE  DbStep
  <1>1. db' = db \/ db' = [db EXCEPT ![cancel[d].id] = NoRoom]
    BY DEF CancelBooking
  <1> QED
    BY <1>1 DEF ServerTypeOK, CancelBooking, OfItsRoom, DbStep

LEMMA RoomServer ==
    ASSUME PagesTypeOK, OfItsRoom, [PagesNext]_pagesVars PROVE DbStep
  <1>1. CASE UNCHANGED serverVars
    BY <1>1 DEF serverVars, OfItsRoom, DbStep
  <1> QED
    BY <1>1, ServerSteps, RoomServeSave, RoomCancel DEF PagesTypeOK

\* What the pages hold after a step they held before, or took from what is of its room.
LEMMA RoomForm ==
    ASSUME PagesTypeOK, DialogOK, OfItsRoom, ~mixed, [PagesNext]_pagesVars
    PROVE  /\ bookingDialog'.bookingToEdit # NoBooking =>
                 Is(bookingDialog'.bookingToEdit, bookingDialog'.roomId)
           /\ \A v \in Saves : save'[v].id # NoBooking => Is(save'[v].id, save'[v].room)
  <1> DEFINE Goal == /\ bookingDialog'.bookingToEdit # NoBooking =>
                           Is(bookingDialog'.bookingToEdit, bookingDialog'.roomId)
                     /\ \A v \in Saves :
                           save'[v].id # NoBooking => Is(save'[v].id, save'[v].room)
  <1>1. /\ \A b \in bookings.ids : Is(b, bookings.room)
        /\ bookingDialog.bookingToEdit # NoBooking =>
              Is(bookingDialog.bookingToEdit, bookingDialog.roomId)
        /\ \A v \in Saves : save[v].id # NoBooking => Is(save[v].id, save[v].room)
    BY DEF OfItsRoom
  <1>2. CASE handleSave
    <2>1. \A v \in Saves : \/ save'[v] = save[v]
                          \/ /\ save'[v].id = bookingDialog.bookingToEdit
                             /\ save'[v].room = bookingDialog.roomId
      BY <1>2 DEF PagesTypeOK, FormTypeOK, handleSave
    <2>2. /\ bookingDialog'.bookingToEdit = bookingDialog.bookingToEdit
          /\ bookingDialog'.roomId = bookingDialog.roomId
      BY <1>2 DEF PagesTypeOK, DialogTypeOK, handleSave
    <2> QED
      BY <1>1, <2>1, <2>2
  <1>3. ASSUME NEW b \in BookingIds, handleEditFromDialog(b) PROVE Goal
    <2>1. /\ bookingDialog'.bookingToEdit = b
          /\ bookingDialog'.roomId = bookingsDialog.roomId /\ UNCHANGED save
      BY <1>3 DEF handleEditFromDialog, OpenBookingDialog
    <2>2. b \in bookings.ids /\ bookings.room = bookingsDialog.roomId
      BY <1>3 DEF handleEditFromDialog, DialogOK, RowsAreOfTheRoom
    <2> QED
      BY <1>1, <2>1, <2>2
  <1>4. CASE \E room \in Rooms : handleBook(room)
    BY <1>1, <1>4 DEF handleBook, OpenBookingDialog
  <1>5. ASSUME NEW v \in Saves, ServeSave(v) PROVE Goal
    <2>1. \A w \in Saves : save'[w].id = save[w].id /\ save'[w].room = save[w].room
      BY <1>5 DEF PagesTypeOK, FormTypeOK, ServeSave
    <2> QED
      BY <1>1, <1>5, <2>1 DEF ServeSave, dialogVars
  <1>6. ASSUME NEW v \in Saves, SaveSettles(v) PROVE Goal
    <2>1. \A w \in Saves : save'[w] \in {save[w], NoSave}
      BY <1>6 DEF PagesTypeOK, FormTypeOK, SaveSettles
    <2>2. \/ bookingDialog'.bookingToEdit = NoBooking
          \/ /\ bookingDialog'.bookingToEdit = bookingDialog.bookingToEdit
             /\ bookingDialog'.roomId = bookingDialog.roomId
      BY <1>6 DEF PagesTypeOK, DialogTypeOK, SaveSettles, ClosedForm
    <2> QED
      BY <1>1, <2>1, <2>2 DEF NoSave
  <1>7. CASE \/ PickTime \/ CloseBookingsDialog \/ UNCHANGED <<formVars, dialogVars>>
             \/ \E room \in Rooms : handleViewBookings(room)
    BY <1>1, <1>7 DEF PickTime, CloseBookingsDialog, handleViewBookings, formVars, dialogVars
  <1>8. CASE DismissBookingDialog
    BY <1>1, <1>8 DEF DismissBookingDialog, ClosedForm
  <1> QED
    BY <1>2, <1>3, <1>4, <1>5, <1>6, <1>7, <1>8, FormSteps

LEMMA RoomList ==
    ASSUME PagesTypeOK, DialogOK, OfItsRoom, ~mixed, [PagesNext]_pagesVars
    PROVE  /\ \A b \in bookings'.ids : Is(b, bookings'.room)
           /\ \A q \in Lists : \A b \in list'[q].ids : Is(b, list'[q].room)
  <1> DEFINE Goal == /\ \A b \in bookings'.ids : Is(b, bookings'.room)
                     /\ \A q \in Lists : \A b \in list'[q].ids : Is(b, list'[q].room)
             Asks == \E q \in Lists, room \in Rooms : loadBookings(q, room)
  <1>1. /\ \A b \in bookings.ids : Is(b, bookings.room)
        /\ \A q \in Lists : \A b \in list[q].ids : Is(b, list[q].room)
    BY DEF OfItsRoom
  <1>2. CASE Asks /\ UNCHANGED bookings
    <2>1. PICK q \in Lists, room \in Rooms : loadBookings(q, room)
      BY <1>2
    <2>2. list'[q].ids = {} /\ \A p \in Lists \ {q} : list'[p] = list[p]
      BY <2>1 DEF PagesTypeOK, ListTypeOK, loadBookings, NoList
    <2> QED
      BY <1>1, <1>2, <2>2
  <1>3. ASSUME NEW q \in Lists, GetRoomBookings(q) PROVE Goal
    <2>1. list[q].room \in Rooms
      BY <1>3 DEF GetRoomBookings, DialogOK, ForARoom, NoList
    <2>2. \A p \in Lists : list'[p].room = list[p].room
      BY <1>3 DEF PagesTypeOK, ListTypeOK, GetRoomBookings
    <2> DEFINE Found == {b \in BookingIds : db[b] = list[q].room}
    <2>3. \A p \in Lists : list'[p].ids = list[p].ids \/ (list'[p].ids = Found /\ p = q)
      <3> HIDE DEF Found
      <3>1. \/ list' = [list EXCEPT ![q].stage = "ok", ![q].ids = Found]
            \/ list' = [list EXCEPT ![q].stage = "error"]
        BY <1>3 DEF GetRoomBookings, Found
      <3> QED
        BY <3>1 DEF PagesTypeOK, ListTypeOK
    <2>4. \A b \in BookingIds : db[b] = list[q].room => Is(b, list[q].room)
      BY <2>1, PagesAssumption DEF OfItsRoom, Is
    <2> QED
      BY <1>1, <1>3, <2>2, <2>3, <2>4 DEF GetRoomBookings
  <1>4. ASSUME NEW q \in Lists, LoadBookingsSettles(q) PROVE Goal
    <2>1. \A p \in Lists : list'[p] \in {list[p], NoList}
      BY <1>4 DEF PagesTypeOK, ListTypeOK, LoadBookingsSettles
    <2>2. \/ bookings' = bookings
          \/ bookings' = [room |-> list[q].room, ids |-> list[q].ids]
      BY <1>4 DEF LoadBookingsSettles
    <2> QED
      BY <1>1, <2>1, <2>2 DEF NoList
  <1>5. CASE UNCHANGED <<bookings, list>>
    BY <1>1, <1>5
  <1> HIDE DEF Goal
  <1>6. \/ Asks /\ UNCHANGED bookings
        \/ \E q \in Lists : GetRoomBookings(q) \/ LoadBookingsSettles(q)
        \/ UNCHANGED <<bookings, list>>
    <2>1. ASSUME NEW room \in Rooms, handleViewBookings(room)
          PROVE  Asks /\ UNCHANGED bookings
      BY <2>1 DEF handleViewBookings, Lists
    <2>2. ASSUME NEW d \in Cancels, CancelSettles(d)
          PROVE  (Asks \/ UNCHANGED list) /\ UNCHANGED bookings
      <3>1. cancel[d].stage = "ok" => cancel[d].room \in Rooms
        BY DEF DialogOK, ForARoom, NoCancel
      <3>2. d \in Lists
        BY DEF Lists
      <3> QED
        BY <2>2, <3>1, <3>2 DEF CancelSettles
    <2>3. CASE \/ \E b \in BookingIds : handleDelete(b) \/ handleEditFromDialog(b)
               \/ CloseBookingsDialog \/ \E d \in Cancels : CancelBooking(d)
               \/ UNCHANGED <<listVars, bookingsDialog>>
      BY <2>3 DEF handleDelete, handleEditFromDialog, CloseBookingsDialog, CancelBooking,
                  listVars
    <2> QED
      BY <2>1, <2>2, <2>3, ListSteps
  <1> HIDE DEF Asks
  <1> QED
    BY <1>2, <1>3, <1>4, <1>5, <1>6 DEF Goal

LEMMA RoomNext ==
    ASSUME PagesTypeOK, PagesTypeOK', DialogOK, OfItsRoom, [PagesNext]_pagesVars
    PROVE  OfItsRoom'
  <1>1. DbStep
    BY RoomServer
  <1>2. CASE mixed
    BY <1>1, <1>2, MixedStays DEF DbStep, OfItsRoom
  <1>3. CASE ~mixed
    <2>1. \A b \in BookingIds, room \in SomeRoom : Is(b, room) => Is(b, room)'
      BY <1>1, <1>3 DEF DbStep, Is
    <2>2. /\ bookings'.ids \subseteq BookingIds /\ bookings'.room \in SomeRoom
          /\ \A q \in Lists : list'[q].ids \subseteq BookingIds /\ list'[q].room \in SomeRoom
      BY DEF PagesTypeOK, ListTypeOK
    <2>3. /\ bookingDialog'.bookingToEdit \in SomeBooking /\ bookingDialog'.roomId \in SomeRoom
          /\ \A v \in Saves : save'[v].id \in SomeBooking /\ save'[v].room \in SomeRoom
      BY DEF PagesTypeOK, FormTypeOK, DialogTypeOK
    <2>4. /\ \A b \in bookings'.ids : Is(b, bookings'.room)
          /\ \A q \in Lists : \A b \in list'[q].ids : Is(b, list'[q].room)
      BY <1>3, RoomList
    <2>5. /\ bookingDialog'.bookingToEdit # NoBooking =>
                Is(bookingDialog'.bookingToEdit, bookingDialog'.roomId)
          /\ \A v \in Saves : save'[v].id # NoBooking => Is(save'[v].id, save'[v].room)
      BY <1>3, RoomForm
    <2>6. /\ \A b \in bookings'.ids : Is(b, bookings.room)'
          /\ \A q \in Lists : \A b \in list'[q].ids : Is(b, list[q].room)'
      BY <2>1, <2>2, <2>4
    <2>7. /\ bookingDialog'.bookingToEdit # NoBooking =>
                Is(bookingDialog.bookingToEdit, bookingDialog.roomId)'
          /\ \A v \in Saves : save'[v].id # NoBooking => Is(save[v].id, save[v].room)'
      BY <2>1, <2>3, <2>5 DEF SomeBooking
    <2> QED
      BY <1>1, <2>6, <2>7 DEF DbStep, OfItsRoom
  <1> QED
    BY <1>2, <1>3

-----------------------------------------------------------------------------
(* The theorems.                                                             *)

LEMMA Inductive == PagesInv /\ [PagesNext]_pagesVars => PagesInv'
  <1> SUFFICES ASSUME PagesInv, [PagesNext]_pagesVars PROVE PagesInv'
    OBVIOUS
  <1>1. PagesTypeOK'
    BY PagesTypeNext DEF PagesInv, FormOK
  <1>2. FormOK'
    BY FormNext DEF PagesInv
  <1>3. GridOK'
    BY GridNext DEF PagesInv, FormOK
  <1>4. DialogOK'
    BY DialogNext DEF PagesInv, DialogOK
  <1>5. OfItsRoom'
    BY <1>1, RoomNext DEF PagesInv, DialogOK
  <1> QED
    BY <1>1, <1>2, <1>3, <1>4, <1>5 DEF PagesInv, DialogOK

LEMMA PagesStart == PagesInit => PagesInv
  BY PagesTypeInit, FormInit, GridInit, DialogInit, RoomInit DEF PagesInv, DialogOK

LEMMA PagesInvariant == PagesSpec => []PagesInv
  BY PagesStart, Inductive, PTL DEF PagesSpec

\* Every variable of the page keeps to its type.
THEOREM PagesTypeCorrect == PagesSpec => []PagesTypeOK
  <1>1. PagesInv => PagesTypeOK
    BY DEF PagesInv
  <1> QED
    BY <1>1, PagesInvariant, PTL

\* However the booking dialog is dismissed and opened again, one save is under way at most.
THEOREM OneSave == PagesSpec => []AtMostOneSave
  <1>1. PagesInv => AtMostOneSave
    BY DEF PagesInv, FormOK
  <1> QED
    BY <1>1, PagesInvariant, PTL

\* Once nothing loads, the rooms reflect every save the user was told of, unless loads raced.
THEOREM GridKnows == PagesSpec => []GridKnowsSaves
  <1>1. PagesInv => GridKnowsSaves
    BY DEF PagesInv, GridOK
  <1> QED
    BY <1>1, PagesInvariant, PTL

\* Rows that can be clicked are of the room in the title, unless the dialog is mixed up.
THEOREM RowsOfTheRoom == PagesSpec => []RowsAreOfTheRoom
  <1>1. PagesInv => RowsAreOfTheRoom
    BY DEF PagesInv
  <1> QED
    BY <1>1, PagesInvariant, PTL

\* A booking changes its room only after the dialog was mixed up.
THEOREM MovedMixed == PagesSpec => MovedOnlyIfMixed
  <1>1. ASSUME PagesInv, [PagesNext]_pagesVars
        PROVE  [\A b \in BookingIds :
                   db[b] # NoRoom /\ db'[b] # NoRoom /\ db'[b] # db[b] => mixed]_pagesVars
    <2>1. DbStep
      BY <1>1, RoomServer DEF PagesInv
    <2>2. \A b \in BookingIds : db[b] # NoRoom => b \in given
      BY <1>1 DEF PagesInv, OfItsRoom
    <2> QED
      BY <2>1, <2>2 DEF DbStep
  <1> QED
    BY <1>1, PagesInvariant, PTL DEF PagesSpec, MovedOnlyIfMixed

\* A form closes under the user's hands only after an earlier one was dismissed while it
\* saved.
THEOREM ClosesOwn == PagesSpec => ClosesItsOwnForm
  <1>1. ASSUME PagesInv, [PagesNext]_pagesVars
        PROVE  [bookingDialog.open /\ ~bookingDialog.sent /\ ~bookingDialog'.open =>
                   DismissBookingDialog \/ dismissed]_pagesVars
    <2>1. CASE \/ handleSave \/ PickTime \/ CloseBookingsDialog
               \/ \E room \in Rooms : handleBook(room) \/ handleViewBookings(room)
               \/ \E b \in BookingIds : handleEditFromDialog(b)
               \/ \E v \in Saves : ServeSave(v)
               \/ UNCHANGED <<formVars, dialogVars>>
      <3>1. bookingDialog.open => bookingDialog'.open
        BY <1>1, <2>1
           DEF PagesInv, PagesTypeOK, DialogTypeOK, handleSave, PickTime, CloseBookingsDialog,
               handleBook, OpenBookingDialog, handleViewBookings, handleEditFromDialog,
               ServeSave, dialogVars
      <3> QED
        BY <3>1
    <2>2. ASSUME NEW v \in Saves, SaveSettles(v)
          PROVE  bookingDialog.open /\ ~bookingDialog.sent => dismissed
      BY <1>1, <2>2 DEF PagesInv, FormOK, SavesShown, SaveSettles, NoSave
    <2> QED
      BY <1>1, <2>1, <2>2, FormSteps
  <1> QED
    BY <1>1, PagesInvariant, PTL DEF PagesSpec, ClosesItsOwnForm

=============================================================================
