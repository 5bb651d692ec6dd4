# Formal models of the m365-poc applications

The repository holds several independent Microsoft 365 applications. This
project models, in TLA+, those with a protocol of their own: state shared by web
requests, function invocations, timers and notifications that interleave. TLC
checks the models on small instances; TLAPS proves the most important properties
for every value of the constants.

## 1. The system and its parts

| Component (under `src/`) | State | Operations | What is hard | What makes it correct |
|---|---|---|---|---|
| **SPOAzBlob file editing** (`SPO/SPOAzBlob`) | blobs; SharePoint drive items and versions; lock table; drive delta token in a property bag; Service Bus queue | `StartFileEditInSpo`, `ProcessSpoUpdatesForActiveLocks`, `FinishEditing`, `CleanOldFiles`; users saving in Office Online | every method is a chain of remote calls without transactions; functions, timer and web requests overlap; calls fail half way; notifications carry no data and are coalesced | an edit belongs to one user; only that user's saves are vouched for; no change is skipped; the last save is in the blob when the lock goes; locks can be released |
| **SPOAzBlob subscriptions** | Graph subscriptions; the list one call keeps | `CreateOrUpdateSubscription`, from a daily timer and from the admin page | stale list; delete-all before create; timer and clicks at once; a subscription lapses | one live subscription in the end; two only after an overlap; no gap made by the manager itself |
| **SPOAzBlob file browser** (web client) | folder shown, breadcrumb, active locks | navigate, lock, unlock, refresh | listings and lock reads answered in any order | what is shown belongs to the folder named; a lock taken here is shown |
| **Bookify bookings and calendar sync** (`Graph/Bookify`) | bookings table; events of a shared mailbox; notifications in flight | create, update, delete a booking; link, update, delete the event; apply a notification | check-then-insert; database and calendar change without a transaction; late, reordered and deleted-event notifications; column-wise updates | no two bookings of a room overlap; a booking lives until someone deletes it; once quiet, booking and event agree; start before end |
| **Bookify subscriptions** | Graph subscriptions; the page's rows and flags | list, create, delete | a listing made before a deletion comes in after it; one flag for many requests | what was deleted stays away; flags are true |
| **Bookify client** | rooms shown, two dialogs that stay mounted | book, edit, list, delete, refresh | continuations change whatever is shown by then; answers overtake each other | rows are the room's; one save at a time; a booking is not moved; the grid shows what was saved |
| **MeetingOrchestrator media stream** (`Teams/MeetingOrchestrator`) | – | – | never constructed | – |
| **MeetingOrchestrator scripts and calls** | calls, player, paragraphs | answer, play, shut down | callbacks of the media platform; shutdown before the audio is active | shutting down ends |
| **MeetingOrchestrator participant cache** | – | – | never constructed | – |
| **MeetingOrchestrator script admin** | scripts in blob storage; view, form, rows | list, create, read, update, delete | look-up and upload are two calls; a view is left while it saves or loads | deleted scripts stay away; the last submitted text is stored; no script is wiped |
| **kiosk-teams display** | item shown, meeting, timer | poll the playlist, play, join | a timer that does not wait; `alert()` stops everything | the screen shows what the playlist has now, and does not go back |
| **react-office-dashboard** | tabs, mail, path in the drive | open a mail, a folder, a part of the path | loads overlap | the path leads to the items shown |
| **react-contoso-clinic** | appointments read, customer, form | register, book, cancel | effects run again when a value changes; lists are cut short; time zones | one customer record; no slot twice |
| **OfficeNotifications** | subscriptions per user; the rest is stateless | subscribe, forward | subscriptions, as above | as above |
| **ExternalUserImageSync**, **ExcelProcesses** | none kept | one pass over users; a message exchange | – | – |
| **other React, Teams, SPFx samples; archive; scripts** | user-interface state | rendering and calls | – | – |

How they interact: the applications share no state. Inside SPOAzBlob, the web
site and the functions share the blob container, the lock table, the property bag
and the drive; Graph calls `GraphNotifications`, which puts a message on the
queue; `SBGraphUpdate` takes it and calls `ProcessSpoUpdatesForActiveLocks`. The
subscriptions are what makes those notifications come. In Bookify, the web
requests and the notifications controller share the bookings table and the room
mailbox; Bookify's own calendar writes come back as notifications. Each browser
client talks to its server only by requests; what makes them hard is that a
request is sent, served and settles at three different moments, and that its
continuation changes the state of a page that may have moved on.

Everything in this code that is hard to test is listed, at its line, under
"hazards" in `PROJECT.json`.

## 2. Modules

| Module | What it is |
|---|---|
| `Checkout` | abstract specification: what editing through the drive promises about a blob |
| `FileEditing` | SPOAzBlob's `FileOperationsManager`, the storage and SharePoint managers it calls, the functions that run it, and the drive |
| `MCFileEditing` | constants and symmetry for TLC |
| `FileEditing_proofs` | inductive invariants and theorems |
| `Bookings` | Bookify's `BookingService`, the calendar services it calls, `NotificationsController` with `BookingCalendarSyncService`, and the shared mailbox |
| `MCBookings` | constants and symmetry for TLC |
| `Bookings_proofs` | inductive invariants and theorems |
| `Webhooks` | the manager of a Graph subscription, as SPOAzBlob and Bookify have it |
| `WebhookAdmin` | `Webhooks` called by SPOAzBlob's daily timer and by its admin page |
| `SubscriptionsPage` | `Webhooks` called by Bookify's subscriptions controller, and the page over that controller |
| `BlobBrowser` | SPOAzBlob's file browser |
| `BookingPages` | Bookify's main page and its two dialogs |
| `Kiosk` | the kiosk display |
| `ScriptAdmin` | MeetingOrchestrator's script admin, client and controller |
| `ClinicPage` | the clinic's page of one business |
| `OfficeDashboard` | the dashboard's tabs, mails and drive browser |
| `MCScreens`, `MCForms` | constants for TLC; each composes four of these programs |
| `WebhookAdmin_proofs`, `BlobBrowser_proofs`, `BookingPages_proofs`, `ScriptAdmin_proofs` | inductive invariants and theorems of one component each |
| `Screens_proofs`, `Forms_proofs` | those of the kiosk, and of the subscriptions page, the clinic and the dashboard; and of each composition as TLC runs it |

### FileEditing and the code

*State.* `items`/`log` are the SharePoint drive. The log is the sequence of
changes; a version (`CTag`) is the position of the change that made it and a
delta token is a length of the log. A file's path starts at the root or in a top-level
folder (`FolderOf`); `folders` are the folders the drive has, each known by the change
that made it. `locks` is the table of `FileLock` rows by
item id, `blob` the container, `token` the property bag entry of
`DriveDeltaTokenManager`, `queue` the Service Bus messages. `job[k]` is what one web
request or function invocation is doing: its place in the code (`pc`) and its
local variables. `fetched`, `faulted` and `removed` (items that people deleted, or that went with
their folder) are history variables: they are written and never read by an action.

*Actions.* Each remote call is one step, so other jobs and users act between any
two awaits. What runs between two awaits is part of the step.

| Code | Actions |
|---|---|
| `FileOperationsManager.StartFileEditInSpo` | `StartEdit`, `StartGuard`, `StartDownload`, `UploadDoc`, `SetLockCheck`, `SetLockUpsert` |
| `AzureStorageManager.SetOrUpdateLock` | `SetLockCheck`, `SetLockUpsert` |
| `AzureStorageManager.UploadSharePointFileToAzureBlob` | `UploadCheck`, `UploadRead`, `UploadWrite` |
| `SPManager.GetUpdatedDriveItems`, `DriveDeltaTokenManager` | `GetToken`, `GetDelta`, `SaveToken`; `GetNextPage` for each page after the first |
| `ProcessSpoUpdatesForActiveLocks`, `UpdateAzureFile` | `ProcessSpoUpdates`, the three above, `ReadLocks`, `NextLock`, then set lock and upload |
| `FinishEditing` | `FinishEditing`, token and delta, `FinishGetItem`, set lock and upload, `ClearLock`, `FinishDelete` |
| `CleanOldFiles` (timer) | `CleanOldFiles`, `CleanList` (the children of the root and nothing below them), `CleanDelete` for a file, `CleanDeleteFolder` for a folder with what is in it, `CleanEnd` |
| a call that throws, a host that stops | `Fail` |
| Office Online, SharePoint (external) | `UserEdit`, `UserDelete` |

The service side is modelled by what the code relies on: a PUT by path makes a
new version of the item at the path or a new item, and the folder of the path when there is none;
ids are not used again; a delta response names each changed item once, with the version it has
when its page is asked for; deleting a folder deletes its files, each a change of its own; Graph
notifies after every change. People save and delete files; that they rename or move one is left out. The queue is bounded by `MaxQueue`: a notification
carries no data, so further ones are merged. This makes delivery no weaker: one
waiting message has all changes since the token read.

*Properties.* `TypeOK`; `LockVouchesForOwner` (a lock vouches only for versions
of its owner or of the app); `NoChangeSkipped` (the token never passes an unread
change, and unread changes have a message or a job coming); `LockHasItem` (a
lock can be released: its item is in the drive, unless people deleted it or the clean-up
deleted its folder); `LastCopyIsComplete` (the blob has what `FinishEditing`
read as the latest version when it clears the lock); and the refinement of
`Checkout` (`CheckoutSpec`, at the end of `FileEditing` with its mapping: a copy is held by one user until released, a blob changes only while a
copy of it is held, and never goes back). The last three hold with one worker
and fail with several, which is the reason the two passing runs differ: the code
has no mutual exclusion. `OnlyOwnerUpdates`, `QuietMeansCopied` and
`LockNotOverwritten` state what the documentation says and the code does not do.

The exception of `LockHasItem` for folders is a real loss and not a convenience of the model:
`GetDriveItems` lists the children of the root, only files are ever locked, so `CleanOldFiles` finds
every folder without a lock and deletes it with the locked files in it, against its own comment
("Clean anything in SPO without an active lock", `FileOperationsManager.cs:174`). The lock then
stays, and `FinishEditing` fails on it. What the property says is that nothing else in the program
takes a locked file away, at the root or in a folder.

### Bookings and the code

*State.* `bookings` is the table, by id; a deleted row stays as `Gone`, since ids
are not used again. `events` is the one mailbox all rooms share
(`Graph:SharedRoomMailboxUpn`); its field `booking` says which booking
Bookify made the event for, which also stands for the extension property that
tags Bookify's events, and its history `moved` that people have changed its place since
Bookify wrote it last. `notes` are the notifications on their way: a set, because
Graph promises no order; two identical ones count as one. `job[k]` is a web
request or a notifications POST: what it does, where it is, the request's room
and times, the row it read (`seen`), the event it is about. `asked` and
`faulted` are history variables: written, never read by an action.

*Actions.* Each database or Graph call is one step. The first read of a request is
part of its start.

| Code | Actions |
|---|---|
| `BookingService.CreateBookingAsync` | `CreateBooking` (with the conflict query), `InsertBooking`, `CreateEvent`, `AttachEvent` |
| `UpdateBookingAsync`, same room | `UpdateBooking`, `CheckUpdate`, `SaveUpdate`, `PatchEvent` |
| `UpdateBookingAsync`, other room | `UpdateBooking`, `CheckUpdate`, `SaveUpdate`, `DropEvent`, `CreateEvent`, `AttachEvent` |
| `DeleteBookingAsync` | `DeleteBooking`, `DropEvent`, `RemoveBooking` |
| `NotificationsController.Post`, `ProcessNotificationsAsync` | `Post`, then per notification the next three, `PostEnd` |
| `ApplyCalendarEventDeletedAsync` | `NoteDeleted`, `RemoveBooking` |
| `ApplyBookingFromExternalFragmentAsync` (encrypted data) | `NoteUpdated`, `ApplyEvent` |
| `UpdateBookingFromCalendarEventAsync` (no data) | `NoteUpdated`, `FetchEvent`, `ApplyEvent` |
| `HandleEncryptedUpsertAsync`, a new event | `NoteCreated`, `InsertBooking` |
| a call that throws, a host that stops; Graph posts again | `Fail` |
| people in Outlook (external) | `OutsideCreate`, `OutsideMove`, `OutsideDelete` |

What is easily got wrong, and how it is modelled: Entity Framework writes only
the columns that differ from what the request read, so two updates can mix
(`Written`); saving a row that is gone throws, which ends different things in
different callers (`SaveUpdate`, `ApplyEvent`, `AttachEvent`, `RemoveBooking`); the
notifications of one POST share a database context, so a booking read for the first
is not read anew for the second (`About`, `NextNote`), and once a save has failed
none succeeds any more; Bookify's own calendar calls come back as notifications; a note says of the place only what is
a room id, and events made by Bookify carry a room's name, so `Elsewhere`; an
answer of Graph may be lost after the event was made (`CreateEvent`). Times are
numbers; only the order of start and end is validated, since nothing depends on
"now". What people do in Outlook is validated by nobody: they give an event any place, and
times of `Spans`, which are those of the web requests (`Windows`) and, at the times in `Instants`,
events that end when they start. A notification of such an edit applies the times as they are and
leaves the room of the booking alone (`ApplyEventDataToBooking` has no place). Rooms exist and never change. Titles, bodies and attendees are left out;
where writing them decides between an exception and none, both happen.

*Properties.* Whatever overlaps and fails: `LinkedToOwn` (the event of a booking
was made for that booking), `CancelledStaysCancelled` (no update or notification
brings a cancelled booking back). One request at a time: `WindowsValid` (no booking ends before it starts, although the columns
are written apart, and one is of no length only at a time at which people put such events), `NoConflictAccepted` (what a
web request writes clashes with no booking at that moment), and without failures
`EventsMatchBookings` (every event Bookify made has its booking, in its room unless people have
changed its place since, or its deletion is on the way) and `KeptUnlessAsked` (no booking disappears unless
someone deleted it or its event). With overlap these do not hold.
`NoDoubleBooking`, `BookingSurvives` and `QuietMeansSynced` state what comments
and README say and the code does not do.

### The browser clients: what they share

A component's state is its `useState` variables. A request is a small record
with a stage: *sent* by a click, an effect or a timer; *ok* or *error* once the server
has acted; back to *none* when it settles, which is when the continuation in the
component runs, whole, in one step. Requests are served and settle in any order,
and a request that the client sees fail may have been carried out where the
server may lose its answer. A button that the code disables or hides is a
guard; an effect is part of the step that changes the values it names. Where the
code unmounts a component, its continuations no longer change anything (unless
they call a parent's function, as `onSaved` does); where it only hides it, they
do. An `alert()` in the admin page, the browser and the clinic is taken as
dismissed by the user who is there; nobody is at the kiosk, and `Kiosk` models it.
Names of operations are those of the code.

A good part of the properties has the form "this holds, unless …", with the
exception kept in a history variable. That is deliberate: without the exception
the property fails in the code, and the exception says exactly which race is to
blame, so that every *other* way to break the property is excluded. History
variables are written and never read by an action.

### Webhooks, WebhookAdmin, SubscriptionsPage and the code

*State.* `subs`: Graph's subscriptions for the resource and URL. `call[c]`: where one
`CreateOrUpdateSubscription` is, and what is left of the list it keeps. `busy[p]`: the
call an admin page waits for. Of Bookify's page: `rows`, `loading`, `creating`,
`deletingId`, and its GETs and DELETEs.

| Code | Actions |
|---|---|
| `GetInScopeSubscriptions`, `HaveValidSubscription` | `GetInScopeSubscriptions` (one list per call; each manager lives for one call) |
| `CreateOrUpdateSubscription` | `Start`, then `Renew`, or `DeleteOne` for each, then `Add` |
| an exception, a host that stops | `Fault`; renewing or deleting one that is gone ends the call too |
| `SubscriptionRefresh.Run` (timer) | `SubscriptionRefresh` |
| the admin page | `OpenPage`, `CreateOrUpdateClick`, `ClickAnswered`; `Unheard` when the page was left |
| `Subscriptions.tsx` | `Load`, `Refresh`, `LoadSettles`, `Create`, `CreateSettles`, `DeleteSub`, `DeleteSettles` |
| `SubscriptionsController` | `GetSubscriptions`, `CreateSubscription`, `DeleteSubscription` |
| Graph (external) | `Lapse` |

*Properties.* `DuplicatesNeedOverlap` and `NoGapUnlessOverlapped`: one call alone never
makes a second subscription and never removes the last; overlapping calls do both.
`TimerRepairs`: whatever happened, the daily refresh ends up with exactly one and keeps it.
`DeletedReturnsOnlyIfRaced`, `SpinnersAreTrue`: see the comments in the module.

### BlobBrowser and the code

*State.* `prefix` is the breadcrumb, `shown` the folder whose listing is shown,
`activeLocks` the locks read last and `shownLocks` what the rows show of them; `act`,
`reading` and `listing` are the requests. A refresh is a read of the locks followed
by a listing (`LocksRead`); a navigation only lists (`setDir`, `setNewPath`).
`ClickFile`, `EditAction` and `ActSettles` are a row's button, the server and the
continuation. The lock table behind it is a set: `FileEditing` has all of it.

*Properties.* `ShownIsCurrent`, `LocksShownAreRead`, `OwnLocksKnown`. The second needs no exception for
overlap: a listing looks the locks up when it comes in and not when it was asked for.

### BookingPages and the code

| Code | Actions |
|---|---|
| `Index.tsx` | `LoadRoomsSettles`, `handleRefresh`, `RefreshSettles`, `handleBook`, `handleViewBookings`, `handleEditFromDialog` |
| `BookingDialog.tsx` | `OpenBookingDialog` (its effect), `PickTime`, `handleSave`, `SaveSettles`, `DismissBookingDialog` |
| `RoomBookingsDialog.tsx` | `loadBookings`, `LoadBookingsSettles`, `handleDelete`, `CancelSettles`, `CloseBookingsDialog` |
| `lib/api.ts` and the controller | `GetRooms`, `RefreshRooms`, `ServeSave`, `GetRoomBookings`, `CancelBooking` |

`db` is only the room of each booking, which is what the pages can get wrong; the
service behind it is `Bookings`. *Properties.* The pages mix rooms up in one way only:
a dialog opened while it still worked on another room shows that room's rows under
this room's title (`RowsAreOfTheRoom`), and an edit then moves a booking
(`MovedOnlyIfMixed`, about the database). `AtMostOneSave`, `ClosesItsOwnForm` and
`GridKnowsSaves` are about the form that outlives its closing and about loads of the
rooms that overtake each other.

### ScriptAdmin and the code

`store`/`text` is blob storage, `view`, `editing`, `form`, `scriptRows` the client,
`fetch`, `put` and `dump` its requests. `Show` and `Leave` are what mounting another
view does; `Type` edits the form, or empties it: every paragraph can be removed or cleared; `handleSubmit`, `LookUp`, `Upsert`, `PutSettles` are a
save: `ScriptsController.Update` looks the script up, then uploads it in a second
call. `handleDelete`, `Delete` and `DumpSettles` are a deletion. *Properties.*
`DeletedComesBackOnlyIfTorn`, `LastSubmittedIsStored`, `WipedByChoiceOrBlindly` (a script loses its paragraphs only when its user emptied them, or when the
editor was saved before its script had loaded, or after that load failed without a word) and
`LeavesOnlyItsEditor` (the success of a save that was left navigates away from whatever
is shown by then).

### Kiosk and the code

`config` is the configuration's request and then the timer; `poll` the requests of
`AppContentManager`; `current`, `meeting`, `teamsCall` what `MainDisplay` and
`TeamsCallContainer` show. `Tick` is the interval, which does not wait for the answer
before; `Play` the callback, with its rule that a meeting is not replaced by another
meeting; `alerting`/`Dismiss` the `alert()` of `ApiLoader`. `PlaylistMoves` is time passing.
*Properties.* `NeverGoesBack` (unless polls overlapped) and `ScreenShowsNow`: when the
playlist stays, the screen ends up with it, but for a screen that stopped for good
and for a meeting right after a meeting.

### ClinicPage, OfficeDashboard and the code

`ClinicPage`: every React effect of `SelectedBookingBusiness` is part of the steps that
change a value it names (`LoadAppointments`, `AskCustomer`, `AskAppointment`); `LoaderChanges`
re-runs them all. `Free` and `FormFollows` are the slots of the form and its picker, `ListAppointments`,
`ServeFind` and `CreateAppointment` the server, which lists at most `MAX_ITEMS`. `booked` are the slots that
appointments take and `begun` those in which one begins, which is all that `NewAppointment` looks at
(`Apparent`): of an appointment longer than an hour, made elsewhere, the other slots stay on offer. `cause` collects what the page does
not reckon with; `RegisteredOnce` and `DoubleBookedForAReason` say that a second customer
record and a slot booked twice have one of the named causes, and that each
operation without them is right. `OfficeDashboard`: a folder's load carries the path it was clicked under;
`PathLeadsToItems` (always) and `ShowsLastClicked` (unless loads overlapped or one failed).

## 3. Runs

| Run | Instance | Shows |
|---|---|---|
| `serial` | 1 worker, 2 files, one at the root and one in a folder, 2 users, 3 ids, log 3, page of 1 item, faults | the type invariant, `LockHasItem`, `LastCopyIsComplete`, and that FileEditing implements Checkout, when operations do not overlap |
| `overlap` | 2 workers, 1 file, 2 users, 2 ids, log 3, one message queued, page of 1 item, faults | `LockVouchesForOwner` and `NoChangeSkipped` for every interleaving of two operations |
| `stranger` | 1 worker, no faults | violation of `OnlyOwnerUpdates` |
| `swallowed` | 1 worker, 2 files, no faults | violation of `QuietMeansCopied` |
| `stolen` | 2 workers, no faults | violation of `LockNotOverwritten` |
| `bookings_serial` | 1 worker, 2 rooms, times 0–2, 2 bookings, 2 events, 1 note before new starts stop, both payloads, outside edits, events of no length at time 1, no faults | the type invariant and the four properties that hold one job at a time |
| `bookings_overlap` | 2 workers, 2 rooms, times 0–1, 2 bookings, 2 events, 1 note, both payloads, faults | `LinkedToOwn` and `CancelledStaysCancelled` for every interleaving of two jobs |
| `bookings_double` | 2 workers, 1 room, no faults | violation of `NoDoubleBooking` |
| `bookings_moved` | 1 worker, 2 rooms, faults, nobody edits the mailbox | violation of `BookingSurvives` |
| `bookings_late` | 1 worker, 1 room, times 0–2, no faults | violation of `QuietMeansSynced` |
| `Screens` | timer and 2 clicks, 3 subscription ids, 1 fault, 1 lapse; 2 files in 2 folders, 2 lock requests, 2 navigations, 3 clicks; 2 meetings and a page, 2 polls, 2 moves, 2 faults; 2 rooms, 2 bookings, 2 saves, 2 openings, 1 deletion, 4 clicks | four programs, of which one runs in each behaviour: the safety of the manager, the file browser, the booking pages and the kiosk, and that each repairs itself or comes to rest |
| `Forms` | 1 caller, 2 subscription ids, 2 GETs, 2 DELETEs; 2 scripts, 2 saves, 1 deletion, 5 clicks; 1 slot, 2 bookings, 2 reads, 1 loader change; 3 folders in a chain, 2 loads, 2 mails, 7 clicks | likewise for the subscriptions page, the script admin, the clinic and the dashboard |

*Bounds.* `MaxLog` stops edits, deletions by people and new starts, not the steps in progress. A log of
3 holds an upload and saves of two people, or a save and a deletion; operations already
running still finish, and clean-ups and releases go on changing the drive beyond it. One folder is what the
clean-up's loss takes, with a file beside it that must stay. A page of one item
makes responses with two changed items take several pages, so both ways of
`GetDriveDeltaRecursive` occur. Two workers are every pair of operations, with
themselves included; two users are an owner and a stranger; two files are the
smallest number for which a release can consume the changes of another file.
Item ids are interchangeable only by order of first use, so symmetry is used for
users, files and workers, and only in runs of invariants and of properties
whose formulas treat them alike.

*Bounds of Bookings.* Two bookings are what a conflict takes, three times what a
partial overlap takes, two rooms what a move takes; two events are the event of a booking and either
the one of its new room or an outsider's (an update in the same room needs no new one). `MaxNotes` and the id bounds stop new starts only, so requests in
progress finish; `NoteCreated` is refused too when no booking id is left. When all ids
are used and nothing is left to do the model stops, hence `CHECK_DEADLOCK FALSE`.
The serial run has no faults because two of its properties say "unless a call
failed" and the other two are about what the database does; `bookings_overlap`
leaves outside edits to it, which make no booking and no link. The theorems of
section 4 cover both with all of it at once. Rooms are interchangeable, and so
are workers.

*Bounds of `Screens` and `Forms`.* The programs share no state, so one run checks
four of them: a behaviour chooses `app` in its first state and the other three
keep still. Their state spaces add up instead of multiplying, and every property
is checked in every state. Two of each request are what it takes for one to
overtake another; a third would overtake in the same ways, since histories
remember only that it happened. Clicks bound what a user starts and not what was
started, so every request ends within the bound. Of the subscriptions, three ids are an old
one, one that a call deletes and the one it creates. With one slot every second booking is a double
booking, which leaves nothing but its causes; `cause` starts empty, or with a full calendar
and another time zone, or with the slot taken by an appointment that began an hour before. Two faults let the kiosk lose its configuration, a poll or its token. When
the clicks are used up and all is at rest the model stops, hence `CHECK_DEADLOCK FALSE`.
The theorems of section 4 hold for any number of all of these.

*Findings.* (1) `stranger`: the version named by the notification is checked, but
the content is then read by path; a save by someone else in between is copied
(`AzureStorageManager.cs:46`). (2) `swallowed`: `FinishEditing` saves a new delta
token and drops the items of the response, so another file's save is never copied
by a notification (`FileOperationsManager.cs:149`). (3) `stolen`: the lock is
read, checked and then upserted unconditionally, so two users who start the same
file both succeed (`AzureStorageManager.cs:143`). (4) `bookings_double`: the conflict
query and the insert are separate calls, without a transaction or a constraint
(`BookingService.cs:185`). (5) `bookings_moved`: a booking that changes room loses its
event first; if the new one cannot be made, the notification of Bookify's own
deletion removes the booking (`BookingService.cs:84`, against the comment at line 74).
(6) `bookings_late`: data in a notification is applied without asking whether it is
still current, so reordered notifications leave the older time
(`BookingCalendarSyncService.cs:148`).

*Fairness.* `FileEditing` and `Bookings` assume none: their properties are safety
properties, and what must eventually happen there is stated as "nothing is left unless someone is
about to do it" (`NoChangeSkipped`). The other modules assume weak fairness of three kinds
of step, and no strong fairness anywhere:

* *a timer fires*: `SubscriptionRefresh` (a daily `TimerTrigger`; the run before has ended
  or ends), `Tick` (`setInterval`, which goes on until the page is closed);
* *a request under way is served or refused, and its answer handled*: `CallProgress`,
  `ActProgress`, `ReadProgress`, `ListingProgress`, `ConfigProgress`, `PollProgress`, `CallSettles`, `RefreshProgress`,
  `RoomsProgress`, `SaveProgress`, `ListProgress`, `CancelProgress`, `GetProgress`, `DeleteProgress`, `PostProgress`,
  `FetchProgress`, `PutProgress`, `DumpProgress`, `AppointmentsProgress`, `BookProgress`, `EmailSettles`,
  `OpenProgress`: a promise settles, since HTTP requests and hosts have time limits, and JavaScript runs
  the continuations that are due;
* *the admin page hears of its call*: `ClickAnswered`.

No user has to click, no fault, lapse or success has to happen, and no `alert()` of the
kiosk has to be dismissed. What is shown: `TimerRepairs`, `ScreenShowsNow`, `ScreensSettle`
and `FormsSettle`. They say "eventually for good" because clicks, faults and lapses are
bounded: from the last of them on, the system repairs itself. For the subscriptions page
the form is `[]<>`: each time, the flags come down.

## 4. Proofs

Each theorem is for every value of the constants: all sets of files, users, workers and ids
(`FileEditing_proofs`), rooms, workers and times (`Bookings_proofs`), calls, pages,
requests, folders, items, scripts, slots and rooms (the others), and all bounds. Those
marked (1) are for one worker:

| Theorem | Statement |
|---|---|
| `FileEditing_proofs`: `TypeCorrect` | `Spec => []TypeOK` |
| `OwnerVouched` | `Spec => []LockVouchesForOwner` |
| `NothingSkipped` | `Spec => []NoChangeSkipped` |
| `LocksHaveItems` (1) | `Spec => []LockHasItem` |
| `LastCopied` (1) | `Spec => []LastCopyIsComplete` |
| `LocksKept` (1) | `Spec => LockNotOverwritten` |
| `ImplementsCheckout` (1) | `Spec => CheckoutSpec`: the refinement of `Checkout` |
| `Bookings_proofs`: `BookingsTyped` | `Spec => []TypeOK` |
| `BookingsLinked` | `Spec => []LinkedToOwn` |
| `BookingsStayCancelled` | `Spec => CancelledStaysCancelled` |
| `RowsAreWindows` (1) | `Spec => []WindowsValid` |
| `WritesAreFree` (1) | `Spec => NoConflictAccepted` |
| `EventsMatch` (1) | `Spec => []EventsMatchBookings` |
| `KeptAlways` (1) | `Spec => []KeptUnlessAsked` |
| `WebhookAdmin_proofs`: `OneWithoutOverlap`, `NoGap` | `AdminSpec => []DuplicatesNeedOverlap`, `NoGapUnlessOverlapped` |
| `BlobBrowser_proofs`: `ShownCurrent`, `LocksShown`, `OwnKnown` | `BrowserSpec => []` of `ShownIsCurrent`, `LocksShownAreRead`, `OwnLocksKnown` |
| `BookingPages_proofs`: `OneSave`, `GridKnows`, `RowsOfTheRoom`, `MovedMixed`, `ClosesOwn` | `PagesSpec => []` of `AtMostOneSave`, `GridKnowsSaves`, `RowsAreOfTheRoom`; `MovedOnlyIfMixed`, `ClosesItsOwnForm` |
| `ScriptAdmin_proofs`: `DeletedComesBack`, `WipedKnowingly`, `LastStored`, `LeavesOwn` | `ScriptsSpec => []` of `DeletedComesBackOnlyIfTorn`, `LastSubmittedIsStored`; `WipedByChoiceOrBlindly`, `LeavesOnlyItsEditor` |
| `Screens_proofs`: `NeverBack` | `KioskSpec => NeverGoesBack` |
| `ScreensTypes` | `Spec => []ScreensTypeOK`, for `Spec` of `MCScreens` |
| `Forms_proofs`: `DeletedReturns`, `Spinners` | `SubPageSpec => []` of `DeletedReturnsOnlyIfRaced`, `SpinnersAreTrue` |
| `PathLeads`, `LastClickShows` | `DashSpec => []` of `PathLeadsToItems`, `ShowsLastClicked` |
| `OneCustomer`, `DoubledForAReason` | `ClinicSpec => []` of `RegisteredOnce`, `DoubleBookedForAReason` |
| `FormsTypes` | `Spec => []FormsTypeOK`, for `Spec` of `MCForms` |

Each other component proves its type invariant for its own specification too
(`AdminTypeCorrect`, `BrowserTypeCorrect`, `PagesTypeCorrect`, `ScriptsTypeCorrect`, `KioskTypeCorrect`,
`SubsTypeCorrect`); those of the clinic and the dashboard are part of `ClinicInv` and `DashInv`.

*One worker.* `Workers = {only}` is a hypothesis of the theorems marked (1) and nothing else is:
failures, notifications in any order and people who edit between any two calls are all there. It is
what the runs `serial` and `bookings_serial` assume. The code does not guarantee it, and without it
the properties fail: `stolen` and `bookings_double` show two of them doing so. What the theorems say is
therefore that overlapping operations are the only way to break these properties, which is where the
code lacks a transaction.

Assumptions, evaluated by TLC in every run. Of `Bookings`: `TimeAssumption`
(the last time is a natural number) and `InstantsAssumption` (instants are times). Of `FileEditing`:
`AppAssumption` (the app is not one of the users), `IdsAssumption` (ids are
naturals and finitely many), `FoldersAssumption` (a file is at the root or in a folder),
`BoundsAssumption` (page size, log bound and queue bound are naturals, the queue holds at least one message), `NoLockAssumption` (the "no lock" answer
is neither a row of the lock table nor what `Checkout` knows of one, a user and a file).
`Checkout` is instantiated with `1 .. MaxLog` for its contents: content is named by the change
that made it, and `MaxLog` is the last change that brings new content.

Of the other modules: each names one assumption per group of constants, that the values that stand
for "none" are not among the real ones, that functions between constants are functions, and that
bounds are naturals.

*The argument for FileEditing.* `TypeOK` and `LockVouchesForOwner` are not inductive: between
`SetLockCheck` and `SetLockUpsert` a job holds a version and a user on the stack, and
the lock row it will write is right only because those belong together. `IInv` adds
`JobsOK`, what each place in the code may rely on (a job about to set a lock
carries a version of the item it carries, last written by the user it acts for or
by the app), and `ItemsOK` (a drive version is a version of that item). There is
one lemma per group of actions; `OneJobStep` and `DriveStep` carry the common part:
a step of one job, and a step that appends to the log. `NothingSkipped` needs
`IInv` and `MarksFetched`: the token a job has in hand was in some response. A
job that asks reads the whole rest of the log, so `fetched` becomes its length; a
job that saves writes a value at most `fetched`; every change of the drive puts a
message in the queue.

The theorems for one worker rest on two more invariants. `PathInv` holds however many
jobs overlap. The code looks an item up now by id and now by path; `PathInv` says that
both mean the same: an item stays at its path (`SamePath`), no two items in the drive share
one (`OnePathEach`), what a lock row or a job names is of that item at that path (`Sound`,
`NamesOK`), and content is never younger than the change that brought it (`DataOld`).
`AloneInv` is about the only job, at each place in the code (`AloneOK`): its item is still in the drive,
the row it will overwrite is the one that passed `LockCheck`, what it is about to copy lies between what
the blob has and the latest version. For every lock it adds that its item is in the
drive with content no older than the blob's, or in `removed` (`HeldOK`), and that the version the lock vouches for is in
the blob or on its way, unless a call failed (`CopiedOK`). `LocksHaveItems` and `LastCopied` follow from it at
once, `LocksKept` from `AloneOK` at the upsert. The refinement maps a lock row to who
holds which file and the blob to itself; each action is then shown to be a `Hold`, a `Release`, a
copy or a stutter of `Checkout`. Content must not go back, which is why `AloneOK` orders the
blob, the content in hand and the latest version.

*The argument for Bookings.* `LinkedToOwn` is not inductive: `AttachEvent` saves an
event id that a request got two calls earlier, while rows and events came and
went. `IInv` adds `JobsOK` (what each place in the code relies on: the row of the
booking existed once, the event about to be saved was made for that booking, the
event about to be changed or fetched was made), `NotesIn` (notifications, also those a
POST has in hand or would bring again, are about events that were made) and `EventsOK`
(an event is for a booking that was made). `Keeps` carries the common part: tables
only grow, no event changes hands, each booking's event is its own, the changed
requests are in order. `KeepsRow`, `KeepsEvent` and `AppendEvent` are its three
uses, and one lemma per group of actions follows. `BookingsStayCancelled` needs in
addition that a deleted row is exactly `Gone` (`GoneRows`), because `RemoveBooking`
may delete it again; `TableStep` classifies what a step does to a row.

For one worker, `ReadInv` comes first: the row the only request read is the row in the table
(people edit the mailbox and not the table), so that the columns left out of an update are those it read. From it,
`WindowsInv`: the times in rows, events, notifications and requests start before they end, or are of no length at one of the `Instants` (`Proper`). `FreeInv`: from the
conflict query to the write, no booking has the room at that time. `EventsInv`: every event Bookify
made has its booking or the only request is about to attach it (`Owned`); the event of a booking is
in its room, or was moved by people, or the request is about to move it, or it is gone and the notification waits (`Matched`);
a notification of a deletion is about an event that is gone (`NotesTrue`). A booking disappears only at
`RemoveBooking`, and `Matched` with `EventOK` say that its event was then deleted by someone: a notification
of the event that a change of room dropped finds no booking any more, because the row names another event by then.

*The arguments for the clients.* None of their properties is inductive; what is missing is
always what the requests under way carry.

* `WebhookAdmin`: `OneActs` adds that unless calls overlapped at most one call is past its list, and
  it never deletes, and it creates only where Graph has none.
* `BlobBrowser`: without a race every listing under way is of the folder in the breadcrumb
  (`ListingsAreCurrent`), and every answer to come of a read contains the locks taken here
  (`AnswersHoldOwn`).
* `BookingPages`: `FormOK` (a save is under way exactly for one `isSaving`, and the dialogs
  are apart), `GridOK` (unless raced, an answer to come holds every save that was told), and a
  chain from `ForARoom` to `OfItsRoom`: without a mix-up, whatever the list dialog works on is for the
  room of its title, and a booking listed, edited or saved is in the room it was listed for, or gone.
* `Kiosk` (in `Screens_proofs`): unless polls overlapped there is one poll (`OnePoll`), and its answer is no older than what
  was heard (`AnswersAreNews`).
* `ScriptAdmin`: `FoundIsTorn` (a save that found its script and is not yet stored explains a later
  return), `BlanksExcused` (where the text of a script, its editor's form, what was loaded or a save
is blank, the script is one that was emptied or saved blindly), `SavesOfEditor`
  (unless a save was left, the saves under way are this editor's, and it has one at most),
  `OnlyKnown` (nobody knows of a script before it is made), `AllSaved` (a script nobody is unsure of
  has one save under way at most, which holds what was submitted last).
* `SubscriptionsPage` (in `Forms_proofs`): `DeletedStaysAway` (what a GET under way lists of the deleted is
  raced, and Graph has none of it).
* `OfficeDashboard` (in `Forms_proofs`): every load brings a path of the drive (`LoadsBringPaths`; the lemmas
  `LongerPath` and `StartOfPath` say that both kinds of click make one); until loads are mixed up there is one
  (`OneLoad`), of the folder clicked last (`LoadIsLastClick`).
* `ClinicPage` (in `Forms_proofs`): without its three causes, one request about the customer is under way at a
  time, and there is no record when one says so or is to make one (`OneRecord`). Without any cause the page reads
  and saves in turn, every appointment begins in the slot it takes, what it reads is what Graph has, and between the two it knows every appointment
  (`NoDoubles`); the form offers a slot that is free by what the page knows (`FormOK`). The actions that
  are causes need nothing but to name themselves in `cause`.

*The compositions.* A step of `MCScreens` or `MCForms` is a step of one of the four programs and a
stutter of each (`ScreensSteps`, `FormsSteps`), so what each program keeps by itself is kept in the run.

*Only model-checked:* liveness: `TimerRepairs`, `ScreenShowsNow`, `ScreensSettle` and `FormsSettle`. Liveness
under fairness and `ENABLED` are beyond the prover, as is what a recursive definition computes for
every input. Every invariant and action property of the passing runs has a theorem. What the
violation runs show is, of course, not a theorem.

## 5. Not modelled, and why

* HTTP, authentication, serialisation, logging, the content of files beyond
  which save it comes from, and the names of container, drive and table.
* Unused code: `ClearLock(DriveItem)`, `ClearPropertyValue`, `DeleteToken`.
* Renaming and moving of drive items by users, folders in folders, and expiry of delta tokens.
* Of the clients: drawing, styles, routing, sign-in, toasts, and the details of what
  is listed. Two pages of one client at once, except where the server or "somebody else" makes
  them visible.
* Dead code: `MediaStream` with `BufferBase` and `AudioProcessor`, `LRUCache`, pausing and resuming a
  script: nothing constructs or calls them.
* The calls of MeetingOrchestrator: answering, playing and shutting down follow callbacks of the media
  platform, whose rules the source does not show (`SpeechAudioPlayer.ShutdownAsync` waits for one).
* OfficeNotifications: a third copy of the subscription manager, and stateless forwarding.
* SPFx web parts, the ACS calling sample, critsit and teamsify, archived samples and one-pass
  console programs: rendering, single calls and libraries' components.

What is modelled of the JavaScript and TypeScript is nearly all of it that keeps state; the rest is
presentation, and more than half of all such lines in the repository are a vendored jQuery UI
(`Graph/Archive/GraphJSApp/jqueryui`), followed by a vendored component library
(`bookify.client/src/components/ui`) and samples. The servers are C#.

## 6. Plan

1. **SPOAzBlob file editing** – done: all operations; type, lock and delta theorems for any number of
   workers; lock, copy and refinement theorems for one.
2. **Bookings** – done: requests, notifications, outside edits and failures; type, link and
   cancellation theorems for any number of workers; windows, conflicts and events for one.
   To come: what of the events stays true when requests overlap or fail.
3. **Subscriptions** – done: manager, timer, both pages; safety proved, repair checked.
4. **Clients** – done: file browser, booking pages, script admin, kiosk, clinic, dashboard;
   safety proved, rest checked.
