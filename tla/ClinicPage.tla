------------------------------ MODULE ClinicPage ------------------------------
(***************************************************************************)
(* react-contoso-clinic: the page of one booking business, over Microsoft   *)
(* Graph.  It registers the user as a customer when it finds no record of   *)
(* the user, and books appointments in the slots of the day that the        *)
(* appointments it has read leave free.                                     *)
(*                                                                         *)
(* All of it is driven by React effects: each of them runs when the page    *)
(* opens, and again when one of the values it names has changed.  All of    *)
(* them name the loader, which App replaces when MSAL's list of accounts    *)
(* changes.  Graph lists at most MAX_ITEMS customers or appointments.       *)
(***************************************************************************)
EXTENDS Naturals

CONSTANTS
    Slots,         \* the hours of the day
    NoSlot,
    SeenAbroad,    \* the slot that each seems to be in a browser of another time zone
    Reads,         \* loads of the appointments that may be under way at once
    Books,         \* creations of appointments, likewise
    Finds,         \* requests for the customers, or to create one, likewise
    MaxBooks,      \* bound: appointments the user asks for
    MaxReloads,    \* bound: changes of the loader
    MaxCustomers   \* bound: customer records of the user

ASSUME ClinicAssumption ==
    /\ NoSlot \notin Slots /\ SeenAbroad \in [Slots -> Slots \cup {NoSlot}]
    /\ MaxBooks \in Nat /\ MaxReloads \in Nat /\ MaxCustomers \in Nat /\ MaxCustomers > 1

VARIABLES
    booked,        \* slots that an appointment takes, and whether two take one
    doubled,
    begun,         \* those of them in which an appointment begins
    customers,     \* Graph's customer records for the user
    catalog,        \* of staffMembers and services, the ones that are there
    appointments,  \* as read last: the slots they seem to take
    userCustomer,
    clinicView,
    booking,       \* the form: whether it is shown, its slot, and whether it saves
    newAppointment,
    reads, books, finds,
    asked, reloads,
    cause          \* history: what happened that the page does not reckon with

clinicVars == <<booked, doubled, begun, customers, catalog, appointments, userCustomer,
                clinicView, booking, newAppointment, reads, books, finds, asked, reloads, cause>>

NoForm == [shown |-> FALSE, slot |-> NoSlot, saving |-> FALSE]
NoRead == [stage |-> "none", slots |-> {}]
NoBook == [stage |-> "none", slot |-> NoSlot]
NoFind == [stage |-> "none", kind |-> "find"]
Causes == {"crowded", "abroad", "long", "reload", "others", "early", "full", "lost"}

ClinicTypeOK ==
    /\ doubled \in BOOLEAN
    /\ booked \in SUBSET Slots /\ begun \in SUBSET booked
    /\ customers \in 0 .. MaxCustomers
    /\ catalog \in SUBSET {"staff", "services"}
    /\ appointments \in [there : BOOLEAN, slots : SUBSET Slots]
    /\ userCustomer \in {"undefined", "null", "known"}
    /\ clinicView \in {"List", "New"}
    /\ booking \in [shown : BOOLEAN, slot : Slots \cup {NoSlot}, saving : BOOLEAN]
    /\ newAppointment \in Slots \cup {NoSlot}
    /\ reads \in [Reads -> [stage : {"none", "sent", "ok"}, slots : SUBSET Slots]]
    /\ books \in [Books -> [stage : {"none", "sent", "ok"}, slot : Slots \cup {NoSlot}]]
    /\ finds \in [Finds -> [stage : {"none", "sent", "found", "nobody"},
                            kind : {"find", "create"}]]
    /\ asked \in 0 .. MaxBooks /\ reloads \in 0 .. MaxReloads
    /\ cause \in SUBSET Causes

\* The page opens: its effects ask for everything.
ClinicInit ==
    /\ booked \in SUBSET Slots /\ begun \in SUBSET booked /\ doubled = FALSE
    /\ customers \in {0, 1}
    /\ catalog = {} /\ appointments = [there |-> FALSE, slots |-> {}]
    /\ userCustomer = "undefined"
    /\ clinicView = "List" /\ booking = NoForm /\ newAppointment = NoSlot
    /\ reads \in {[[r \in Reads |-> NoRead] EXCEPT ![q].stage = "sent"] : q \in Reads}
    /\ books = [b \in Books |-> NoBook]
    /\ finds \in {[[f \in Finds |-> NoFind] EXCEPT ![g].stage = "sent"] : g \in Finds}
    /\ asked = 0 /\ reloads = 0
    /\ cause \in SUBSET {"crowded", "abroad", "long"}
    /\ begun = booked \/ "long" \in cause

-----------------------------------------------------------------------------

serverVars == <<booked, doubled, begun, customers>>
boundVars == <<asked, reloads>>

\* The form is there while there is all it needs; it starts anew whenever it comes up.
FormShown ==
    /\ clinicView = "New"
    /\ appointments.there /\ catalog = {"staff", "services"} /\ userCustomer = "known"

\* A plausible bug: every slot of the day is offered.
EverySlot == Slots

\* The slots to pick from: one of them is picked by itself when they change, and none is
\* when there is none.
Free == Slots \ appointments.slots

\* relisted: the appointments were read again.
FormFollows(relisted) ==
    IF ~FormShown' THEN booking' = NoForm
    ELSE IF ~FormShown
    THEN \E s \in IF Free' = {} THEN {NoSlot} ELSE Free' :
            booking' = [shown |-> TRUE, slot |-> s, saving |-> FALSE]
    ELSE IF relisted /\ ~booking.saving /\ Free' # {}
    THEN \E s \in Free' : booking' = [booking EXCEPT !.slot = s]
    ELSE UNCHANGED booking

\* The effects, each as what it asks for.
LoadAppointments ==
    \E r \in Reads : reads[r] = NoRead /\ reads' = [reads EXCEPT ![r].stage = "sent"]

AskCustomer(kind) ==
    \E f \in Finds : /\ finds[f] = NoFind
                     /\ finds' = [finds EXCEPT ![f] = [stage |-> "sent", kind |-> kind]]

AskAppointment(slot) ==
    \E b \in Books : /\ books[b] = NoBook
                     /\ books' = [books EXCEPT ![b] = [stage |-> "sent", slot |-> slot]]

CatalogLoads(x) ==
    /\ x \notin catalog
    /\ catalog' = catalog \cup {x}
    /\ UNCHANGED <<serverVars, appointments, userCustomer, clinicView, newAppointment, reads,
                   books, finds, boundVars, cause>>
    /\ FormFollows(FALSE)

\* The slots the appointments seem to take: only the hour in which each begins is looked at,
\* so one made elsewhere that is longer hides the rest.  The form sends the hour of the
\* browser as an hour of a fixed time zone; what is read back is the browser's hour again.
Apparent ==
    IF "abroad" \in cause THEN {SeenAbroad[s] : s \in begun} \ {NoSlot} ELSE begun

\* Graph answers with the appointments, or with some of them when there are many.
ListAppointments(r) ==
    /\ reads[r].stage = "sent"
    /\ \E slots \in IF "crowded" \in cause THEN SUBSET Apparent ELSE {Apparent} :
         reads' = [reads EXCEPT ![r] = [stage |-> "ok", slots |-> slots]]
    /\ UNCHANGED <<serverVars, catalog, appointments, userCustomer, clinicView, booking,
                   newAppointment, books, finds, boundVars, cause>>

ReadSettles(r) ==
    /\ reads[r].stage = "ok"
    /\ reads' = [reads EXCEPT ![r] = NoRead]
    /\ appointments' = [there |-> TRUE, slots |-> reads[r].slots]
    /\ UNCHANGED <<serverVars, catalog, userCustomer, clinicView, newAppointment, books, finds,
                   boundVars, cause>>
    /\ FormFollows(TRUE)

\* No request that fails is handled: nothing asks again.
ReadFails(r) ==
    /\ reads[r].stage = "sent"
    /\ reads' = [reads EXCEPT ![r] = NoRead]
    /\ cause' = cause \cup {"lost"}
    /\ UNCHANGED <<serverVars, catalog, appointments, userCustomer, clinicView, booking,
                   newAppointment, books, finds, boundVars>>

\* The customers are searched for the user, or a record of the user is created.
ServeFind(f) ==
    /\ finds[f].stage = "sent"
    /\ \/ /\ finds[f].kind = "find"
          /\ \E answer \in {IF customers > 0 THEN "found" ELSE "nobody"}
                           \cup (IF "crowded" \in cause THEN {"nobody"} ELSE {}) :
               finds' = [finds EXCEPT ![f].stage = answer]
          /\ UNCHANGED customers
       \/ /\ finds[f].kind = "create" /\ customers < MaxCustomers
          /\ customers' = customers + 1
          /\ finds' \in {[finds EXCEPT ![f].stage = "found"], [finds EXCEPT ![f] = NoFind]}
       \/ finds' = [finds EXCEPT ![f] = NoFind] /\ UNCHANGED customers
    /\ UNCHANGED <<booked, doubled, begun, catalog, appointments, userCustomer, clinicView,
                   booking, newAppointment, reads, books, boundVars, cause>>

\* A plausible bug: the answer becomes the customer as it came.
FindSettlesRaw(f) ==
    /\ finds[f].stage \in {"found", "nobody"}
    /\ userCustomer' = finds[f].stage
    /\ finds' = [finds EXCEPT ![f] = NoFind]
    /\ UNCHANGED <<serverVars, catalog, appointments, clinicView, newAppointment, reads, books,
                   boundVars, cause>>
    /\ FormFollows(FALSE)

\* A plausible bug: the effect looks at the customer of before the answer.
FindSettlesStale(f) ==
    /\ finds[f].stage \in {"found", "nobody"}
    /\ userCustomer' = IF finds[f].stage = "found" THEN "known" ELSE "null"
    /\ finds' = [finds EXCEPT ![f] = IF finds[f].stage = "nobody" \/ userCustomer = "null"
                                     THEN [stage |-> "sent", kind |-> "create"] ELSE NoFind]
    /\ UNCHANGED <<serverVars, catalog, appointments, clinicView, newAppointment, reads, books,
                   boundVars, cause>>
    /\ FormFollows(FALSE)

\* The answer becomes userCustomer; when that is a change to null, the effect runs again
\* and asks for a record.
FindSettles(f) ==
    /\ finds[f].stage \in {"found", "nobody"}
    /\ userCustomer' = IF finds[f].stage = "found" THEN "known" ELSE "null"
    /\ finds' = [finds EXCEPT ![f] = IF userCustomer' = "null" /\ userCustomer # "null"
                                     THEN [stage |-> "sent", kind |-> "create"] ELSE NoFind]
    /\ UNCHANGED <<serverVars, catalog, appointments, clinicView, newAppointment, reads, books,
                   boundVars, cause>>
    /\ FormFollows(FALSE)

ListLive == clinicView = "List" /\ appointments.there /\ "staff" \in catalog
FormLive == booking.shown /\ ~booking.saving

NewAppointmentClick ==
    /\ ListLive
    /\ clinicView' = "New"
    /\ UNCHANGED <<serverVars, catalog, appointments, userCustomer, newAppointment, reads,
                   books, finds, boundVars, cause>>
    /\ FormFollows(FALSE)

Cancel ==
    /\ FormLive
    /\ clinicView' = "List"
    /\ UNCHANGED <<serverVars, catalog, appointments, userCustomer, newAppointment, reads,
                   books, finds, boundVars, cause>>
    /\ FormFollows(FALSE)

PickSlot(s) ==
    /\ FormLive /\ s \in Free
    /\ booking' = [booking EXCEPT !.slot = s]
    /\ UNCHANGED <<serverVars, catalog, appointments, userCustomer, clinicView, newAppointment,
                   reads, books, finds, boundVars, cause>>

\* Create Appointment: the form says it saves, and the effect of newAppointment asks.
CreateClick ==
    /\ FormLive /\ booking.slot # NoSlot
    /\ asked < MaxBooks
    /\ asked' = asked + 1
    /\ booking' = [booking EXCEPT !.saving = TRUE]
    /\ newAppointment' = booking.slot
    /\ AskAppointment(booking.slot)
    /\ cause' = cause \cup (IF \E r \in Reads : reads[r] # NoRead THEN {"early"} ELSE {})
                      \cup (IF Free = {} THEN {"full"} ELSE {})
    /\ UNCHANGED <<serverVars, catalog, appointments, userCustomer, clinicView, reads, finds,
                   reloads>>

\* The appointments the page makes last an hour.
Taken(s) ==
    /\ booked' = booked \cup {s} /\ begun' = begun \cup {s}
    /\ doubled' = (doubled \/ s \in booked)

CreateAppointment(b) ==
    /\ books[b].stage = "sent"
    /\ Taken(books[b].slot)
    /\ books' = [books EXCEPT ![b].stage = "ok"]
    /\ UNCHANGED <<customers, catalog, appointments, userCustomer, clinicView, booking,
                   newAppointment, reads, finds, boundVars, cause>>

\* It may have been carried out, and the form says for good that it saves.
BookFails(b) ==
    /\ books[b].stage = "sent"
    /\ Taken(books[b].slot) \/ UNCHANGED <<booked, doubled, begun>>
    /\ books' = [books EXCEPT ![b] = NoBook]
    /\ cause' = cause \cup {"lost"}
    /\ UNCHANGED <<customers, catalog, appointments, userCustomer, clinicView, booking,
                   newAppointment, reads, finds, boundVars>>

\* Back to the list, and the appointments are read again: meanwhile the list is the old one.
BookSettles(b) ==
    /\ books[b].stage = "ok"
    /\ books' = [books EXCEPT ![b] = NoBook]
    /\ clinicView' = "List"
    /\ LoadAppointments
    /\ UNCHANGED <<serverVars, catalog, appointments, userCustomer, newAppointment, finds,
                   boundVars, cause>>
    /\ FormFollows(FALSE)

\* A new loader: every effect runs again, and the one that creates the appointment does
\* so as well, since newAppointment is still the last one.
LoaderChanges ==
    /\ reloads < MaxReloads
    /\ reloads' = reloads + 1
    /\ LoadAppointments
    /\ CASE userCustomer = "undefined" -> AskCustomer("find")
         [] userCustomer = "null" -> AskCustomer("create")
         [] userCustomer = "known" -> UNCHANGED finds
    /\ IF newAppointment = NoSlot THEN UNCHANGED books ELSE AskAppointment(newAppointment)
    /\ cause' = cause \cup {"reload"}
    /\ UNCHANGED <<serverVars, catalog, appointments, userCustomer, clinicView, booking,
                   newAppointment, asked>>

\* Another user books, for an hour or as part of a longer appointment, or another page of
\* this user registers the user.
SomebodyElse ==
    /\ "others" \notin cause
    /\ cause' = cause \cup {"others"}
    /\ \/ /\ \E s \in Slots \ booked : /\ booked' = booked \cup {s}
                                        /\ begun' \in {begun, begun \cup {s}}
          /\ UNCHANGED customers
       \/ customers = 0 /\ customers' = 1 /\ UNCHANGED <<booked, begun>>
    /\ UNCHANGED <<doubled, catalog, appointments, userCustomer, clinicView, booking,
                   newAppointment, reads, books, finds, boundVars>>

AppointmentsProgress(r) == ListAppointments(r) \/ ReadSettles(r) \/ ReadFails(r)
BookProgress(b) == CreateAppointment(b) \/ BookFails(b) \/ BookSettles(b)

ClinicNext ==
    \/ \E x \in {"staff", "services"} : CatalogLoads(x)
    \/ \E r \in Reads : AppointmentsProgress(r)
    \/ \E f \in Finds : ServeFind(f) \/ FindSettles(f)
    \/ \E b \in Books : BookProgress(b)
    \/ \E s \in Slots : PickSlot(s)
    \/ NewAppointmentClick \/ Cancel \/ CreateClick \/ LoaderChanges \/ SomebodyElse

\* Every request is served or fails, and every answer is handled.
ClinicFair ==
    /\ \A r \in Reads : WF_clinicVars(AppointmentsProgress(r))
    /\ \A b \in Books : WF_clinicVars(BookProgress(b))

ClinicSpec == ClinicInit /\ [][ClinicNext]_clinicVars /\ ClinicFair

-----------------------------------------------------------------------------

(* The user gets a second customer record only when Graph's list was cut     *)
(* short and left the first out, when another page registered the user       *)
(* meanwhile, or when the loader changed: each alone makes the page believe  *)
(* that there is none.                                                       *)
RegisteredOnce == customers > 1 => cause \cap {"crowded", "others", "reload"} # {}

(* A slot is booked twice only for one of these reasons: the list was cut    *)
(* short, the browser is in another time zone than the form assumes (the     *)
(* appointment then seems to take another slot), an appointment is longer    *)
(* than an hour (it seems to take its first slot only), somebody else        *)
(* booked, the loader changed (and the last appointment was asked for        *)
(* again), the user asked before the list was read again, a request failed,  *)
(* or no slot was left: then the form keeps the one it had.                  *)
DoubleBookedForAReason == doubled => cause # {}

(* The form does not save for ever, unless a creation failed.                *)
ClinicSettles == <>[](~booking.saving \/ "lost" \in cause)

=============================================================================
