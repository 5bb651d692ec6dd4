----------------------------- MODULE BlobBrowser -----------------------------
(***************************************************************************)
(* SPOAzBlob: the file browser of the web client (React 17: outside of an   *)
(* event handler setState takes effect at once).  It shows the files of one *)
(* folder of blob storage, each with the lock it found for it, and locks    *)
(* and unlocks files through the edit actions, which module FileEditing     *)
(* models in full; here they are a set of locked files.                     *)
(*                                                                         *)
(* A refresh reads the active locks and then lists the current folder; a    *)
(* navigation only lists.  Answers come in any order, and none is dropped.  *)
(* A listing is one page of blob storage's enumeration.                     *)
(***************************************************************************)
EXTENDS Naturals

CONSTANTS
    Files, Folders,
    Root,
    FolderOf,   \* the folder of each file
    ParentOf,   \* the folder of each folder; Root's is itself
    Nowhere,    \* no folder
    NoFile,
    Acts,       \* StartEdit and ReleaseLock requests that may be under way at once
    Mount,      \* the refresh when the browser opens
    Navs,       \* listings for navigations that may be under way at once
    MaxBrowse,  \* bound: clicks
    MaxOthers   \* bound: locks that others take or release

ASSUME BrowserAssumption ==
    /\ Root \in Folders /\ Nowhere \notin Folders /\ NoFile \notin Files
    /\ FolderOf \in [Files -> Folders] /\ ParentOf \in [Folders -> Folders]
    /\ Mount \notin Acts /\ Navs \cap (Acts \cup {Mount}) = {}
    /\ MaxBrowse \in Nat /\ MaxOthers \in Nat

VARIABLES
    locks,       \* the server's: the files that are locked
    prefix,      \* currentStoragePrefix: the breadcrumb
    activeLocks, \* as last read
    shown,       \* the folder whose listing is shown (blobItems, currentDirs)
    shownLocks,  \* the files shown with a lock
    act,         \* StartEdit and ReleaseLock requests
    reading,     \* GetActiveLocks requests, of the refresh that each request ends in
    listing,     \* the folder of each listing under way
    others, browse,
    \* history
    lockedHere,  \* files locked here, as the browser was told, and not released since
    listRaced,   \* a listing began while another folder's was under way, or one failed
    listFailed,
    readRaced    \* a read of the locks began while another was under way, or one failed

browserVars == <<locks, prefix, activeLocks, shown, shownLocks, act, reading, listing,
                 others, browse, lockedHere, listRaced, listFailed, readRaced>>

Refreshes == Acts \cup {Mount}
Listings == Refreshes \cup Navs
NoAct == [stage |-> "none", kind |-> "lock", file |-> NoFile, alive |-> FALSE]
NoRead == [stage |-> "none", found |-> {}]
Requests == [stage : {"sent", "ok", "error"}, kind : {"lock", "unlock"}, file : Files,
             alive : BOOLEAN]
Unsent == [stage : {"none"}, kind : {"lock"}, file : {NoFile}, alive : BOOLEAN]

BrowserTypeOK ==
    /\ {locks, activeLocks, shownLocks, lockedHere} \subseteq SUBSET Files
    /\ prefix \in Folders /\ shown \in Folders \cup {Nowhere}
    /\ act \in [Acts -> Requests \cup Unsent]
    /\ reading \in [Refreshes -> [stage : {"none", "sent", "ok", "error"},
                                  found : SUBSET Files]]
    /\ listing \in [Listings -> Folders \cup {Nowhere}]
    /\ others \in 0 .. MaxOthers /\ browse \in 0 .. MaxBrowse
    /\ {listRaced, listFailed, readRaced} \subseteq BOOLEAN

\* componentDidMount: a refresh.
BrowserInit ==
    /\ locks \in SUBSET Files
    /\ prefix = Root /\ shown = Nowhere
    /\ activeLocks = {} /\ shownLocks = {} /\ lockedHere = {}
    /\ act = [a \in Acts |-> NoAct]
    /\ reading = [r \in Refreshes |-> IF r = Mount THEN [NoRead EXCEPT !.stage = "sent"]
                                                   ELSE NoRead]
    /\ listing = [q \in Listings |-> Nowhere]
    /\ others = 0 /\ browse = 0
    /\ listRaced = FALSE /\ listFailed = FALSE /\ readRaced = FALSE

-----------------------------------------------------------------------------

FilesOf(folder) == {f \in Files : FolderOf[f] = folder}
ListingUnderWay == \E q \in Listings : listing[q] # Nowhere
ReadUnderWay == \E r \in Refreshes : reading[r] # NoRead

listFilesFromBlobStorage(q, folder) ==
    /\ listing[q] = Nowhere
    /\ listing' = [listing EXCEPT ![q] = folder]
    /\ listRaced' = (listRaced \/ \E p \in Listings : listing[p] \notin {folder, Nowhere})

\* A plausible bug: the folder is listed, and the breadcrumb stays.
NavigateUnseen(folder) ==
    /\ browse < MaxBrowse
    /\ browse' = browse + 1
    /\ \E q \in Navs : listFilesFromBlobStorage(q, folder)
    /\ UNCHANGED <<locks, prefix, activeLocks, shown, shownLocks, act, reading, others,
                   lockedHere, listFailed, readRaced>>

Navigate(folder) ==
    /\ browse < MaxBrowse
    /\ browse' = browse + 1
    /\ prefix' = folder
    /\ \E q \in Navs : listFilesFromBlobStorage(q, folder)
    /\ UNCHANGED <<locks, activeLocks, shown, shownLocks, act, reading, others, lockedHere,
                   listFailed, readRaced>>

\* A folder of the listing shown, whichever that is.
setDir(folder) == shown # Nowhere /\ ParentOf[folder] = shown /\ Navigate(folder)

\* The breadcrumb: the root, the current folder, and those between.
setNewPath(folder) ==
    /\ shown # Nowhere
    /\ folder \in {Root, ParentOf[prefix], prefix}
    /\ Navigate(folder)

\* The lock of each file is looked up as the listing comes in, in the locks read last.
\* A File that is no longer listed is unmounted; what it asked for goes on.
ListingSettles(q) ==
    /\ listing[q] # Nowhere
    /\ shown' = listing[q]
    /\ shownLocks' = activeLocks \cap FilesOf(listing[q])
    /\ act' = [a \in Acts |-> [act[a] EXCEPT !.alive =
                  @ /\ FolderOf[act[a].file] = listing[q]]]
    /\ listing' = [listing EXCEPT ![q] = Nowhere]
    /\ UNCHANGED <<locks, prefix, activeLocks, reading, others, browse, lockedHere, listRaced,
                   listFailed, readRaced>>

ListingFails(q) ==
    /\ listing[q] # Nowhere
    /\ listing' = [listing EXCEPT ![q] = Nowhere]
    /\ listFailed' = TRUE
    /\ UNCHANGED <<locks, prefix, activeLocks, shown, shownLocks, act, reading, others,
                   browse, lockedHere, listRaced, readRaced>>

\* GetActiveLocks at the server; a failure is never handled.
GetActiveLocks(r) ==
    /\ reading[r].stage = "sent"
    /\ \E answer \in {[stage |-> "ok", found |-> locks], [stage |-> "error", found |-> {}]} :
         reading' = [reading EXCEPT ![r] = answer]
    /\ UNCHANGED <<locks, prefix, activeLocks, shown, shownLocks, act, listing, others,
                   browse, lockedHere, listRaced, listFailed, readRaced>>

\* A plausible bug: the locks are read, and the files are listed only the first time.
LocksReadOnly(r) ==
    /\ reading[r].stage = "ok"
    /\ activeLocks' = reading[r].found
    /\ IF shown = Nowhere THEN listFilesFromBlobStorage(r, prefix)
       ELSE UNCHANGED <<listing, listRaced>>
    /\ reading' = [reading EXCEPT ![r] = NoRead]
    /\ UNCHANGED <<locks, prefix, shown, shownLocks, act, others, browse, lockedHere, listFailed,
                   readRaced>>

\* The rest of refreshFilesAndLocks: lists the folder that is current by now.
LocksRead(r) ==
    /\ reading[r].stage = "ok"
    /\ activeLocks' = reading[r].found
    /\ listFilesFromBlobStorage(r, prefix)
    /\ reading' = [reading EXCEPT ![r] = NoRead]
    /\ UNCHANGED <<locks, prefix, shown, shownLocks, act, others, browse, lockedHere, listFailed,
                   readRaced>>

LocksNotRead(r) ==
    /\ reading[r].stage = "error"
    /\ reading' = [reading EXCEPT ![r] = NoRead]
    /\ readRaced' = TRUE
    /\ UNCHANGED <<locks, prefix, activeLocks, shown, shownLocks, act, listing, others,
                   browse, lockedHere, listRaced, listFailed>>

\* loading of the File shown for f.
Loading(f) == \E a \in Acts : act[a].file = f /\ act[a].alive

\* startEdit of a file shown without a lock, startReleaseLock of one shown with a lock.
ClickFile(f) ==
    /\ browse < MaxBrowse
    /\ browse' = browse + 1
    /\ FolderOf[f] = shown
    /\ ~Loading(f)
    /\ \E a \in Acts :
         /\ act[a] = NoAct /\ reading[a] = NoRead /\ listing[a] = Nowhere
         /\ act' = [act EXCEPT ![a] = [stage |-> "sent", file |-> f, alive |-> TRUE,
                       kind |-> IF f \in shownLocks THEN "unlock" ELSE "lock"]]
    /\ UNCHANGED <<locks, prefix, activeLocks, shown, shownLocks, reading, listing, others,
                   lockedHere, listRaced, listFailed, readRaced>>

\* The server refuses to lock a locked file and to unlock one that is not; any request
\* may fail, or be carried out and its answer lost.
EditAction(a) ==
    LET f == act[a].file
        possible == (act[a].kind = "unlock") = (f \in locks)
        after == IF act[a].kind = "lock" THEN locks \cup {f} ELSE locks \ {f}
    IN
    /\ act[a].stage = "sent"
    /\ \/ possible /\ locks' = after /\ act' = [act EXCEPT ![a].stage = "ok"]
       \/ locks' \in {locks, after} /\ act' = [act EXCEPT ![a].stage = "error"]
    /\ lockedHere' = lockedHere \cap locks'
    /\ UNCHANGED <<prefix, activeLocks, shown, shownLocks, reading, listing, others, browse,
                   listRaced, listFailed, readRaced>>

\* A plausible bug: a success does not refresh.
ActSettlesQuietly(a) ==
    /\ act[a].stage \in {"ok", "error"}
    /\ act' = [act EXCEPT ![a] = NoAct]
    /\ lockedHere' = IF act[a].stage = "ok" /\ act[a].kind = "lock"
                     THEN lockedHere \cup ({act[a].file} \cap locks) ELSE lockedHere
    /\ UNCHANGED <<locks, prefix, activeLocks, shown, shownLocks, reading, listing, others,
                   browse, listRaced, listFailed, readRaced>>

\* A plausible bug: an error is not handled.
ActSettlesIfOk(a) == act[a].stage = "ok" /\ ActSettlesQuietly(a)

\* A success refreshes, also when its File is gone by now; an error only alerts.
ActSettles(a) ==
    /\ act[a].stage \in {"ok", "error"}
    /\ act' = [act EXCEPT ![a] = NoAct]
    /\ IF act[a].stage = "ok"
       THEN /\ reading' = [reading EXCEPT ![a].stage = "sent"]
            /\ readRaced' = (readRaced \/ ReadUnderWay)
            /\ lockedHere' = IF act[a].kind = "lock" THEN lockedHere \cup ({act[a].file} \cap locks)
                                                   ELSE lockedHere
       ELSE UNCHANGED <<reading, readRaced, lockedHere>>
    /\ UNCHANGED <<locks, prefix, activeLocks, shown, shownLocks, listing, others, browse,
                   listRaced, listFailed>>

\* Another user, or the processing of an edit, locks or unlocks a file.
SomeoneElse(f) ==
    /\ others < MaxOthers
    /\ others' = others + 1
    /\ locks' = IF f \in locks THEN locks \ {f} ELSE locks \cup {f}
    /\ lockedHere' = lockedHere \cap locks'
    /\ UNCHANGED <<prefix, activeLocks, shown, shownLocks, act, reading, listing, browse,
                   listRaced, listFailed, readRaced>>

ActProgress(a) == EditAction(a) \/ ActSettles(a)
ReadProgress(r) == GetActiveLocks(r) \/ LocksRead(r) \/ LocksNotRead(r)
ListingProgress(q) == ListingSettles(q) \/ ListingFails(q)

BrowserNext ==
    \/ \E folder \in Folders : setDir(folder) \/ setNewPath(folder)
    \/ \E f \in Files : ClickFile(f) \/ SomeoneElse(f)
    \/ \E a \in Acts : ActProgress(a)
    \/ \E r \in Refreshes : ReadProgress(r)
    \/ \E q \in Listings : ListingProgress(q)

\* Every request is answered and every answer handled; nobody has to click.
BrowserFair ==
    /\ \A a \in Acts : WF_browserVars(ActProgress(a))
    /\ \A r \in Refreshes : WF_browserVars(ReadProgress(r))
    /\ \A q \in Listings : WF_browserVars(ListingProgress(q))

BrowserSpec == BrowserInit /\ [][BrowserNext]_browserVars /\ BrowserFair

-----------------------------------------------------------------------------

(* When no listing is under way, the files shown are those of the folder in  *)
(* the breadcrumb, unless listings of two folders overlapped (the first one  *)
(* asked for may come last) or one failed.                                   *)
ShownIsCurrent ==
    ListingUnderWay \/ listRaced \/ listFailed \/ shown \in {prefix, Nowhere}

(* The locks shown are the locks read last, however refreshes and            *)
(* navigations overlap: every read is followed by a listing, and a listing   *)
(* looks the locks up when it comes in and not when it was asked for.        *)
LocksShownAreRead ==
    ListingUnderWay \/ listFailed \/ shownLocks = activeLocks \cap FilesOf(shown)

(* A file the browser locked is known to be locked once its refresh is over, *)
(* unless reads of the locks overlapped or one failed: nobody is offered to  *)
(* lock it a second time.                                                    *)
OwnLocksKnown == ReadUnderWay \/ readRaced \/ lockedHere \subseteq activeLocks

(* Once the user clicks no more, no file stays at Loading, whatever          *)
(* overlapped or failed, and files are shown unless a request failed.        *)
BrowserSettles ==
    <>[](/\ shown # Nowhere \/ readRaced \/ listFailed
         /\ \A f \in Files : ~Loading(f))

=============================================================================
