--------------------------- MODULE BlobBrowser_proofs ---------------------------
(***************************************************************************)
(* Proofs about the file browser, for every set of files, folders and       *)
(* requests and every bound.                                                *)
(***************************************************************************)
EXTENDS BlobBrowser, TLAPS

\* What makes ShownIsCurrent inductive: the listings under way are all of the current folder.
ListingsAreCurrent ==
    listRaced \/ \A q \in Listings : listing[q] \in {prefix, Nowhere}

\* What makes OwnLocksKnown inductive: what is locked here is locked, and every answer with
\* the locks that is still to come in holds it.
AnswersHoldOwn ==
    /\ lockedHere \subseteq locks
    /\ readRaced \/
          \A r \in Refreshes : reading[r].stage = "ok" => lockedHere \subseteq reading[r].found

BrowserInv ==
    /\ BrowserTypeOK
    /\ ListingsAreCurrent /\ ShownIsCurrent
    /\ LocksShownAreRead
    /\ AnswersHoldOwn /\ OwnLocksKnown

-----------------------------------------------------------------------------
(* Type correctness.                                                        *)

Reading == [stage : {"none", "sent", "ok", "error"}, found : SUBSET Files]
Act == Requests \cup Unsent

\* Requests that are not under way are of their types.
LEMMA BrowserNothing == NoRead \in Reading /\ NoAct \in Act
  BY DEF NoRead, Reading, NoAct, Act, Unsent

LEMMA BrowserTypeInit == BrowserInit => BrowserTypeOK
  <1> SUFFICES ASSUME BrowserInit PROVE BrowserTypeOK
    OBVIOUS
  <1>1. others \in 0 .. MaxOthers /\ browse \in 0 .. MaxBrowse
    BY BrowserAssumption DEF BrowserInit
  <1>2. reading \in [Refreshes -> Reading]
    BY BrowserNothing DEF BrowserInit, Reading
  <1>3. act \in [Acts -> Act]
    BY BrowserNothing DEF BrowserInit
  <1>4. listing \in [Listings -> Folders \cup {Nowhere}]
    BY DEF BrowserInit
  <1>5. /\ {locks, activeLocks, shownLocks, lockedHere} \subseteq SUBSET Files
        /\ prefix \in Folders /\ shown \in Folders \cup {Nowhere}
        /\ {listRaced, listFailed, readRaced} \subseteq BOOLEAN
    BY BrowserAssumption DEF BrowserInit
  <1> QED
    BY <1>1, <1>2, <1>3, <1>4, <1>5 DEF BrowserTypeOK, Reading, Act

LEMMA BrowserTypeList ==
    ASSUME BrowserTypeOK, NEW q \in Listings, NEW folder \in Folders,
           listFilesFromBlobStorage(q, folder)
    PROVE  listing' \in [Listings -> Folders \cup {Nowhere}] /\ listRaced' \in BOOLEAN
  BY DEF BrowserTypeOK, listFilesFromBlobStorage

LEMMA TypeNavigate ==
    ASSUME BrowserTypeOK, NEW folder \in Folders, Navigate(folder) PROVE BrowserTypeOK'
  <1>1. browse' \in 0 .. MaxBrowse
    BY BrowserAssumption DEF BrowserTypeOK, Navigate
  <1>2. listing' \in [Listings -> Folders \cup {Nowhere}] /\ listRaced' \in BOOLEAN
    BY BrowserTypeList DEF Navigate, Listings
  <1> QED
    BY <1>1, <1>2 DEF BrowserTypeOK, Navigate

LEMMA TypeListing ==
    ASSUME BrowserTypeOK, NEW q \in Listings, ListingProgress(q) PROVE BrowserTypeOK'
  <1>1. CASE ListingSettles(q)
    <2>1. act' \in [Acts -> Act]
      <3>1. \A a \in Acts : [act[a] EXCEPT !.alive =
                              @ /\ FolderOf[act[a].file] = listing[q]] \in Act
        <4> SUFFICES ASSUME NEW a \in Acts
                     PROVE  [act[a] EXCEPT !.alive = @ /\ FolderOf[act[a].file] = listing[q]]
                              \in Act
          OBVIOUS
        <4> DEFINE stays == act[a].alive /\ FolderOf[act[a].file] = listing[q]
        <4>1. act[a] \in Act
          BY DEF BrowserTypeOK, Act
        <4>2. stays \in BOOLEAN
          OBVIOUS
        <4> HIDE DEF stays
        <4>4. [act[a] EXCEPT !.alive = stays] \in Act
          <5>1. CASE act[a] \in Unsent
            BY <4>2, <5>1 DEF Act, Unsent
          <5>2. CASE act[a] \in Requests
            BY <4>2, <5>2 DEF Act, Requests
          <5> QED
            BY <4>1, <5>1, <5>2 DEF Act
        <4> QED
          BY <4>4 DEF stays
      <3> QED
        BY <1>1, <3>1 DEF ListingSettles
    <2>2. listing' \in [Listings -> Folders \cup {Nowhere}] /\ shown' \in Folders \cup {Nowhere}
      BY <1>1 DEF BrowserTypeOK, ListingSettles
    <2>3. shownLocks' \in SUBSET Files
      BY <1>1 DEF BrowserTypeOK, ListingSettles
    <2> QED
      BY <1>1, <2>1, <2>2, <2>3 DEF BrowserTypeOK, ListingSettles, Act
  <1>2. CASE ListingFails(q)
    BY <1>2 DEF BrowserTypeOK, ListingFails
  <1> QED
    BY <1>1, <1>2 DEF ListingProgress

LEMMA TypeRead ==
    ASSUME BrowserTypeOK, NEW r \in Refreshes, ReadProgress(r) PROVE BrowserTypeOK'
  <1>1. CASE GetActiveLocks(r)
    <2>1. reading' \in [Refreshes -> Reading]
      BY <1>1 DEF BrowserTypeOK, GetActiveLocks, Reading
    <2> QED
      BY <1>1, <2>1 DEF BrowserTypeOK, GetActiveLocks, Reading
  <1>2. CASE LocksRead(r)
    <2>1. reading' \in [Refreshes -> Reading] /\ activeLocks' \in SUBSET Files
      BY <1>2, BrowserNothing DEF BrowserTypeOK, LocksRead, Reading
    <2>2. listing' \in [Listings -> Folders \cup {Nowhere}] /\ listRaced' \in BOOLEAN
      BY <1>2, BrowserTypeList DEF BrowserTypeOK, LocksRead, Listings
    <2> QED
      BY <1>2, <2>1, <2>2 DEF BrowserTypeOK, LocksRead, Reading
  <1>3. CASE LocksNotRead(r)
    <2>1. reading' \in [Refreshes -> Reading]
      BY <1>3, BrowserNothing DEF BrowserTypeOK, LocksNotRead, Reading
    <2> QED
      BY <1>3, <2>1 DEF BrowserTypeOK, LocksNotRead, Reading
  <1> QED
    BY <1>1, <1>2, <1>3 DEF ReadProgress

LEMMA TypeClick ==
    ASSUME BrowserTypeOK, NEW f \in Files, ClickFile(f) PROVE BrowserTypeOK'
  <1>1. browse' \in 0 .. MaxBrowse
    BY BrowserAssumption DEF BrowserTypeOK, ClickFile
  <1>2. act' \in [Acts -> Act]
    BY DEF BrowserTypeOK, ClickFile, Act, Requests, NoAct
  <1> QED
    BY <1>1, <1>2 DEF BrowserTypeOK, ClickFile, Act

LEMMA TypeOthers ==
    ASSUME BrowserTypeOK, NEW f \in Files, SomeoneElse(f) PROVE BrowserTypeOK'
  <1>1. others' \in 0 .. MaxOthers
    BY BrowserAssumption DEF BrowserTypeOK, SomeoneElse
  <1>2. locks' \in SUBSET Files /\ lockedHere' \in SUBSET Files
    BY DEF BrowserTypeOK, SomeoneElse
  <1> QED
    BY <1>1, <1>2 DEF BrowserTypeOK, SomeoneElse

LEMMA TypeAct ==
    ASSUME BrowserTypeOK, NEW a \in Acts, ActProgress(a) PROVE BrowserTypeOK'
  <1>1. CASE EditAction(a)
    <2>1. act[a].file \in Files
      BY <1>1 DEF BrowserTypeOK, EditAction, Requests, Unsent
    <2>2. locks' \in SUBSET Files
      BY <1>1, <2>1 DEF BrowserTypeOK, EditAction
    <2>3. act' \in [Acts -> Act]
      BY <1>1, <2>1 DEF BrowserTypeOK, EditAction, Act, Requests, Unsent
    <2>4. lockedHere' \in SUBSET Files
      BY <1>1 DEF BrowserTypeOK, EditAction
    <2> QED
      BY <1>1, <2>2, <2>3, <2>4 DEF BrowserTypeOK, EditAction, Act
  <1>2. CASE ActSettles(a)
    <2>1. act' \in [Acts -> Act]
      BY <1>2, BrowserNothing DEF BrowserTypeOK, ActSettles, Act
    <2>2. reading' \in [Refreshes -> Reading]
      BY <1>2 DEF BrowserTypeOK, ActSettles, Reading
    <2>4. readRaced' \in BOOLEAN
      BY <1>2 DEF BrowserTypeOK, ActSettles, ReadUnderWay
    <2>3. lockedHere' \in SUBSET Files
      BY <1>2 DEF BrowserTypeOK, ActSettles
    <2> QED
      BY <1>2, <2>1, <2>2, <2>3, <2>4 DEF BrowserTypeOK, ActSettles, Act, Reading
  <1> QED
    BY <1>1, <1>2 DEF ActProgress

LEMMA BrowserTypeNext == ASSUME BrowserTypeOK, [BrowserNext]_browserVars PROVE BrowserTypeOK'
  <1>1. ASSUME UNCHANGED browserVars PROVE BrowserTypeOK'
    BY <1>1 DEF browserVars, BrowserTypeOK
  <1> QED
    BY <1>1, TypeNavigate, TypeListing, TypeRead, TypeClick, TypeOthers, TypeAct
       DEF BrowserNext, setDir, setNewPath

(* The file browser keeps to the types of its state.                         *)
THEOREM BrowserTypeCorrect == BrowserSpec => []BrowserTypeOK
  <1> QED
    BY BrowserTypeInit, BrowserTypeNext, PTL DEF BrowserSpec

-----------------------------------------------------------------------------
(* Listings.                                                                 *)

\* The variables that the facts about listings depend on.
shownListVars == <<prefix, shown, listing, listRaced, listFailed>>
ListOK == ListingsAreCurrent /\ ShownIsCurrent

LEMMA ListStart ==
    ASSUME BrowserTypeOK, ListOK, NEW q \in Listings, NEW folder \in Folders,
           listFilesFromBlobStorage(q, folder), prefix' = folder
    PROVE  ListOK'
  <1>1. listing'[q] = folder /\ folder # Nowhere
    BY BrowserAssumption DEF BrowserTypeOK, listFilesFromBlobStorage
  <1>2. ASSUME ~listRaced', NEW p \in Listings PROVE listing'[p] \in {folder, Nowhere}
    BY <1>2, <1>1 DEF BrowserTypeOK, listFilesFromBlobStorage
  <1> QED
    BY <1>1, <1>2 DEF ListOK, ListingsAreCurrent, ShownIsCurrent, ListingUnderWay

LEMMA ListNext ==
    ASSUME BrowserTypeOK, ListOK, [BrowserNext]_browserVars PROVE ListOK'
  <1>1. ASSUME UNCHANGED shownListVars PROVE ListOK'
    BY <1>1 DEF shownListVars, ListOK, ListingsAreCurrent, ShownIsCurrent, ListingUnderWay
  <1>2. ASSUME NEW folder \in Folders, Navigate(folder) PROVE ListOK'
    BY <1>2, ListStart DEF Navigate, Listings
  <1>3. ASSUME NEW q \in Listings, ListingSettles(q) PROVE ListOK'
    <2>1. ASSUME NEW p \in Listings PROVE listing'[p] \in {listing[p], Nowhere}
      BY <1>3 DEF BrowserTypeOK, ListingSettles
    <2>2. listRaced \/ shown' \in {prefix, Nowhere}
      BY <1>3 DEF ListingSettles, ListOK, ListingsAreCurrent
    <2> QED
      BY <1>3, <2>1, <2>2 DEF ListingSettles, ListOK, ListingsAreCurrent, ShownIsCurrent
  <1>4. ASSUME NEW q \in Listings, ListingFails(q) PROVE ListOK'
    <2>1. ASSUME NEW p \in Listings PROVE listing'[p] \in {listing[p], Nowhere}
      BY <1>4 DEF BrowserTypeOK, ListingFails
    <2> QED
      BY <1>4, <2>1 DEF ListingFails, ListOK, ListingsAreCurrent, ShownIsCurrent
  <1>5. ASSUME NEW r \in Refreshes, LocksRead(r) PROVE ListOK'
    <2>1. prefix \in Folders /\ r \in Listings /\ prefix' = prefix
      BY <1>5 DEF BrowserTypeOK, Listings, LocksRead
    <2> QED
      BY <1>5, <2>1, ListStart DEF LocksRead
  <1> QED
    BY <1>1, <1>2, <1>3, <1>4, <1>5
       DEF BrowserNext, setDir, setNewPath, ListingProgress, ReadProgress, GetActiveLocks,
           LocksNotRead, ClickFile, SomeoneElse, ActProgress, EditAction, ActSettles, shownListVars,
           browserVars

-----------------------------------------------------------------------------
(* Locks shown.                                                              *)

LEMMA ShownLocksNext ==
    ASSUME BrowserTypeOK, LocksShownAreRead, [BrowserNext]_browserVars
    PROVE  LocksShownAreRead'
  <1> USE DEF LocksShownAreRead
  <1>1. ASSUME UNCHANGED <<activeLocks, shown, shownLocks, listing, listFailed>>
        PROVE  LocksShownAreRead'
    BY <1>1 DEF FilesOf, ListingUnderWay
  <1>2. ASSUME NEW q \in Listings, NEW folder \in Folders, listFilesFromBlobStorage(q, folder)
        PROVE  ListingUnderWay'
    BY <1>2, BrowserAssumption DEF BrowserTypeOK, listFilesFromBlobStorage, ListingUnderWay
  <1>3. ASSUME NEW folder \in Folders, Navigate(folder) PROVE LocksShownAreRead'
    BY <1>2, <1>3 DEF Navigate, Listings
  <1>4. ASSUME NEW q \in Listings, ListingSettles(q) PROVE LocksShownAreRead'
    BY <1>4 DEF ListingSettles, FilesOf
  <1>5. ASSUME NEW q \in Listings, ListingFails(q) PROVE LocksShownAreRead'
    BY <1>5 DEF ListingFails
  <1>6. ASSUME NEW r \in Refreshes, LocksRead(r) PROVE LocksShownAreRead'
    BY <1>2, <1>6 DEF LocksRead, Listings, BrowserTypeOK
  <1> QED
    BY <1>1, <1>3, <1>4, <1>5, <1>6
       DEF BrowserNext, setDir, setNewPath, ListingProgress, ReadProgress, GetActiveLocks,
           LocksNotRead, ClickFile, SomeoneElse, ActProgress, EditAction, ActSettles,
           browserVars

-----------------------------------------------------------------------------
(* Locks taken here.                                                         *)

OwnOK == AnswersHoldOwn /\ OwnLocksKnown

\* A step that leaves the locks read alone, and locks nothing here.
LEMMA OwnQuiet ==
    ASSUME OwnOK, UNCHANGED <<activeLocks, reading, readRaced>>,
           lockedHere' \subseteq lockedHere, lockedHere' \subseteq locks'
    PROVE  OwnOK'
  BY DEF OwnOK, AnswersHoldOwn, OwnLocksKnown, ReadUnderWay

LEMMA OwnRead ==
    ASSUME BrowserTypeOK, OwnOK, NEW r \in Refreshes, ReadProgress(r) PROVE OwnOK'
  <1>1. CASE GetActiveLocks(r)
    <2>1. /\ reading'[r].stage # "none"
          /\ reading'[r].stage = "ok" => reading'[r].found = locks
          /\ \A p \in Refreshes \ {r} : reading'[p] = reading[p]
      BY <1>1 DEF BrowserTypeOK, GetActiveLocks
    <2>2. ReadUnderWay'
      BY <2>1 DEF ReadUnderWay, NoRead
    <2> QED
      BY <1>1, <2>1, <2>2 DEF OwnOK, AnswersHoldOwn, OwnLocksKnown, GetActiveLocks
  <1>2. CASE LocksRead(r)
    <2>1. \A p \in Refreshes : reading'[p] \in {reading[p], NoRead}
      BY <1>2 DEF BrowserTypeOK, LocksRead
    <2>2. readRaced \/ lockedHere \subseteq activeLocks'
      BY <1>2 DEF OwnOK, AnswersHoldOwn, LocksRead
    <2> QED
      BY <1>2, <2>1, <2>2 DEF OwnOK, AnswersHoldOwn, OwnLocksKnown, LocksRead, NoRead
  <1>3. CASE LocksNotRead(r)
    BY <1>3 DEF OwnOK, AnswersHoldOwn, OwnLocksKnown, LocksNotRead
  <1> QED
    BY <1>1, <1>2, <1>3 DEF ReadProgress

LEMMA OwnSettles ==
    ASSUME BrowserTypeOK, OwnOK, NEW a \in Acts, ActSettles(a) PROVE OwnOK'
  <1>1. CASE act[a].stage = "ok"
    <2>1. /\ reading'[a].stage = "sent"
          /\ \A p \in Refreshes \ {a} : reading'[p] = reading[p]
      BY <1>1 DEF BrowserTypeOK, ActSettles, Refreshes
    <2>2. ReadUnderWay'
      BY <2>1 DEF ReadUnderWay, NoRead, Refreshes
    <2>3. lockedHere' \subseteq locks' /\ (readRaced' \/ ~ReadUnderWay)
      BY <1>1 DEF ActSettles, OwnOK, AnswersHoldOwn
    <2>4. ~ReadUnderWay => \A p \in Refreshes : reading'[p].stage # "ok"
      BY <2>1 DEF ReadUnderWay, NoRead
    <2> QED
      BY <2>2, <2>3, <2>4 DEF OwnOK, AnswersHoldOwn, OwnLocksKnown
  <1>2. CASE act[a].stage # "ok"
    BY <1>2, OwnQuiet DEF ActSettles, OwnOK, AnswersHoldOwn
  <1> QED
    BY <1>1, <1>2

LEMMA OwnNext == ASSUME BrowserTypeOK, OwnOK, [BrowserNext]_browserVars PROVE OwnOK'
  <1>1. ASSUME UNCHANGED <<activeLocks, reading, readRaced, lockedHere, locks>> PROVE OwnOK'
    BY <1>1, OwnQuiet DEF OwnOK, AnswersHoldOwn
  <1>2. ASSUME NEW a \in Acts, EditAction(a) PROVE OwnOK'
    <2>1. lockedHere' = lockedHere \cap locks'
      BY <1>2 DEF EditAction
    <2> QED
      BY <1>2, <2>1, OwnQuiet DEF EditAction
  <1>3. ASSUME NEW f \in Files, SomeoneElse(f) PROVE OwnOK'
    BY <1>3, OwnQuiet DEF SomeoneElse
  <1> QED
    BY <1>1, <1>2, <1>3, OwnRead, OwnSettles
       DEF BrowserNext, setDir, setNewPath, Navigate, ListingProgress, ListingSettles,
           ListingFails, ClickFile, ActProgress, browserVars

-----------------------------------------------------------------------------

LEMMA BrowserInvariance == BrowserSpec => []BrowserInv
  <1>1. BrowserInit => BrowserInv
    <2> SUFFICES ASSUME BrowserInit PROVE BrowserInv
      OBVIOUS
    <2>1. ListingsAreCurrent /\ ShownIsCurrent
      BY DEF BrowserInit, ListingsAreCurrent, ShownIsCurrent
    <2>2. LocksShownAreRead
      BY DEF BrowserInit, LocksShownAreRead
    <2>3. AnswersHoldOwn
      BY DEF BrowserInit, AnswersHoldOwn, NoRead
    <2>4. OwnLocksKnown
      BY DEF BrowserInit, OwnLocksKnown
    <2> QED
      BY BrowserTypeInit, <2>1, <2>2, <2>3, <2>4 DEF BrowserInv
  <1>2. BrowserInv /\ [BrowserNext]_browserVars => BrowserInv'
    BY BrowserTypeNext, ListNext, ShownLocksNext, OwnNext DEF BrowserInv, ListOK, OwnOK
  <1> QED
    BY <1>1, <1>2, PTL DEF BrowserSpec

(* When no listing is under way, the files shown are those of the folder in  *)
(* the breadcrumb, unless listings of two folders overlapped or one failed.  *)
THEOREM ShownCurrent == BrowserSpec => []ShownIsCurrent
  <1>1. BrowserInv => ShownIsCurrent
    BY DEF BrowserInv
  <1> QED
    BY <1>1, BrowserInvariance, PTL

(* When no listing is under way, the locks shown are the locks read last.    *)
THEOREM LocksShown == BrowserSpec => []LocksShownAreRead
  <1>1. BrowserInv => LocksShownAreRead
    BY DEF BrowserInv
  <1> QED
    BY <1>1, BrowserInvariance, PTL

(* A file the browser locked is known to be locked once its refresh is over, *)
(* unless reads of the locks overlapped or one failed.                       *)
THEOREM OwnKnown == BrowserSpec => []OwnLocksKnown
  <1>1. BrowserInv => OwnLocksKnown
    BY DEF BrowserInv
  <1> QED
    BY <1>1, BrowserInvariance, PTL

=============================================================================
