------------------------------- MODULE MCScreens -------------------------------
(***************************************************************************)
(* Instances for TLC of four programs that show what a server has: the      *)
(* webhook admin page with the timer, the file browser, the kiosk, and the  *)
(* booking pages.  Each behaviour is one of them running; app says which.   *)
(***************************************************************************)
EXTENDS WebhookAdmin, BlobBrowser, Kiosk, BookingPages, TLC

CONSTANTS Apps, f1, f2, Dir, b1, RoomA

MCFolderOf == (f1 :> Root) @@ (f2 :> Dir)
MCParentOf == [d \in Folders |-> Root]

VARIABLE app

vars == <<adminVars, browserVars, kioskVars, pagesVars, app>>

\* What an idle program starts from makes no difference.  The pages start with one booking.
Init ==
    /\ app \in Apps
    /\ AdminInit /\ BrowserInit /\ KioskInit /\ PagesInit
    /\ app # "browser" => locks = {}
    /\ app # "kiosk" => now = NoItem
    /\ db = [b \in BookingIds |-> IF b = b1 THEN RoomA ELSE NoRoom]

Next ==
    /\ \/ app = "admin" /\ AdminNext /\ UNCHANGED <<browserVars, kioskVars, pagesVars>>
       \/ app = "browser" /\ BrowserNext /\ UNCHANGED <<adminVars, kioskVars, pagesVars>>
       \/ app = "kiosk" /\ KioskNext /\ UNCHANGED <<adminVars, browserVars, pagesVars>>
       \/ app = "pages" /\ PagesNext /\ UNCHANGED <<adminVars, browserVars, kioskVars>>
    /\ UNCHANGED app

\* The fairness of each program, while it is the one that runs.
Fair ==
    /\ WF_adminVars(app = "admin" /\ SubscriptionRefresh)
    /\ \A c \in Calls : WF_adminVars(app = "admin" /\ CallProgress(c))
    /\ \A p \in Pages : WF_adminVars(app = "admin" /\ ClickAnswered(p))
    /\ \A a \in Acts : WF_browserVars(app = "browser" /\ ActProgress(a))
    /\ \A r \in Refreshes : WF_browserVars(app = "browser" /\ ReadProgress(r))
    /\ \A q \in Listings : WF_browserVars(app = "browser" /\ ListingProgress(q))
    /\ WF_kioskVars(app = "kiosk" /\ ConfigProgress)
    /\ WF_kioskVars(app = "kiosk" /\ Tick)
    /\ WF_kioskVars(app = "kiosk" /\ CallSettles)
    /\ \A p \in Polls : WF_kioskVars(app = "kiosk" /\ PollProgress(p))
    /\ WF_pagesVars(app = "pages" /\ RefreshProgress)
    /\ \A n \in 0 .. MaxSaves : WF_pagesVars(app = "pages" /\ RoomsProgress(n))
    /\ \A v \in Saves : WF_pagesVars(app = "pages" /\ SaveProgress(v))
    /\ \A q \in Lists : WF_pagesVars(app = "pages" /\ ListProgress(q))
    /\ \A d \in Cancels : WF_pagesVars(app = "pages" /\ CancelProgress(d))

Spec == Init /\ [][Next]_vars /\ Fair

(* The type invariants of the four programs.                                 *)
ScreensTypeOK == AdminTypeOK /\ BrowserTypeOK /\ KioskTypeOK /\ PagesTypeOK

(* The daily refresh ends up with one subscription and keeps it, whatever    *)
(* failed, lapsed or overlapped before (RefreshRepairs).                     *)
TimerRepairs == app = "admin" => RefreshRepairs

(* The screen ends up with what the playlist has now, unless it stopped or   *)
(* sits in the meeting before (KioskShowsNow).                               *)
ScreenShowsNow == app = "kiosk" => KioskShowsNow

(* The pages come to rest, whichever requests overlap or fail (ClickEnds,    *)
(* BrowserSettles, PagesSettle).                                             *)
ScreensSettle ==
    /\ app = "admin" => ClickEnds
    /\ app = "browser" => BrowserSettles
    /\ app = "pages" => PagesSettle

=============================================================================
