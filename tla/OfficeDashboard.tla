---------------------------- MODULE OfficeDashboard ----------------------------
(***************************************************************************)
(* react-office-dashboard: the tabs with the user's mail and OneDrive.  The *)
(* drive browser keeps the folder whose items it shows and the path to it;  *)
(* a click on a folder or on the path loads a folder, and the path it will  *)
(* have then is computed from the path of the moment of the click.  A tab   *)
(* that is left is unmounted: what it asked for is answered to nobody.      *)
(***************************************************************************)
EXTENDS Naturals, Sequences

CONSTANTS
    Folders,
    Root,
    ParentOf,    \* the folder of each folder; Root's is itself
    Gets,        \* folder loads that may be under way at once
    Emails, NoEmail,
    MaxOpens     \* bound: clicks that load something, or leave the tab

ASSUME DashboardAssumption ==
    /\ Root \in Folders /\ NoEmail \notin Emails
    /\ ParentOf \in [Folders -> Folders] /\ MaxOpens \in Nat

VARIABLES
    activeTab,
    files,          \* AppMainContent's loads: the inbox, the chats and the root folder
    selectedEmail, loadingEmail,
    currentItems,   \* the folder whose items are shown
    breadcrumbs,    \* the path, from Root on
    driveLoading,
    open,           \* loads of folders, each with the path it will set
    opens,
    \* history
    clicked,        \* the folder clicked last
    mixedUp         \* a load began while another was under way, or failed

dashVars == <<activeTab, files, selectedEmail, loadingEmail, currentItems, breadcrumbs,
              driveLoading, open, opens, clicked, mixedUp>>
mailVars == <<selectedEmail, loadingEmail>>
driveVars == <<currentItems, breadcrumbs, driveLoading, open, clicked, mixedUp>>

Tabs == {"emails", "chats", "onedrive"}
NoOpen == [stage |-> "none", path |-> <<>>]
Last(path) == path[Len(path)]

\* What a path is: it starts at the root, and each folder is in the one before.
Path(p) ==
    /\ Len(p) > 0
    /\ p[1] = Root
    /\ \A i \in 2 .. Len(p) : p[i] # Root /\ ParentOf[p[i]] = p[i - 1]

DashTypeOK ==
    /\ activeTab \in Tabs
    /\ files \in [Tabs -> {"sent", "ok", "failed"}]
    /\ selectedEmail \in Emails \cup {NoEmail} /\ loadingEmail \in Emails \cup {NoEmail}
    /\ currentItems \in Folders
    /\ breadcrumbs \in Seq(Folders)
    /\ driveLoading \in BOOLEAN /\ mixedUp \in BOOLEAN
    /\ open \in [Gets -> [stage : {"none", "sent", "ok", "error"}, path : Seq(Folders)]]
    /\ opens \in 0 .. MaxOpens
    /\ clicked \in Folders

DashInit ==
    /\ activeTab = "emails"
    /\ files = [t \in Tabs |-> "sent"]
    /\ selectedEmail = NoEmail /\ loadingEmail = NoEmail
    /\ currentItems = Root /\ breadcrumbs = <<Root>> /\ driveLoading = FALSE
    /\ open = [g \in Gets |-> NoOpen]
    /\ clicked = Root /\ mixedUp = FALSE
    /\ opens = 0

-----------------------------------------------------------------------------

DashClick == opens < MaxOpens /\ opens' = opens + 1

\* Each of the loads at the start comes in for itself; one that fails leaves its tab at
\* "Loading" for good.
FilesLoad(t) ==
    /\ files[t] = "sent"
    /\ \E answer \in {"ok", "failed"} : files' = [files EXCEPT ![t] = answer]
    /\ UNCHANGED <<activeTab, mailVars, driveVars, opens>>

setActiveTab(t) ==
    /\ activeTab # t /\ DashClick
    /\ activeTab' = t
    /\ selectedEmail' = NoEmail /\ loadingEmail' = NoEmail
    /\ currentItems' = Root /\ breadcrumbs' = <<Root>> /\ driveLoading' = FALSE
    /\ open' = [g \in Gets |-> NoOpen]
    /\ clicked' = Root /\ mixedUp' = FALSE
    /\ UNCHANGED files

Live(t) == activeTab = t /\ files[t] = "ok"

\* While a mail loads the others cannot be clicked; when its load fails it is shown as it
\* is in the list.  (loadingEmail: which one.)
handleEmailClick(m) ==
    /\ Live("emails") /\ loadingEmail = NoEmail /\ DashClick
    /\ loadingEmail' = m
    /\ UNCHANGED <<activeTab, files, selectedEmail, driveVars>>

EmailSettles ==
    /\ loadingEmail # NoEmail
    /\ selectedEmail' = loadingEmail
    /\ loadingEmail' = NoEmail
    /\ UNCHANGED <<activeTab, files, driveVars, opens>>

\* The cross, which is not shown while a mail loads.
CloseEmail ==
    /\ selectedEmail # NoEmail /\ loadingEmail = NoEmail
    /\ selectedEmail' = NoEmail
    /\ UNCHANGED <<activeTab, files, loadingEmail, driveVars, opens>>

Opening == \E g \in Gets : open[g] # NoOpen

OpenFolder(path) ==
    /\ DashClick
    /\ \E g \in Gets : /\ open[g] = NoOpen
                       /\ open' = [open EXCEPT ![g] = [stage |-> "sent", path |-> path]]
    /\ driveLoading' = TRUE
    /\ clicked' = Last(path)
    /\ mixedUp' = (mixedUp \/ Opening)
    /\ UNCHANGED <<activeTab, files, mailVars, currentItems, breadcrumbs>>

\* A folder of the items shown, which are hidden while the browser loads.
handleFolderClick(f) ==
    /\ Live("onedrive") /\ ~driveLoading
    /\ f # Root /\ ParentOf[f] = currentItems
    /\ OpenFolder(Append(breadcrumbs, f))

\* A part of the path but its last, also while the browser loads.  The root's items are
\* at hand, and shown at once.
handleBreadcrumbClick(i) ==
    /\ Live("onedrive")
    /\ i \in 1 .. Len(breadcrumbs) - 1
    /\ \/ i > 1 /\ OpenFolder(SubSeq(breadcrumbs, 1, i))
       \/ /\ i = 1 /\ DashClick
          /\ currentItems' = Root /\ breadcrumbs' = <<Root>> /\ driveLoading' = FALSE
          /\ clicked' = Root /\ mixedUp' = (mixedUp \/ Opening)
          /\ UNCHANGED <<activeTab, files, mailVars, open>>

LoadFolderContents(g) ==
    /\ open[g].stage = "sent"
    /\ \E answer \in {"ok", "error"} : open' = [open EXCEPT ![g].stage = answer]
    /\ UNCHANGED <<activeTab, files, mailVars, currentItems, breadcrumbs, driveLoading, opens,
                   clicked, mixedUp>>

\* A plausible bug: the path grows from the path of now.
OpenSettlesBelow(g) ==
    /\ open[g].stage = "ok"
    /\ open' = [open EXCEPT ![g] = NoOpen]
    /\ driveLoading' = FALSE
    /\ currentItems' = Last(open[g].path)
    /\ breadcrumbs' = Append(breadcrumbs, Last(open[g].path))
    /\ UNCHANGED <<activeTab, files, mailVars, opens, clicked, mixedUp>>

\* A plausible bug: a load shows nothing when the path is deeper than one.
OpenSettlesShallow(g) ==
    /\ open[g].stage = "ok"
    /\ open' = [open EXCEPT ![g] = NoOpen]
    /\ driveLoading' = FALSE
    /\ IF Len(breadcrumbs) > 1 THEN UNCHANGED <<currentItems, breadcrumbs>>
       ELSE currentItems' = Last(open[g].path) /\ breadcrumbs' = open[g].path
    /\ UNCHANGED <<activeTab, files, mailVars, opens, clicked, mixedUp>>

OpenSettles(g) ==
    /\ open[g].stage \in {"ok", "error"}
    /\ open' = [open EXCEPT ![g] = NoOpen]
    /\ driveLoading' = FALSE
    /\ \/ /\ open[g].stage = "ok"
          /\ currentItems' = Last(open[g].path)
          /\ breadcrumbs' = open[g].path
          /\ UNCHANGED mixedUp
       \/ /\ open[g].stage = "error"
          /\ mixedUp' = TRUE
          /\ UNCHANGED <<currentItems, breadcrumbs>>
    /\ UNCHANGED <<activeTab, files, mailVars, opens, clicked>>

OpenProgress(g) == LoadFolderContents(g) \/ OpenSettles(g)

DashNext ==
    \/ \E t \in Tabs : FilesLoad(t) \/ setActiveTab(t)
    \/ \E m \in Emails : handleEmailClick(m)
    \/ EmailSettles \/ CloseEmail
    \/ \E f \in Folders : handleFolderClick(f)
    \/ \E i \in 1 .. Len(breadcrumbs) : handleBreadcrumbClick(i)
    \/ \E g \in Gets : OpenProgress(g)

\* Every request is answered and every answer handled; nobody has to click.
DashFair ==
    /\ WF_dashVars(EmailSettles)
    /\ \A g \in Gets : WF_dashVars(OpenProgress(g))

DashSpec == DashInit /\ [][DashNext]_dashVars /\ DashFair

-----------------------------------------------------------------------------

(* However loads overlap and come in, the path shown is a path of the drive  *)
(* and leads to the folder whose items are shown: a load sets both, and the  *)
(* path it sets is the one it was clicked under.                             *)
PathLeadsToItems ==
    /\ Path(breadcrumbs)
    /\ Last(breadcrumbs) = currentItems

(* When nothing loads, the folder shown is the one clicked last, unless two  *)
(* loads overlapped or one failed: the path can be clicked while a folder    *)
(* loads, and the root is shown at once over a load that still comes.        *)
ShowsLastClicked == Opening \/ mixedUp \/ currentItems = clicked

(* Once the user clicks no more, no mail and no folder stays at "Loading".   *)
DashSettles == <>[](loadingEmail = NoEmail /\ ~driveLoading)

=============================================================================
