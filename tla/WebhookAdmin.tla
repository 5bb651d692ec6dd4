----------------------------- MODULE WebhookAdmin -----------------------------
(***************************************************************************)
(* SPOAzBlob: who calls the webhooks manager.  A timer of the functions     *)
(* host does once a day, and the web site's admin page does for every click *)
(* of its button.  (What the page lists, once, when it opens, is left out.) *)
(*                                                                         *)
(* A page may be left, or opened again, while its click is being served:    *)
(* the call goes on without it, and the new page knows nothing of it.       *)
(***************************************************************************)
EXTENDS Webhooks

CONSTANTS
    Timer,     \* the call the timer makes
    Pages,     \* browser tabs that show the admin page
    Nobody,    \* no call
    MaxPosts   \* bound: posts of the button

ASSUME CallersAssumption == Timer \in Calls /\ Nobody \notin Calls
ASSUME PostsAssumption == MaxPosts \in Nat

VARIABLES
    busy,    \* the call a page waits for: its button is hidden meanwhile
    posts

adminVars == <<hookVars, busy, posts>>
pageVars == <<busy, posts>>

AdminTypeOK ==
    /\ HooksTypeOK
    /\ busy \in [Pages -> (Calls \ {Timer}) \cup {Nobody}]
    /\ posts \in 0 .. MaxPosts

AdminInit ==
    /\ HooksInit
    /\ busy = [p \in Pages |-> Nobody]
    /\ posts = 0

-----------------------------------------------------------------------------

\* SubscriptionRefresh runs again, or a run of it ends; it catches every exception.
SubscriptionRefresh == (Start(Timer) \/ Answered(Timer)) /\ UNCHANGED pageVars

OpenPage(p) ==
    /\ busy' = [busy EXCEPT ![p] = Nobody]
    /\ UNCHANGED <<hookVars, posts>>

Waiting == {busy[p] : p \in Pages}

CreateOrUpdateClick(p) ==
    /\ posts < MaxPosts
    /\ busy[p] = Nobody
    /\ \E c \in Calls \ ({Timer} \cup Waiting) :
         /\ Start(c)
         /\ busy' = [busy EXCEPT ![p] = c]
    /\ posts' = posts + 1

\* The click's promise settles, either way: the button is back.
ClickAnswered(p) ==
    /\ busy[p] # Nobody
    /\ Answered(busy[p])
    /\ busy' = [busy EXCEPT ![p] = Nobody]
    /\ UNCHANGED posts

\* A call whose page was left meanwhile.
Unheard(c) == c \notin Waiting \cup {Timer} /\ Answered(c) /\ UNCHANGED pageVars

AdminNext ==
    \/ HookNext /\ UNCHANGED pageVars
    \/ SubscriptionRefresh
    \/ \E p \in Pages : \/ OpenPage(p) \/ CreateOrUpdateClick(p) \/ ClickAnswered(p)
    \/ \E c \in Calls : Unheard(c)

\* The timer keeps firing, and a call or an answer under way comes to its end.
\* Nobody has to open the page or click, and Graph need not fail.
CallProgress(c) == CallStep(c) /\ UNCHANGED pageVars

AdminFair ==
    /\ WF_adminVars(SubscriptionRefresh)
    /\ \A c \in Calls : WF_adminVars(CallProgress(c))
    /\ \A p \in Pages : WF_adminVars(ClickAnswered(p))

AdminSpec == AdminInit /\ [][AdminNext]_adminVars /\ AdminFair

-----------------------------------------------------------------------------

(* Whatever failed, lapsed or overlapped, the daily refresh ends up with     *)
(* exactly one subscription and keeps it: it repairs none, and it repairs    *)
(* several.                                                                  *)
RefreshRepairs == <>[](\E s \in SubIds : subs = {s})

(* Once the users click no more, no page is left waiting: the button comes   *)
(* back after every click, also when the call failed.                        *)
ClickEnds == <>[](\A p \in Pages : busy[p] = Nobody)

=============================================================================
