--------------------------- MODULE SubscriptionsPage ---------------------------
(***************************************************************************)
(* Bookify: the page that lists, creates and deletes the subscriptions of   *)
(* the calendar, over the subscriptions controller and the manager of       *)
(* module Webhooks.  Nothing else renews them.                              *)
(*                                                                         *)
(* A request of the page is sent, is served (the server acts, the answer    *)
(* sets out), and settles (the page's continuation runs).  Requests are     *)
(* served and settle in any order.  The module follows one visit to the     *)
(* page: what a page left behind does is invisible.                         *)
(***************************************************************************)
EXTENDS Webhooks

CONSTANTS
    Post,       \* the call that serves POST /api/subscriptions
    Loads,      \* GET requests that may be under way at once
    OwnLoad,    \* of these, the one that Create awaits
    Dels,       \* DELETE requests that may be under way at once
    NoId,       \* no subscription
    MaxCreates  \* bound: clicks of Create

ASSUME PostAssumption ==
    Post \in Calls /\ OwnLoad \in Loads /\ NoId \notin SubIds /\ MaxCreates \in Nat

VARIABLES
    rows,       \* subs of the component's state: the rows of the table
    loading, creating,
    deletingId, \* the row whose button is disabled
    get,        \* the GETs: their stage, and what the answer lists
    del,        \* the DELETEs: their stage, and what they delete
    creates,
    confirmed,  \* history: ids whose deletion was confirmed to the page
    raced       \* history: of these, the ones confirmed while a GET was under way

subPageVars == <<rows, loading, creating, deletingId, get, del, creates, confirmed, raced>>
subVars == <<hookVars, subPageVars>>

NoGet == [stage |-> "none", list |-> {}]
NoDel == [stage |-> "none", id |-> NoId]
GetStates == [stage : {"none", "sent", "ok", "error"}, list : SUBSET SubIds]
Deletes == [stage : {"sent", "ok", "error"}, id : SubIds] \cup {NoDel}

ListedIn(g) == get[g].list
\* Ids that Graph gave before: it gives none twice.
Seen == rows \cup confirmed \cup {del[d].id : d \in Dels} \cup UNION {ListedIn(g) : g \in Loads}

SubPageTypeOK ==
    /\ HooksTypeOK
    /\ rows \in SUBSET SubIds
    /\ loading \in BOOLEAN
    /\ creating \in {"no", "posting", "loading"}
    /\ deletingId \in SubIds \cup {NoId}
    /\ get \in [Loads -> GetStates]
    /\ del \in [Dels -> Deletes]
    /\ creates \in 0 .. MaxCreates
    /\ confirmed \in SUBSET SubIds
    /\ raced \in SUBSET confirmed

-----------------------------------------------------------------------------

\* load: one more GET.
Load(g) ==
    /\ get[g] = NoGet
    /\ get' = [get EXCEPT ![g].stage = "sent"]
    /\ loading' = TRUE

\* The page opens with a load.
SubPageInit ==
    /\ HooksInit
    /\ rows = {}
    /\ loading = TRUE
    /\ creating = "no"
    /\ deletingId = NoId
    /\ get \in {[[h \in Loads |-> NoGet] EXCEPT ![g].stage = "sent"] : g \in Loads \ {OwnLoad}}
    /\ del = [d \in Dels |-> NoDel]
    /\ creates = 0
    /\ confirmed = {}
    /\ raced = {}

Refresh ==
    /\ ~loading
    /\ \E g \in Loads \ {OwnLoad} : Load(g)
    /\ UNCHANGED <<hookVars, rows, creating, deletingId, del, creates, confirmed, raced>>

\* GetSubscriptions at the server; any exception of Graph is an error status.
GetSubscriptions(g) ==
    /\ get[g].stage = "sent"
    /\ \E answer \in {[stage |-> "ok", list |-> subs], [stage |-> "error", list |-> {}]} :
         get' = [get EXCEPT ![g] = answer]
    /\ UNCHANGED <<hookVars, rows, loading, creating, deletingId, del, creates, confirmed, raced>>

\* A plausible bug: only a success ends the loading.
LoadSettlesIfOk(g) ==
    /\ get[g].stage \in {"ok", "error"}
    /\ rows' = IF get[g].stage = "ok" THEN get[g].list ELSE rows
    /\ loading' = (loading /\ get[g].stage = "error")
    /\ get' = [get EXCEPT ![g] = NoGet]
    /\ creating' = IF g = OwnLoad THEN "no" ELSE creating
    /\ UNCHANGED <<hookVars, deletingId, del, creates, confirmed, raced>>

\* Any GET that settles ends the loading; Create ends with its own.
LoadSettles(g) ==
    /\ get[g].stage \in {"ok", "error"}
    /\ rows' = IF get[g].stage = "ok" THEN get[g].list ELSE rows
    /\ loading' = FALSE
    /\ get' = [get EXCEPT ![g] = NoGet]
    /\ creating' = IF g = OwnLoad THEN "no" ELSE creating
    /\ UNCHANGED <<hookVars, deletingId, del, creates, confirmed, raced>>

Create ==
    /\ creates < MaxCreates
    /\ creating = "no"
    /\ Start(Post)
    /\ creating' = "posting"
    /\ creates' = creates + 1
    /\ UNCHANGED <<rows, loading, deletingId, get, del, confirmed, raced>>

\* The POST settles: after a success the page loads, and only then ends creating.
CreateSettles ==
    /\ creating = "posting"
    /\ Answered(Post)
    /\ \/ /\ call[Post].step = "failed"
          /\ creating' = "no"
          /\ UNCHANGED <<get, loading>>
       \/ /\ call[Post].step = "done"
          /\ creating' = "loading"
          /\ Load(OwnLoad)
    /\ UNCHANGED <<rows, deletingId, del, creates, confirmed, raced>>

DeleteSub(id) ==
    /\ id \in rows
    /\ deletingId # id
    /\ \E d \in Dels : del[d] = NoDel /\ del' = [del EXCEPT ![d] = [stage |-> "sent", id |-> id]]
    /\ deletingId' = id
    /\ UNCHANGED <<hookVars, rows, loading, creating, get, creates, confirmed, raced>>

\* DeleteSubscription at the server: 404 from Graph, any other fault, and an answer
\* that is lost on its way, is an error to the page.
DeleteSubscription(d) ==
    /\ del[d].stage = "sent"
    /\ \/ /\ del[d].id \in subs
          /\ subs' = subs \ {del[d].id}
          /\ del' = [del EXCEPT ![d].stage = "ok"]
       \/ /\ del' = [del EXCEPT ![d].stage = "error"]
          /\ subs' \in {subs, subs \ {del[d].id}}
    /\ UNCHANGED <<call, overlapped, faults, lapses>>
    /\ UNCHANGED <<rows, loading, creating, deletingId, get, creates, confirmed, raced>>

\* A plausible bug: the row stays until the next load.
DeleteSettlesQuietly(d) ==
    /\ del[d].stage \in {"ok", "error"}
    /\ del' = [del EXCEPT ![d] = NoDel]
    /\ deletingId' = NoId
    /\ confirmed' = confirmed \cup (IF del[d].stage = "ok" THEN {del[d].id} ELSE {})
    /\ UNCHANGED <<rows, raced, hookVars, loading, creating, get, creates>>

DeleteSettles(d) ==
    /\ del[d].stage \in {"ok", "error"}
    /\ del' = [del EXCEPT ![d] = NoDel]
    /\ deletingId' = NoId
    /\ \/ /\ del[d].stage = "ok"
          /\ rows' = rows \ {del[d].id}
          /\ confirmed' = confirmed \cup {del[d].id}
          /\ raced' = IF \E g \in Loads : get[g] # NoGet THEN raced \cup {del[d].id} ELSE raced
       \/ /\ del[d].stage = "error"
          /\ UNCHANGED <<rows, confirmed, raced>>
    /\ UNCHANGED <<hookVars, loading, creating, get, creates>>

\* The steps of the manager and of Graph, under the page.
CreateSubscription ==
    /\ CallStep(Post)
    /\ (subs' \ subs) \cap Seen = {}
    /\ UNCHANGED subPageVars

GetProgress(g) == GetSubscriptions(g) \/ LoadSettles(g)
DeleteProgress(d) == DeleteSubscription(d) \/ DeleteSettles(d)
PostProgress == CreateSubscription \/ CreateSettles

SubPageNext ==
    \/ \E g \in Loads : GetProgress(g)
    \/ \E d \in Dels : DeleteProgress(d)
    \/ Refresh \/ Create \/ PostProgress
    \/ \E id \in SubIds : DeleteSub(id)
    \/ (Fault(Post) \/ \E s \in SubIds : Lapse(s)) /\ UNCHANGED subPageVars

\* Every request is served or refused, and every answer reaches the page.
SubPageFair ==
    /\ \A g \in Loads : WF_subVars(GetProgress(g))
    /\ \A d \in Dels : WF_subVars(DeleteProgress(d))
    /\ WF_subVars(PostProgress)

SubPageSpec == SubPageInit /\ [][SubPageNext]_subVars /\ SubPageFair

-----------------------------------------------------------------------------

(* A row whose deletion was confirmed comes back only when a GET was under   *)
(* way at that moment: the filter of deleteSub is applied to the rows of now, *)
(* and a listing that Graph made before the deletion replaces them later.    *)
DeletedReturnsOnlyIfRaced == rows \cap confirmed \subseteq raced

(* What the page says of itself is true: while it says it loads some GET is  *)
(* under way, the row it calls deleting has a DELETE under way, and creating *)
(* lasts no longer than the POST and the load after it.  (The converses fail: *)
(* the flags belong to the page and not to a request, so the first request   *)
(* that settles clears them for all.)                                        *)
SpinnersAreTrue ==
    /\ loading => \E g \in Loads : get[g] # NoGet
    /\ deletingId # NoId => \E d \in Dels : del[d].id = deletingId
    /\ (creating = "posting") = (call[Post] # Idle)
    /\ (creating = "loading") = (get[OwnLoad] # NoGet)

(* Each time loading, creating and deleting end, however the requests        *)
(* overlap and whichever of them fail.                                       *)
SubPageSettles ==
    /\ []<>(~loading)
    /\ []<>(creating = "no")
    /\ []<>(deletingId = NoId)

=============================================================================
