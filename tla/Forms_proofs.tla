------------------------------ MODULE Forms_proofs ------------------------------
(***************************************************************************)
(* Proofs about Bookify's subscriptions page, the clinic's page and the     *)
(* office dashboard, for every set of subscriptions, slots, folders and     *)
(* requests and every bound, and about the four clients side by side (with  *)
(* those of the script admin, in a module of their own).                    *)
(***************************************************************************)
EXTENDS MCForms, ScriptAdmin_proofs

-----------------------------------------------------------------------------
(* Bookify's subscriptions page.                                            *)

\* What makes DeletedReturnsOnlyIfRaced inductive: what was confirmed to be deleted is gone
\* for good, and a listing that still holds it was under way at the confirmation.
DeletedStaysAway ==
    /\ rows \cap confirmed \subseteq raced
    /\ \A g \in Loads : get[g].list \cap confirmed \subseteq raced
    /\ subs \cap confirmed = {}
    /\ \A d \in Dels : del[d].stage = "ok" => del[d].id \notin subs

SubsInv == SubPageTypeOK /\ DeletedStaysAway /\ SpinnersAreTrue

PageTypeOK ==
    /\ rows \in SUBSET SubIds
    /\ loading \in BOOLEAN
    /\ creating \in {"no", "posting", "loading"}
    /\ deletingId \in SubIds \cup {NoId}
    /\ get \in [Loads -> GetStates]
    /\ del \in [Dels -> Deletes]
    /\ creates \in 0 .. MaxCreates
    /\ confirmed \in SUBSET SubIds
    /\ raced \in SUBSET confirmed

LEMMA SubsTypes ==
    /\ SubPageTypeOK <=> HooksTypeOK /\ PageTypeOK
    /\ SubPageTypeOK' <=> HooksTypeOK' /\ PageTypeOK'
  BY DEF SubPageTypeOK, PageTypeOK

-----------------------------------------------------------------------------
(* Type correctness.                                                        *)

LEMMA SubsNothing ==
    /\ NoGet \in GetStates /\ NoGet.list = {} /\ NoGet.stage = "none"
    /\ NoDel \in Deletes /\ NoDel.stage = "none" /\ NoDel.id = NoId
  BY DEF NoGet, NoDel, GetStates, Deletes

\* What a DELETE may be.
LEMMA DelIs ==
    ASSUME NEW x \in Deletes
    PROVE  /\ x.id \in SubIds \cup {NoId}
           /\ x.stage # "none" => x.id \in SubIds
  BY DEF Deletes, NoDel

LEMMA HooksInitial == HooksInit => HooksTypeOK
  <1> SUFFICES ASSUME HooksInit PROVE HooksTypeOK
    OBVIOUS
  <1>1. faults \in 0 .. MaxFaults /\ lapses \in 0 .. MaxLapses
    BY HooksAssumption DEF HooksInit
  <1>2. call \in [Calls -> [step : {"idle", "list", "done", "failed"} \cup Acting,
                            cache : SUBSET SubIds]]
    BY DEF HooksInit, Idle, At
  <1> QED
    BY <1>1, <1>2 DEF HooksInit, HooksTypeOK

LEMMA SubsTypeInit == SubPageInit => SubPageTypeOK
  <1> SUFFICES ASSUME SubPageInit PROVE SubPageTypeOK
    OBVIOUS
  <1> USE DEF SubPageInit
  <1>1. HooksTypeOK
    BY HooksInitial
  <1>2. get \in [Loads -> GetStates]
    BY SubsNothing DEF GetStates
  <1>3. del \in [Dels -> Deletes] /\ creates \in 0 .. MaxCreates
    BY SubsNothing, PostAssumption
  <1> QED
    BY <1>1, <1>2, <1>3 DEF SubPageTypeOK

\* The manager, called by the page, and Graph.
HookSteps ==
    \/ Start(Post) \/ CallStep(Post) \/ Fault(Post) \/ Answered(Post)
    \/ \E s \in SubIds : Lapse(s)
    \/ \E d \in Dels : DeleteSubscription(d)
    \/ UNCHANGED hookVars

LEMMA TypeHook == ASSUME HooksTypeOK, HookSteps PROVE HooksTypeOK'
  <1> USE PostAssumption
  <1>1. CASE Start(Post)
    BY <1>1 DEF HooksTypeOK, Start, Acting
  <1>2. CASE GetInScopeSubscriptions(Post)
    BY <1>2 DEF HooksTypeOK, GetInScopeSubscriptions, Acting
  <1>3. CASE Renew(Post)
    BY <1>3 DEF HooksTypeOK, Renew, At, Acting
  <1>4. CASE DeleteOne(Post)
    BY <1>4 DEF HooksTypeOK, DeleteOne, At, Acting
  <1>5. CASE Add(Post)
    BY <1>5 DEF HooksTypeOK, Add, Fresh, At, Acting
  <1>6. CASE Answered(Post)
    BY <1>6 DEF HooksTypeOK, Answered, Idle, At, Acting
  <1>7. CASE Fault(Post)
    <2>1. faults' \in 0 .. MaxFaults
      BY <1>7, HooksAssumption DEF HooksTypeOK, Fault
    <2> QED
      BY <1>7, <2>1 DEF HooksTypeOK, Fault, At, Acting
  <1>8. ASSUME NEW s \in SubIds, Lapse(s) PROVE HooksTypeOK'
    <2>1. lapses' \in 0 .. MaxLapses
      BY <1>8, HooksAssumption DEF HooksTypeOK, Lapse
    <2> QED
      BY <1>8, <2>1 DEF HooksTypeOK, Lapse
  <1>9. ASSUME NEW d \in Dels, DeleteSubscription(d) PROVE HooksTypeOK'
    BY <1>9 DEF HooksTypeOK, DeleteSubscription
  <1>10. CASE UNCHANGED hookVars
    BY <1>10 DEF HooksTypeOK, hookVars
  <1> QED
    BY <1>1, <1>2, <1>3, <1>4, <1>5, <1>6, <1>7, <1>8, <1>9, <1>10 DEF HookSteps, CallStep

LEMMA WhoCalls == ASSUME [SubPageNext]_subVars PROVE HookSteps
  BY DEF SubPageNext, GetProgress, DeleteProgress, PostProgress, HookSteps, subVars, Refresh,
         GetSubscriptions, LoadSettles, Create, CreateSettles, DeleteSub, DeleteSettles,
         CreateSubscription, hookVars

LEMMA TypeLoad ==
    ASSUME get \in [Loads -> GetStates], NEW g \in Loads, Load(g)
    PROVE  /\ get' \in [Loads -> GetStates] /\ loading' = TRUE
           /\ get'[g].stage = "sent" /\ get'[g].list = {}
           /\ \A h \in Loads \ {g} : get'[h] = get[h]
  BY DEF Load, GetStates, NoGet

LEMMA TypeGet ==
    ASSUME SubPageTypeOK, NEW g \in Loads, GetProgress(g)
    PROVE  PageTypeOK'
  <1>1. CASE GetSubscriptions(g)
    <2>1. get' \in [Loads -> GetStates]
      BY <1>1 DEF SubPageTypeOK, HooksTypeOK, GetSubscriptions, GetStates
    <2> QED
      BY <1>1, <2>1 DEF SubPageTypeOK, PageTypeOK, GetSubscriptions
  <1>2. CASE LoadSettles(g)
    <2>1. get' \in [Loads -> GetStates] /\ rows' \in SUBSET SubIds
      BY <1>2, SubsNothing DEF SubPageTypeOK, LoadSettles, GetStates
    <2> QED
      BY <1>2, <2>1 DEF SubPageTypeOK, PageTypeOK, LoadSettles
  <1> QED
    BY <1>1, <1>2 DEF GetProgress

LEMMA TypeCreate ==
    ASSUME SubPageTypeOK, Refresh \/ Create \/ CreateSettles PROVE PageTypeOK'
  <1>1. CASE Refresh
    BY <1>1, TypeLoad DEF SubPageTypeOK, PageTypeOK, Refresh
  <1>2. CASE Create
    <2>1. creates' \in 0 .. MaxCreates
      BY <1>2, PostAssumption DEF SubPageTypeOK, Create
    <2> QED
      BY <1>2, <2>1 DEF SubPageTypeOK, PageTypeOK, Create
  <1>3. CASE CreateSettles
    BY <1>3, TypeLoad, PostAssumption DEF SubPageTypeOK, PageTypeOK, CreateSettles
  <1> QED
    BY <1>1, <1>2, <1>3

\* What becomes of the DELETEs.
LEMMA DelSteps ==
    ASSUME SubPageTypeOK, NEW d \in Dels
    PROVE  /\ DeleteSubscription(d) => \E answer \in {"ok", "error"} :
                 /\ del' = [del EXCEPT ![d].stage = answer]
                 /\ del'[d] \in Deletes /\ del'[d].id = del[d].id /\ del'[d].stage = answer
                 /\ \A e \in Dels \ {d} : del'[e] = del[e]
           /\ DeleteSettles(d) =>
                 del'[d] = NoDel /\ \A e \in Dels \ {d} : del'[e] = del[e]
  <1>1. ASSUME NEW answer \in {"ok", "error"}, del[d].stage = "sent",
               del' = [del EXCEPT ![d].stage = answer]
        PROVE  /\ del'[d] \in Deletes /\ del'[d].id = del[d].id /\ del'[d].stage = answer
               /\ \A e \in Dels \ {d} : del'[e] = del[e]
    <2>1. del[d] \in [stage : {"sent", "ok", "error"}, id : SubIds]
      BY <1>1 DEF SubPageTypeOK, Deletes, NoDel
    <2>2. del'[d] = [del[d] EXCEPT !.stage = answer] /\ \A e \in Dels \ {d} : del'[e] = del[e]
      BY <1>1 DEF SubPageTypeOK
    <2> QED
      BY <2>1, <2>2 DEF Deletes
  <1>2. DeleteSubscription(d) => \E answer \in {"ok", "error"} :
            del[d].stage = "sent" /\ del' = [del EXCEPT ![d].stage = answer]
    BY DEF DeleteSubscription
  <1>3. DeleteSettles(d) => del'[d] = NoDel /\ \A e \in Dels \ {d} : del'[e] = del[e]
    BY DEF SubPageTypeOK, DeleteSettles
  <1> QED
    BY <1>1, <1>2, <1>3

LEMMA TypeDelete ==
    ASSUME SubPageTypeOK, NEW d \in Dels, DeleteProgress(d) PROVE PageTypeOK'
  <1>1. CASE DeleteSubscription(d)
    <2>1. del' \in [Dels -> Deletes]
      BY <1>1, DelSteps DEF SubPageTypeOK
    <2> QED
      BY <1>1, <2>1 DEF SubPageTypeOK, PageTypeOK, DeleteSubscription
  <1>2. CASE DeleteSettles(d)
    <2>1. del' \in [Dels -> Deletes]
      BY <1>2, SubsNothing DEF SubPageTypeOK, DeleteSettles
    <2>2. del[d].id \in SubIds
      BY <1>2, DelIs DEF SubPageTypeOK, DeleteSettles
    <2> QED
      BY <1>2, <2>1, <2>2 DEF SubPageTypeOK, PageTypeOK, DeleteSettles
  <1> QED
    BY <1>1, <1>2 DEF DeleteProgress

\* The DELETE that a click sends.
LEMMA Sends ==
    ASSUME SubPageTypeOK, NEW id \in SubIds, DeleteSub(id)
    PROVE  \E d \in Dels : /\ del[d] = NoDel /\ del' \in [Dels -> Deletes]
                           /\ del'[d].stage = "sent" /\ del'[d].id = id
                           /\ \A e \in Dels \ {d} : del'[e] = del[e]
  BY DEF SubPageTypeOK, DeleteSub, Deletes

LEMMA SubsTypeNext == ASSUME SubPageTypeOK, [SubPageNext]_subVars PROVE SubPageTypeOK'
  <1>1. HooksTypeOK'
    BY WhoCalls, TypeHook DEF SubPageTypeOK
  <1>2. ASSUME NEW id \in SubIds, DeleteSub(id) PROVE PageTypeOK'
    BY <1>2, Sends DEF SubPageTypeOK, PageTypeOK, DeleteSub
  <1>3. ASSUME UNCHANGED subPageVars PROVE PageTypeOK'
    <2>1. PageTypeOK
      BY SubsTypes
    <2> QED
      BY <1>3, <2>1 DEF PageTypeOK, subPageVars
  <1>4. PageTypeOK'
    BY <1>2, <1>3, TypeGet, TypeCreate, TypeDelete
       DEF SubPageNext, PostProgress, CreateSubscription, subVars
  <1> QED
    BY <1>1, <1>4, SubsTypes

-----------------------------------------------------------------------------
(* Deleted subscriptions.                                                    *)

LEMMA AwayInit == SubPageInit => DeletedStaysAway
  BY SubsNothing DEF SubPageInit, HooksInit, DeletedStaysAway

\* Graph adds no id that was seen before, and so none whose deletion was confirmed.
LEMMA GraphSteps ==
    ASSUME SubPageTypeOK, [SubPageNext]_subVars
    PROVE  subs' \subseteq subs \/ (CreateSubscription /\ (subs' \ subs) \cap Seen = {})
  <1>1. CASE CreateSubscription
    BY <1>1 DEF CreateSubscription
  <1> QED
    BY <1>1 DEF SubPageNext, GetProgress, DeleteProgress, PostProgress, subVars, hookVars, Refresh,
         GetSubscriptions, LoadSettles, Create, Start, CreateSettles, Answered, DeleteSub,
         DeleteSettles, DeleteSubscription, Fault, Lapse

LEMMA AwayGet ==
    ASSUME SubPageTypeOK, DeletedStaysAway, NEW g \in Loads, GetProgress(g)
    PROVE  DeletedStaysAway'
  <1>1. CASE GetSubscriptions(g)
    <2>1. /\ get'[g].list \subseteq subs /\ \A h \in Loads \ {g} : get'[h] = get[h]
      BY <1>1 DEF SubPageTypeOK, GetSubscriptions
    <2>2. UNCHANGED <<rows, confirmed, raced, subs, del>>
      BY <1>1 DEF GetSubscriptions, hookVars
    <2> QED
      BY <2>1, <2>2 DEF DeletedStaysAway
  <1>2. CASE LoadSettles(g)
    <2>1. get'[g].list = {} /\ \A h \in Loads \ {g} : get'[h] = get[h]
      BY <1>2, SubsNothing DEF SubPageTypeOK, LoadSettles
    <2>2. rows' = rows \/ rows' = get[g].list
      BY <1>2 DEF LoadSettles
    <2>3. UNCHANGED <<confirmed, raced, subs, del>>
      BY <1>2 DEF LoadSettles, hookVars
    <2> QED
      BY <2>1, <2>2, <2>3 DEF DeletedStaysAway
  <1> QED
    BY <1>1, <1>2 DEF GetProgress

LEMMA AwayLoad ==
    ASSUME SubPageTypeOK, DeletedStaysAway, Refresh \/ Create \/ CreateSettles
    PROVE  DeletedStaysAway'
  <1>1. \A g \in Loads : get'[g].list \subseteq get[g].list
    <2>1. ASSUME NEW g \in Loads, Load(g)
          PROVE  \A h \in Loads : get'[h].list \subseteq get[h].list
      BY <2>1, TypeLoad DEF SubPageTypeOK
    <2> QED
      BY <2>1, PostAssumption DEF Refresh, Create, CreateSettles
  <1>2. UNCHANGED <<rows, confirmed, raced, subs, del>>
    BY DEF Refresh, Create, CreateSettles, Start, Answered, hookVars
  <1> QED
    BY <1>1, <1>2 DEF DeletedStaysAway

LEMMA AwayDelete ==
    ASSUME SubPageTypeOK, DeletedStaysAway, NEW d \in Dels, DeleteProgress(d)
    PROVE  DeletedStaysAway'
  <1>1. CASE DeleteSubscription(d)
    <2>1. subs' \subseteq subs /\ UNCHANGED <<rows, get, confirmed, raced>>
      BY <1>1 DEF DeleteSubscription
    <2>2. /\ \A e \in Dels \ {d} : del'[e] = del[e]
          /\ del'[d].stage = "ok" => del'[d].id \notin subs'
      <3>1. CASE subs' = subs \ {del[d].id}
        BY <1>1, <3>1, DelSteps
      <3>2. CASE del' = [del EXCEPT ![d].stage = "error"]
        <4>1. del'[d] = [del[d] EXCEPT !.stage = "error"]
          BY <3>2 DEF SubPageTypeOK
        <4>2. del[d] \in Deletes
          BY DEF SubPageTypeOK
        <4>3. del'[d].stage = "error"
          BY <4>1, <4>2 DEF Deletes, NoDel
        <4> QED
          BY <1>1, <4>3, DelSteps
      <3> QED
        BY <1>1, <3>1, <3>2 DEF DeleteSubscription
    <2> QED
      BY <2>1, <2>2 DEF DeletedStaysAway
  <1>2. CASE DeleteSettles(d)
    <2>1. del'[d] = NoDel /\ (\A e \in Dels \ {d} : del'[e] = del[e]) /\ UNCHANGED <<subs, get>>
      BY <1>2, DelSteps DEF DeleteSettles, hookVars
    <2>2. CASE del[d].stage = "error"
      BY <1>2, <2>1, <2>2, SubsNothing DEF DeletedStaysAway, DeleteSettles
    <2>3. CASE del[d].stage = "ok"
      <3>1. /\ rows' = rows \ {del[d].id} /\ confirmed' = confirmed \cup {del[d].id}
            /\ raced \subseteq raced'
            /\ (\E g \in Loads : get[g] # NoGet) => del[d].id \in raced'
        BY <1>2, <2>3 DEF DeleteSettles
      <3>2. \A g \in Loads : get[g].list \cap confirmed' \subseteq raced'
        BY <3>1, SubsNothing DEF DeletedStaysAway
      <3>3. subs \cap confirmed' = {}
        BY <2>3, <3>1 DEF DeletedStaysAway
      <3> QED
        BY <2>1, <3>1, <3>2, <3>3, SubsNothing DEF DeletedStaysAway
    <2> QED
      BY <1>2, <2>2, <2>3 DEF DeleteSettles
  <1> QED
    BY <1>1, <1>2 DEF DeleteProgress

LEMMA AwayNext ==
    ASSUME SubPageTypeOK, DeletedStaysAway, [SubPageNext]_subVars PROVE DeletedStaysAway'
  <1>1. ASSUME NEW id \in SubIds, DeleteSub(id) PROVE DeletedStaysAway'
    <2>1. UNCHANGED <<rows, get, confirmed, raced, subs>>
      BY <1>1 DEF DeleteSub, hookVars
    <2>2. PICK d \in Dels : del'[d].stage = "sent" /\ \A e \in Dels \ {d} : del'[e] = del[e]
      BY <1>1, Sends
    <2> QED
      BY <2>1, <2>2 DEF DeletedStaysAway
  <1>2. CASE CreateSubscription
    <2>1. UNCHANGED subPageVars /\ (subs' \ subs) \cap Seen = {}
      BY <1>2 DEF CreateSubscription
    <2> QED
      BY <2>1 DEF DeletedStaysAway, Seen, subPageVars
  <1>3. CASE subs' \subseteq subs /\ UNCHANGED subPageVars
    BY <1>3 DEF DeletedStaysAway, subPageVars
  <1> QED
    BY <1>1, <1>2, <1>3, AwayGet, AwayLoad, AwayDelete
       DEF SubPageNext, PostProgress, subVars, hookVars, Fault, Lapse

-----------------------------------------------------------------------------
(* What the page says of itself.                                             *)

LEMMA SpinInit == SubPageInit => SpinnersAreTrue
  <1> SUFFICES ASSUME SubPageInit PROVE SpinnersAreTrue
    OBVIOUS
  <1>1. PICK g \in Loads \ {OwnLoad} : get = [[h \in Loads |-> NoGet] EXCEPT ![g].stage = "sent"]
    BY DEF SubPageInit
  <1>2. get[g].stage = "sent" /\ get[OwnLoad] = NoGet
    BY <1>1, PostAssumption DEF NoGet
  <1>3. get[g] # NoGet
    BY <1>2, SubsNothing
  <1> QED
    BY <1>2, <1>3, PostAssumption DEF SubPageInit, HooksInit, SpinnersAreTrue

\* The POST is under way from its start to its answer.
LEMMA PostSteps ==
    ASSUME HooksTypeOK
    PROVE  /\ Start(Post) => call'[Post] # Idle
           /\ CallStep(Post) \/ Fault(Post) => call[Post] # Idle /\ call'[Post] # Idle
           /\ Answered(Post) => call'[Post] = Idle
  <1> USE PostAssumption DEF HooksTypeOK, Idle, At
  <1>1. Start(Post) => call'[Post] # Idle
    BY DEF Start
  <1>2. CallStep(Post) => call[Post] # Idle /\ call'[Post] # Idle
    BY DEF CallStep, GetInScopeSubscriptions, Renew, DeleteOne, Add
  <1>3. Fault(Post) => call[Post] # Idle /\ call'[Post] # Idle
    BY DEF Fault, Acting
  <1>4. Answered(Post) => call'[Post] = Idle
    BY DEF Answered
  <1> QED
    BY <1>1, <1>2, <1>3, <1>4

LEMMA SpinGet ==
    ASSUME SubPageTypeOK, SpinnersAreTrue, NEW g \in Loads, GetProgress(g)
    PROVE  SpinnersAreTrue'
  <1>1. UNCHANGED <<deletingId, del, call>>
    BY DEF GetProgress, GetSubscriptions, LoadSettles, hookVars
  <1>2. get[g] # NoGet
    BY SubsNothing DEF GetProgress, GetSubscriptions, LoadSettles
  <1>3. CASE GetSubscriptions(g)
    <2>1. get'[g].stage \in {"ok", "error"} /\ \A h \in Loads \ {g} : get'[h] = get[h]
      BY <1>3 DEF SubPageTypeOK, GetSubscriptions
    <2>2. get'[g] # NoGet
      BY <2>1, SubsNothing
    <2> QED
      BY <1>1, <1>2, <1>3, <2>1, <2>2, PostAssumption DEF SpinnersAreTrue, GetSubscriptions
  <1>4. CASE LoadSettles(g)
    <2>1. get'[g] = NoGet /\ \A h \in Loads \ {g} : get'[h] = get[h]
      BY <1>4 DEF SubPageTypeOK, LoadSettles
    <2> QED
      BY <1>1, <1>2, <1>4, <2>1, PostAssumption DEF SpinnersAreTrue, LoadSettles
  <1> QED
    BY <1>3, <1>4 DEF GetProgress

LEMMA SpinCreate ==
    ASSUME SubPageTypeOK, SpinnersAreTrue, Refresh \/ Create \/ CreateSettles
    PROVE  SpinnersAreTrue'
  <1> USE PostAssumption
  <1>1. UNCHANGED <<deletingId, del>>
    BY DEF Refresh, Create, CreateSettles
  <1>2. ASSUME NEW g \in Loads, Load(g)
        PROVE  get[g] = NoGet /\ get'[g] # NoGet /\ \A h \in Loads \ {g} : get'[h] = get[h]
    BY <1>2, TypeLoad, SubsNothing DEF SubPageTypeOK, Load
  <1>3. CASE Refresh
    <2>1. UNCHANGED <<creating, call>>
      BY <1>3 DEF Refresh, hookVars
    <2> QED
      BY <1>1, <1>2, <1>3, <2>1 DEF SpinnersAreTrue, Refresh
  <1>4. CASE Create
    <2>1. call'[Post] # Idle /\ UNCHANGED <<loading, get>> /\ creating = "no"
      BY <1>4, PostSteps DEF SubPageTypeOK, Create
    <2> QED
      BY <1>1, <1>4, <2>1 DEF SpinnersAreTrue, Create
  <1>5. CASE CreateSettles
    <2>1. call'[Post] = Idle /\ creating = "posting"
      BY <1>5, PostSteps DEF SubPageTypeOK, CreateSettles
    <2>2. CASE Load(OwnLoad)
      BY <1>1, <1>2, <1>5, <2>1, <2>2 DEF SpinnersAreTrue, CreateSettles
    <2> QED
      BY <1>1, <1>5, <2>1, <2>2 DEF SpinnersAreTrue, CreateSettles
  <1> QED
    BY <1>3, <1>4, <1>5

LEMMA SpinDelete ==
    ASSUME SubPageTypeOK, SpinnersAreTrue, NEW d \in Dels,
           DeleteProgress(d) \/ \E id \in SubIds : DeleteSub(id)
    PROVE  SpinnersAreTrue'
  <1>1. UNCHANGED <<loading, get, creating, call>>
    BY DEF DeleteProgress, DeleteSubscription, DeleteSettles, DeleteSub, hookVars
  <1>2. deletingId' # NoId => \E e \in Dels : del'[e].id = deletingId'
    <2>1. CASE DeleteSubscription(d)
      <3>1. \A e \in Dels : del'[e].id = del[e].id
        BY <2>1, DelSteps
      <3> QED
        BY <2>1, <3>1 DEF SpinnersAreTrue, DeleteSubscription
    <2>2. CASE DeleteSettles(d)
      BY <2>2 DEF DeleteSettles
    <2>3. ASSUME NEW id \in SubIds, DeleteSub(id)
          PROVE  deletingId' # NoId => \E e \in Dels : del'[e].id = deletingId'
      <3>1. deletingId' = id
        BY <2>3 DEF DeleteSub
      <3> QED
        BY <2>3, <3>1, Sends
    <2> QED
      BY <2>1, <2>2, <2>3 DEF DeleteProgress
  <1> QED
    BY <1>1, <1>2 DEF SpinnersAreTrue

LEMMA SpinNext ==
    ASSUME SubPageTypeOK, SpinnersAreTrue, [SubPageNext]_subVars PROVE SpinnersAreTrue'
  <1>1. ASSUME CallStep(Post) \/ Fault(Post) \/ \E s \in SubIds : Lapse(s),
               UNCHANGED subPageVars
        PROVE  SpinnersAreTrue'
    <2>1. (call[Post] = Idle) = (call'[Post] = Idle)
      BY <1>1, PostSteps DEF SubPageTypeOK, Lapse
    <2> QED
      BY <1>1, <2>1 DEF SpinnersAreTrue, subPageVars
  <1>2. CASE UNCHANGED subVars
    BY <1>2 DEF SpinnersAreTrue, subVars, hookVars, subPageVars
  <1>3. ASSUME NEW id \in SubIds, DeleteSub(id) PROVE SpinnersAreTrue'
    BY <1>3, SpinDelete DEF DeleteSub
  <1> QED
    BY <1>1, <1>2, <1>3, SpinGet, SpinCreate, SpinDelete
       DEF SubPageNext, PostProgress, CreateSubscription

-----------------------------------------------------------------------------
(* The theorems.                                                             *)

LEMMA SubsInvariant == SubPageSpec => []SubsInv
  <1>1. SubPageInit => SubsInv
    BY SubsTypeInit, AwayInit, SpinInit DEF SubsInv
  <1>2. SubsInv /\ [SubPageNext]_subVars => SubsInv'
    BY SubsTypeNext, AwayNext, SpinNext DEF SubsInv
  <1> QED
    BY <1>1, <1>2, PTL DEF SubPageSpec

\* Every variable of the page and of the manager keeps to its type.
THEOREM SubsTypeCorrect == SubPageSpec => []SubPageTypeOK
  <1>1. SubsInv => SubPageTypeOK
    BY DEF SubsInv
  <1> QED
    BY <1>1, SubsInvariant, PTL

\* A row whose deletion was confirmed comes back only when a load was under way then.
THEOREM DeletedReturns == SubPageSpec => []DeletedReturnsOnlyIfRaced
  <1>1. SubsInv => DeletedReturnsOnlyIfRaced
    BY DEF SubsInv, DeletedStaysAway, DeletedReturnsOnlyIfRaced
  <1> QED
    BY <1>1, SubsInvariant, PTL

\* While the page says that it loads, creates or deletes, it does.
THEOREM Spinners == SubPageSpec => []SpinnersAreTrue
  <1>1. SubsInv => SpinnersAreTrue
    BY DEF SubsInv
  <1> QED
    BY <1>1, SubsInvariant, PTL

-----------------------------------------------------------------------------
(* The office dashboard: the path and the items.                            *)

\* What makes PathLeadsToItems inductive: each load brings a path of the drive.
LoadsBringPaths == \A g \in Gets : open[g].stage # "none" => Path(open[g].path)

\* What makes ShowsLastClicked inductive: until loads are mixed up there is one at most,
\* and it is of the folder clicked last.
OneLoad == \A g, h \in Gets : open[g] # NoOpen /\ open[h] # NoOpen => g = h
LoadIsLastClick == \A g \in Gets : open[g] # NoOpen => Last(open[g].path) = clicked

DashInv ==
    /\ DashTypeOK
    /\ \A g \in Gets : open[g].stage = "none" => open[g] = NoOpen
    /\ PathLeadsToItems /\ LoadsBringPaths
    /\ mixedUp \/ (OneLoad /\ LoadIsLastClick)
    /\ ShowsLastClicked

\* The path of the root; a path with one folder more; the start of a path.
LEMMA RootPath == <<Root>> \in Seq(Folders) /\ Path(<<Root>>) /\ Last(<<Root>>) = Root
  BY DashboardAssumption DEF Path, Last

LEMMA LongerPath ==
    ASSUME NEW p \in Seq(Folders), Path(p), NEW f \in Folders, f # Root, ParentOf[f] = Last(p)
    PROVE  Append(p, f) \in Seq(Folders) /\ Path(Append(p, f)) /\ Last(Append(p, f)) = f
  BY DEF Path, Last

LEMMA StartOfPath ==
    ASSUME NEW p \in Seq(Folders), Path(p), NEW i \in 1 .. Len(p)
    PROVE  /\ SubSeq(p, 1, i) \in Seq(Folders) /\ Path(SubSeq(p, 1, i))
           /\ Last(SubSeq(p, 1, i)) \in Folders
  <1> DEFINE q == SubSeq(p, 1, i)
  <1>1. q \in Seq(Folders) /\ Len(q) = i /\ \A x \in 1 .. i : q[x] = p[x]
    OBVIOUS
  <1> HIDE DEF q
  <1>2. Path(q)
    <2>1. i \in Nat /\ 1 <= i /\ i <= Len(p)
      OBVIOUS
    <2>2. Len(q) > 0 /\ q[1] = Root
      BY <1>1, <2>1 DEF Path
    <2>3. ASSUME NEW x \in 2 .. Len(q) PROVE q[x] # Root /\ ParentOf[q[x]] = q[x - 1]
      <3>1. q[x] = p[x] /\ q[x - 1] = p[x - 1] /\ x \in 2 .. Len(p)
        BY <1>1, <2>1, <2>3
      <3> QED BY <3>1 DEF Path
    <2> QED BY <2>2, <2>3 DEF Path
  <1>3. Last(q) \in Folders
    BY <1>1 DEF Last
  <1> QED BY <1>1, <1>2, <1>3 DEF q

LEMMA LastOfPath == ASSUME NEW p \in Seq(Folders), Path(p) PROVE Last(p) \in Folders
  BY DEF Path, Last

\* A click is counted.
LEMMA DashClickCounts ==
    /\ 0 \in 0 .. MaxOpens
    /\ opens \in 0 .. MaxOpens /\ DashClick => opens' \in 0 .. MaxOpens
  BY DashboardAssumption DEF DashClick

\* A step that leaves the drive alone.
LEMMA DriveAlone ==
    ASSUME DashInv, UNCHANGED driveVars, DashTypeOK'
    PROVE  DashInv'
  BY DEF DashInv, driveVars, PathLeadsToItems, LoadsBringPaths, OneLoad, LoadIsLastClick,
         ShowsLastClicked, Opening

\* A click that begins a load.
LEMMA OpenFolderStep ==
    ASSUME DashInv, NEW p \in Seq(Folders), Path(p), OpenFolder(p)
    PROVE  DashInv'
  <1>1. PICK g \in Gets : /\ open[g] = NoOpen
                          /\ open' = [open EXCEPT ![g] = [stage |-> "sent", path |-> p]]
    BY DEF OpenFolder
  <1>2. open \in [Gets -> [stage : {"none", "sent", "ok", "error"}, path : Seq(Folders)]]
    BY DEF DashInv, DashTypeOK
  <1>3. /\ open'[g].stage = "sent" /\ open'[g].path = p
        /\ \A h \in Gets : h # g => open'[h] = open[h]
        /\ open' \in [Gets -> [stage : {"none", "sent", "ok", "error"}, path : Seq(Folders)]]
    BY <1>1, <1>2
  <1>4. open'[g] # NoOpen
    BY <1>3 DEF NoOpen
  <1>5. DashTypeOK'
    BY <1>3, LastOfPath, DashClickCounts DEF DashInv, DashTypeOK, OpenFolder, mailVars
  <1>6. UNCHANGED <<currentItems, breadcrumbs>> /\ mixedUp' = (mixedUp \/ Opening)
        /\ clicked' = Last(p)
    BY DEF OpenFolder
  <1>7. mixedUp' \/ \A h \in Gets : h # g => open'[h] = NoOpen
    BY <1>3, <1>6 DEF Opening
  <1> QED BY <1>3, <1>4, <1>5, <1>6, <1>7
          DEF DashInv, PathLeadsToItems, LoadsBringPaths, OneLoad, LoadIsLastClick,
              ShowsLastClicked, Opening

\* The clicks of the drive browser.
LEMMA ClickSteps ==
    ASSUME DashInv,
           \/ \E f \in Folders : handleFolderClick(f)
           \/ \E i \in 1 .. Len(breadcrumbs) : handleBreadcrumbClick(i)
    PROVE  DashInv'
  <1>0. breadcrumbs \in Seq(Folders) /\ Path(breadcrumbs) /\ Last(breadcrumbs) = currentItems
    BY DEF DashInv, DashTypeOK, PathLeadsToItems
  <1>1. ASSUME NEW f \in Folders, handleFolderClick(f) PROVE DashInv'
    BY <1>0, <1>1, LongerPath, OpenFolderStep DEF handleFolderClick
  <1>2. ASSUME NEW i \in 1 .. Len(breadcrumbs), OpenFolder(SubSeq(breadcrumbs, 1, i))
        PROVE  DashInv'
    BY <1>0, <1>2, StartOfPath, OpenFolderStep
  <1>3. ASSUME DashClick, currentItems' = Root, breadcrumbs' = <<Root>>, driveLoading' = FALSE,
               clicked' = Root, mixedUp' = (mixedUp \/ Opening),
               UNCHANGED <<activeTab, files, mailVars, open>>
        PROVE  DashInv'
    <2>1. DashTypeOK'
      BY <1>3, RootPath, DashboardAssumption, DashClickCounts
         DEF DashInv, DashTypeOK, mailVars
    <2>2. PathLeadsToItems'
      BY <1>3, RootPath DEF PathLeadsToItems
    <2>3. \A g \in Gets : mixedUp' \/ open'[g] = NoOpen
      BY <1>3 DEF Opening
    <2> QED BY <1>3, <2>1, <2>2, <2>3
            DEF DashInv, LoadsBringPaths, OneLoad, LoadIsLastClick, ShowsLastClicked
  <1> QED BY <1>1, <1>2, <1>3 DEF handleBreadcrumbClick

\* A load is answered, and its answer handled.
LEMMA LoadSteps ==
    ASSUME DashInv, NEW g \in Gets, OpenProgress(g)
    PROVE  DashInv'
  <1>0. /\ open \in [Gets -> [stage : {"none", "sent", "ok", "error"}, path : Seq(Folders)]]
        /\ open[g].path \in Seq(Folders)
    BY DEF DashInv, DashTypeOK
  <1>1. CASE LoadFolderContents(g)
    <2>1. PICK answer \in {"ok", "error"} : open' = [open EXCEPT ![g].stage = answer]
      BY <1>1 DEF LoadFolderContents
    <2>2. /\ open'[g].stage = answer /\ open'[g].path = open[g].path
          /\ \A h \in Gets : h # g => open'[h] = open[h]
          /\ open' \in [Gets -> [stage : {"none", "sent", "ok", "error"}, path : Seq(Folders)]]
      BY <1>0, <2>1
    <2>3. open[g].stage = "sent" /\ open[g] # NoOpen /\ open'[g] # NoOpen
      BY <1>1, <2>2 DEF LoadFolderContents, NoOpen
    <2>4. UNCHANGED <<activeTab, files, mailVars, currentItems, breadcrumbs, driveLoading, opens,
                      clicked, mixedUp>>
      BY <1>1 DEF LoadFolderContents
    <2>5. DashTypeOK'
      BY <2>2, <2>4 DEF DashInv, DashTypeOK, mailVars
    <2>6. PathLeadsToItems' /\ LoadsBringPaths'
      BY <2>2, <2>3, <2>4 DEF DashInv, PathLeadsToItems, LoadsBringPaths
    <2>7. mixedUp' \/ (OneLoad' /\ LoadIsLastClick')
      <3>1. \A h \in Gets : open'[h] # NoOpen => open[h] # NoOpen
        BY <2>2, <2>3
      <3>2. \A h \in Gets : Last(open'[h].path) = Last(open[h].path)
        BY <2>2
      <3> QED BY <2>4, <3>1, <3>2 DEF DashInv, OneLoad, LoadIsLastClick
    <2>8. ShowsLastClicked'
      BY <2>2, <2>3, <2>4 DEF DashInv, ShowsLastClicked, Opening
    <2>9. \A h \in Gets : open'[h].stage = "none" => open'[h] = NoOpen
      BY <2>2 DEF DashInv
    <2> QED BY <2>5, <2>6, <2>7, <2>8, <2>9 DEF DashInv
  <1>2. CASE OpenSettles(g)
    <2>1. /\ open[g].stage \in {"ok", "error"} /\ open' = [open EXCEPT ![g] = NoOpen]
          /\ driveLoading' = FALSE
          /\ UNCHANGED <<activeTab, files, mailVars, opens, clicked>>
      BY <1>2 DEF OpenSettles
    <2>2. /\ open'[g] = NoOpen /\ \A h \in Gets : h # g => open'[h] = open[h]
          /\ NoOpen.stage = "none"
          /\ open' \in [Gets -> [stage : {"none", "sent", "ok", "error"}, path : Seq(Folders)]]
      BY <1>0, <2>1 DEF NoOpen
    <2>3. open[g] # NoOpen /\ Path(open[g].path)
      BY <2>1 DEF DashInv, LoadsBringPaths, NoOpen
    <2>4. mixedUp \/ \A h \in Gets : h # g => open[h] = NoOpen
      BY <2>3 DEF DashInv, OneLoad
    <2>5. CASE /\ currentItems' = Last(open[g].path) /\ breadcrumbs' = open[g].path
               /\ UNCHANGED mixedUp
      <3>1. DashTypeOK'
        BY <1>0, <2>1, <2>2, <2>3, <2>5, LastOfPath DEF DashInv, DashTypeOK, mailVars
      <3>2. PathLeadsToItems'
        BY <2>3, <2>5 DEF PathLeadsToItems
      <3>3. mixedUp \/ currentItems' = clicked'
        BY <2>1, <2>3, <2>5 DEF DashInv, LoadIsLastClick
      <3> QED BY <2>2, <2>4, <2>5, <3>1, <3>2, <3>3
              DEF DashInv, LoadsBringPaths, OneLoad, LoadIsLastClick, ShowsLastClicked
    <2>6. CASE mixedUp' = TRUE /\ UNCHANGED <<currentItems, breadcrumbs>>
      <3>1. DashTypeOK'
        BY <2>1, <2>2, <2>6 DEF DashInv, DashTypeOK, mailVars
      <3> QED BY <2>2, <2>6, <3>1
              DEF DashInv, PathLeadsToItems, LoadsBringPaths, ShowsLastClicked
    <2> QED BY <1>2, <2>5, <2>6 DEF OpenSettles
  <1> QED BY <1>1, <1>2 DEF OpenProgress

\* Another tab: what was under way is answered to nobody.
LEMMA TabStep == ASSUME DashInv, NEW t \in Tabs, setActiveTab(t) PROVE DashInv'
  <1>1. \A g \in Gets : open'[g] = NoOpen
    BY DEF setActiveTab
  <1>2. NoOpen \in [stage : {"none", "sent", "ok", "error"}, path : Seq(Folders)]
        /\ NoOpen.stage = "none"
    BY DEF NoOpen
  <1>3. DashTypeOK'
    BY <1>2, RootPath, DashboardAssumption, DashClickCounts
       DEF DashInv, DashTypeOK, setActiveTab
  <1>4. PathLeadsToItems' /\ currentItems' = clicked'
    BY RootPath DEF PathLeadsToItems, setActiveTab
  <1> QED BY <1>1, <1>2, <1>3, <1>4
          DEF DashInv, LoadsBringPaths, OneLoad, LoadIsLastClick, ShowsLastClicked

LEMMA DashInitInv == DashInit => DashInv
  <1> SUFFICES ASSUME DashInit PROVE DashInv
    OBVIOUS
  <1>1. NoOpen \in [stage : {"none", "sent", "ok", "error"}, path : Seq(Folders)]
        /\ NoOpen.stage = "none"
    BY DEF NoOpen
  <1>2. DashTypeOK
    BY <1>1, RootPath, DashboardAssumption, DashClickCounts DEF DashInit, DashTypeOK, Tabs
  <1> QED BY <1>1, <1>2, RootPath
          DEF DashInit, DashInv, PathLeadsToItems, LoadsBringPaths, OneLoad, LoadIsLastClick,
              ShowsLastClicked

LEMMA DashNextInv == DashInv /\ [DashNext]_dashVars => DashInv'
  <1> SUFFICES ASSUME DashInv, [DashNext]_dashVars PROVE DashInv'
    OBVIOUS
  <1>1. ASSUME NEW t \in Tabs, FilesLoad(t) PROVE DashInv'
    <2>1. DashTypeOK'
      BY <1>1 DEF DashInv, DashTypeOK, FilesLoad, mailVars, driveVars
    <2> QED BY <1>1, <2>1, DriveAlone DEF FilesLoad
  <1>2. ASSUME NEW m \in Emails, handleEmailClick(m) PROVE DashInv'
    <2>1. DashTypeOK'
      BY <1>2, DashClickCounts DEF DashInv, DashTypeOK, handleEmailClick, driveVars
    <2> QED BY <1>2, <2>1, DriveAlone DEF handleEmailClick
  <1>3. CASE EmailSettles \/ CloseEmail
    <2>1. DashTypeOK'
      BY <1>3 DEF DashInv, DashTypeOK, EmailSettles, CloseEmail, driveVars
    <2> QED BY <1>3, <2>1, DriveAlone DEF EmailSettles, CloseEmail
  <1>4. CASE UNCHANGED dashVars
    <2>1. UNCHANGED driveVars /\ DashTypeOK'
      BY <1>4 DEF dashVars, driveVars, DashInv, DashTypeOK
    <2> QED BY <2>1, DriveAlone
  <1> QED BY <1>1, <1>2, <1>3, <1>4, TabStep, ClickSteps, LoadSteps DEF DashNext

LEMMA AlwaysDash == DashSpec => []DashInv
  BY DashInitInv, DashNextInv, PTL DEF DashSpec

\* The path shown is a path of the drive and leads to the folder whose items are shown,
\* however loads overlap and in whatever order they come in (handleFolderClick and
\* handleBreadcrumbClick compute the path at the click, and set both together).
THEOREM PathLeads == DashSpec => []PathLeadsToItems
  BY AlwaysDash, PTL DEF DashInv

\* When nothing loads, the folder shown is the one clicked last, unless two loads
\* overlapped or one failed (loadFolderContents sets what it loaded, whatever was
\* clicked meanwhile).
THEOREM LastClickShows == DashSpec => []ShowsLastClicked
  BY AlwaysDash, PTL DEF DashInv

-----------------------------------------------------------------------------
(* The clinic's page: customers and appointments.                           *)

BookingRecord == [shown : BOOLEAN, slot : Slots \cup {NoSlot}, saving : BOOLEAN]
ReadRecord == [stage : {"none", "sent", "ok"}, slots : SUBSET Slots]
BookRecord == [stage : {"none", "sent", "ok"}, slot : Slots \cup {NoSlot}]
FindRecord == [stage : {"none", "sent", "found", "nobody"}, kind : {"find", "create"}]

\* The form is the one that is shown, and has picked a free slot if there is one.
FormOK ==
    /\ booking.shown <=> FormShown
    /\ ~booking.shown => booking = NoForm
    /\ booking.shown /\ ~booking.saving /\ Free # {} => booking.slot \in Free

\* An appointment is asked for with a slot.
BooksOK == \A b \in Books : books[b].stage # "none" => books[b].slot \in Slots

\* What makes RegisteredOnce inductive: one request about the customer is under way at a
\* time, and there is no customer when one says so or is to create one.
OneRecord ==
    cause \cap {"crowded", "others", "reload"} = {} =>
        /\ customers \in {0, 1}
        /\ \A f, g \in Finds : finds[f] # NoFind /\ finds[g] # NoFind => f = g
        /\ \A f \in Finds :
             /\ finds[f].stage = "sent" /\ finds[f].kind = "find" => userCustomer = "undefined"
             /\ finds[f].stage = "sent" /\ finds[f].kind = "create" => customers = 0
             /\ finds[f].stage = "nobody" => customers = 0 /\ userCustomer = "undefined"

Saving == \E b \in Books : books[b] # NoBook
Reading == \E r \in Reads : reads[r] # NoRead

\* What makes DoubleBookedForAReason inductive: the page reads and saves in turn, and
\* between the two it knows every appointment.
NoDoubles ==
    cause = {} =>
        /\ ~doubled /\ begun = booked
        /\ \A r, q \in Reads : reads[r] # NoRead /\ reads[q] # NoRead => r = q
        /\ \A r \in Reads : reads[r].stage = "ok" => reads[r].slots = booked
        /\ \A b, c \in Books : books[b] # NoBook /\ books[c] # NoBook => b = c
        /\ Saving => booking.shown /\ booking.saving /\ ~Reading
        /\ \A b \in Books : books[b].stage = "sent" => books[b].slot \notin booked
        /\ appointments.there /\ ~Reading /\ (\A b \in Books : books[b].stage # "ok") =>
             appointments.slots = booked

ClinicInv == ClinicTypeOK /\ FormOK /\ BooksOK /\ OneRecord /\ NoDoubles

\* The records of nothing.
LEMMA ClinicNothing ==
    /\ NoForm \in BookingRecord /\ ~NoForm.shown /\ ~NoForm.saving
    /\ NoRead \in ReadRecord /\ NoRead.stage = "none" /\ NoRead.slots = {}
    /\ NoBook \in BookRecord /\ NoBook.stage = "none"
    /\ NoFind \in FindRecord /\ NoFind.stage = "none" /\ NoFind.kind = "find"
  BY DEF NoForm, NoRead, NoBook, NoFind, BookingRecord, ReadRecord, BookRecord, FindRecord

\* The bounds are numbers.
LEMMA ClinicCounts ==
    /\ 0 \in 0 .. MaxCustomers /\ 1 \in 0 .. MaxCustomers
    /\ 0 \in 0 .. MaxBooks /\ 0 \in 0 .. MaxReloads
    /\ asked \in 0 .. MaxBooks /\ asked < MaxBooks => asked + 1 \in 0 .. MaxBooks
    /\ reloads \in 0 .. MaxReloads /\ reloads < MaxReloads => reloads + 1 \in 0 .. MaxReloads
    /\ customers \in 0 .. MaxCustomers /\ customers < MaxCustomers =>
          customers + 1 \in 0 .. MaxCustomers
  BY ClinicAssumption

\* The form follows what it needs: it stays while it shows and no list comes in.
LEMMA FormFollowsIs ==
    ASSUME FormOK, booking \in BookingRecord, Free' \subseteq Slots,
           NEW relisted \in BOOLEAN, FormFollows(relisted), relisted \/ Free' = Free
    PROVE  /\ booking' \in BookingRecord /\ FormOK'
           /\ FormShown /\ FormShown' /\ (~relisted \/ booking.saving) => booking' = booking
           /\ ~booking.saving => ~booking'.saving
  <1>1. CASE ~FormShown'
    BY <1>1, ClinicNothing DEF FormFollows, FormOK
  <1>2. CASE FormShown' /\ ~FormShown
    <2>1. PICK s \in IF Free' = {} THEN {NoSlot} ELSE Free' :
             booking' = [shown |-> TRUE, slot |-> s, saving |-> FALSE]
      BY <1>2 DEF FormFollows
    <2>2. booking'.shown = TRUE /\ booking'.slot = s /\ booking'.saving = FALSE
      BY <2>1
    <2>3. booking' \in BookingRecord
      BY <2>1 DEF BookingRecord
    <2> QED BY <1>2, <2>1, <2>2, <2>3 DEF FormOK
  <1>3. CASE FormShown' /\ FormShown /\ relisted /\ ~booking.saving /\ Free' # {}
    <2>1. PICK s \in Free' : booking' = [booking EXCEPT !.slot = s]
      BY <1>3 DEF FormFollows
    <2>2. booking'.shown = booking.shown /\ booking'.slot = s /\ booking'.saving = booking.saving
          /\ booking' \in BookingRecord
      BY <2>1 DEF BookingRecord
    <2> QED BY <1>3, <2>1, <2>2 DEF FormOK
  <1>4. CASE FormShown' /\ FormShown /\ ~(relisted /\ ~booking.saving /\ Free' # {})
    <2>1. booking' = booking
      BY <1>4 DEF FormFollows
    <2> QED BY <1>4, <2>1 DEF FormOK
  <1> QED BY <1>1, <1>2, <1>3, <1>4

\* The invariant part by part: what a step does not touch stays.
LEMMA ClinicParts ==
    ASSUME ClinicInv
    PROVE  /\ booking \in BookingRecord /\ Free \subseteq Slots
           /\ booked \subseteq Slots /\ begun \subseteq booked
           /\ \A r \in Reads : reads[r] \in ReadRecord
           /\ \A b \in Books : books[b] \in BookRecord
           /\ \A f \in Finds : finds[f] \in FindRecord
           /\ reads \in [Reads -> ReadRecord] /\ books \in [Books -> BookRecord]
           /\ finds \in [Finds -> FindRecord]
           /\ appointments.slots \subseteq Slots
           /\ FormOK /\ BooksOK /\ OneRecord /\ NoDoubles
  BY DEF ClinicInv, ClinicTypeOK, Free, BookingRecord, ReadRecord, BookRecord, FindRecord

LEMMA FormStays ==
    ASSUME FormOK, UNCHANGED <<booking, clinicView, appointments, catalog, userCustomer>>
    PROVE  FormOK'
  BY DEF FormOK, FormShown, Free

LEMMA RecordStays ==
    ASSUME OneRecord, UNCHANGED <<customers, finds, userCustomer>>, cause \subseteq cause'
    PROVE  OneRecord'
  BY DEF OneRecord

LEMMA DoublesStay ==
    ASSUME NoDoubles, UNCHANGED <<booked, doubled, begun, appointments, reads, books>>,
           cause \subseteq cause',
           cause = {} /\ booking.shown /\ booking.saving => booking'.shown /\ booking'.saving
    PROVE  NoDoubles'
  BY DEF NoDoubles, Saving, Reading

\* Steps that only change what the form needs.
LEMMA FormSteps ==
    ASSUME ClinicInv, FormFollows(FALSE),
           UNCHANGED <<serverVars, appointments, newAppointment, reads, books, boundVars, cause>>,
           catalog' \in SUBSET {"staff", "services"},
           userCustomer' \in {"undefined", "null", "known"}, clinicView' \in {"List", "New"},
           finds' \in [Finds -> FindRecord], OneRecord',
           cause = {} /\ FormShown /\ booking.saving => FormShown'
    PROVE  ClinicInv'
  <1>1. Free' = Free
    BY DEF Free
  <1>2. /\ booking' \in BookingRecord /\ FormOK'
        /\ FormShown /\ FormShown' => booking' = booking
    BY <1>1, ClinicParts, FormFollowsIs
  <1>3. NoDoubles'
    <2>1. cause = {} /\ booking.shown /\ booking.saving => booking' = booking
      BY <1>2, ClinicParts DEF FormOK
    <2> QED BY <2>1, ClinicParts, DoublesStay DEF serverVars
  <1>4. ClinicTypeOK'
    BY <1>2 DEF ClinicInv, ClinicTypeOK, serverVars, boundVars, BookingRecord, FindRecord
  <1>5. BooksOK'
    BY DEF ClinicInv, BooksOK
  <1> QED BY <1>2, <1>3, <1>4, <1>5 DEF ClinicInv

LEMMA CatalogStep ==
    ASSUME ClinicInv, NEW x, x \in {"staff", "services"}, CatalogLoads(x)
    PROVE  ClinicInv'
  <1>1. OneRecord'
    BY ClinicParts, RecordStays DEF CatalogLoads, serverVars
  <1>2. FormShown => FormShown'
    BY DEF CatalogLoads, FormShown
  <1> QED BY <1>1, <1>2, FormSteps, ClinicParts DEF CatalogLoads, ClinicInv, ClinicTypeOK

LEMMA ViewSteps == ASSUME ClinicInv, NewAppointmentClick \/ Cancel PROVE ClinicInv'
  <1>1. OneRecord'
    BY ClinicParts, RecordStays DEF NewAppointmentClick, Cancel, serverVars
  <1>2. ~(FormShown /\ booking.saving)
    BY ClinicParts DEF NewAppointmentClick, Cancel, ListLive, FormLive, FormShown, FormOK
  <1> QED
    BY <1>1, <1>2, FormSteps, ClinicParts
    DEF NewAppointmentClick, Cancel, ClinicInv, ClinicTypeOK

\* The page learns who the customer is; when nobody is, it asks for a record.
LEMMA FindSettlesStep == ASSUME ClinicInv, NEW f \in Finds, FindSettles(f) PROVE ClinicInv'
  <1> DEFINE new == IF userCustomer' = "null" /\ userCustomer # "null"
                    THEN [stage |-> "sent", kind |-> "create"] ELSE NoFind
  <1>1. /\ finds[f].stage \in {"found", "nobody"}
        /\ userCustomer' = IF finds[f].stage = "found" THEN "known" ELSE "null"
        /\ finds' = [finds EXCEPT ![f] = new]
    BY DEF FindSettles
  <1>2. new \in FindRecord /\ (new = NoFind \/ (new.stage = "sent" /\ new.kind = "create"))
    BY ClinicNothing DEF FindRecord
  <1>3. new # NoFind => finds[f].stage = "nobody"
    BY <1>1
  <1> HIDE DEF new
  <1>4. /\ finds'[f] = new /\ \A g \in Finds : g # f => finds'[g] = finds[g]
        /\ finds' \in [Finds -> FindRecord]
    BY <1>1, <1>2, ClinicParts
  <1>5. finds[f] # NoFind
    BY <1>1, ClinicNothing
  <1>6. OneRecord'
    <2> SUFFICES ASSUME cause \cap {"crowded", "others", "reload"} = {}
                 PROVE  /\ customers \in {0, 1}
                        /\ \A g, h \in Finds : finds'[g] # NoFind /\ finds'[h] # NoFind => g = h
                        /\ \A g \in Finds :
                             /\ finds'[g].stage = "sent" /\ finds'[g].kind = "find" =>
                                  userCustomer' = "undefined"
                             /\ finds'[g].stage = "sent" /\ finds'[g].kind = "create" =>
                                  customers = 0
                             /\ finds'[g].stage = "nobody" =>
                                  customers = 0 /\ userCustomer' = "undefined"
      BY DEF FindSettles, serverVars, OneRecord
    <2>1. \A g \in Finds : g # f => finds'[g] = NoFind
      BY <1>4, <1>5, ClinicParts DEF OneRecord
    <2>2. new # NoFind => customers = 0
      BY <1>3, ClinicParts DEF OneRecord
    <2>3. customers \in {0, 1}
      BY ClinicParts DEF OneRecord
    <2> QED BY <1>2, <1>4, <2>1, <2>2, <2>3, ClinicNothing
  <1>7. cause = {} /\ FormShown => FormShown'
    <2>1. cause = {} /\ finds[f].stage = "nobody" => userCustomer = "undefined"
      BY ClinicParts DEF OneRecord
    <2> QED BY <1>1, <2>1 DEF FormShown, FindSettles
  <1> QED BY <1>1, <1>4, <1>6, <1>7, FormSteps DEF FindSettles, ClinicInv, ClinicTypeOK

\* Graph looks for the customer, or makes a record.
LEMMA ServeFindStep == ASSUME ClinicInv, NEW f \in Finds, ServeFind(f) PROVE ClinicInv'
  <1>0. /\ finds[f].stage = "sent"
        /\ UNCHANGED <<booked, doubled, begun, catalog, appointments, userCustomer, clinicView,
                       booking, newAppointment, reads, books, boundVars, cause>>
    BY DEF ServeFind
  <1>1. ASSUME NEW x \in FindRecord, finds' = [finds EXCEPT ![f] = x],
               customers' \in 0 .. MaxCustomers, OneRecord'
        PROVE  ClinicInv'
    <2>1. finds' \in [Finds -> FindRecord]
      BY <1>1, ClinicParts
    <2>2. ClinicTypeOK'
      BY <1>0, <1>1, <2>1 DEF ClinicInv, ClinicTypeOK, boundVars, FindRecord
    <2>3. FormOK' /\ NoDoubles' /\ BooksOK'
      BY <1>0, ClinicParts, FormStays, DoublesStay DEF BooksOK
    <2> QED BY <1>1, <2>2, <2>3 DEF ClinicInv
  <1>2. ASSUME NEW x \in FindRecord, finds' = [finds EXCEPT ![f] = x],
               x # NoFind => finds[f] # NoFind,
               customers' = customers \/ (customers' = 1 /\ x.stage \in {"none", "found"}
                                          /\ cause \cap {"crowded", "others", "reload"} = {}),
               x.stage # "sent",
               x.stage = "nobody" =>
                  \/ cause \cap {"crowded", "others", "reload"} # {}
                  \/ customers' = 0 /\ userCustomer = "undefined"
        PROVE  OneRecord'
    <2>1. finds'[f] = x /\ \A g \in Finds : g # f => finds'[g] = finds[g]
      BY <1>2, ClinicParts
    <2>2. finds[f] # NoFind
      BY <1>0, ClinicNothing
    <2>3. cause \cap {"crowded", "others", "reload"} = {} =>
             \A g \in Finds : g # f => finds'[g] = NoFind
      BY <2>1, <2>2, ClinicParts DEF OneRecord
    <2>4. cause \cap {"crowded", "others", "reload"} = {} => customers' \in {0, 1}
      BY <1>2, ClinicParts DEF OneRecord
    <2> QED BY <1>0, <1>2, <2>1, <2>3, <2>4, ClinicNothing DEF OneRecord
  <1>3. customers \in 0 .. MaxCustomers
    BY DEF ClinicInv, ClinicTypeOK
  <1>4. finds[f] \in FindRecord
    BY ClinicParts
  <1>5. ASSUME NEW answer, finds[f].kind = "find",
               answer \in {IF customers > 0 THEN "found" ELSE "nobody"}
                          \cup (IF "crowded" \in cause THEN {"nobody"} ELSE {}),
               finds' = [finds EXCEPT ![f].stage = answer], UNCHANGED customers
        PROVE  ClinicInv'
    <2> DEFINE x == [finds[f] EXCEPT !.stage = answer]
    <2>1. x \in FindRecord /\ finds' = [finds EXCEPT ![f] = x] /\ x.stage = answer
      BY <1>4, <1>5, ClinicParts DEF FindRecord
    <2>2. answer \in {"found", "nobody"}
      BY <1>5
    <2>3. answer = "nobody" => \/ cause \cap {"crowded", "others", "reload"} # {}
                               \/ customers = 0 /\ userCustomer = "undefined"
      <3>1. cause \cap {"crowded", "others", "reload"} = {} => userCustomer = "undefined"
        BY <1>0, <1>5, ClinicParts DEF OneRecord
      <3>2. ~(customers > 0) => customers = 0
        BY <1>3
      <3> QED BY <1>5, <3>1, <3>2
    <2> HIDE DEF x
    <2>4. OneRecord'
      BY <1>0, <1>2, <1>5, <2>1, <2>2, <2>3, ClinicNothing
    <2> QED BY <1>1, <1>3, <1>5, <2>1, <2>4
  <1>6. ASSUME finds[f].kind = "create", customers < MaxCustomers, customers' = customers + 1,
               NEW x \in FindRecord, x.stage \in {"found", "none"},
               finds' = [finds EXCEPT ![f] = x]
        PROVE  ClinicInv'
    <2>1. customers' \in 0 .. MaxCustomers
      BY <1>3, <1>6, ClinicCounts
    <2>2. cause \cap {"crowded", "others", "reload"} = {} => customers' = 1
      BY <1>0, <1>6, ClinicParts DEF OneRecord
    <2>3. OneRecord'
      <3>1. CASE cause \cap {"crowded", "others", "reload"} # {}
        BY <1>0, <3>1 DEF OneRecord
      <3>2. CASE cause \cap {"crowded", "others", "reload"} = {}
        BY <1>0, <1>2, <1>6, <2>2, <3>2, ClinicNothing
      <3> QED BY <3>1, <3>2
    <2> QED BY <1>1, <1>6, <2>1, <2>3
  <1>7. CASE finds' = [finds EXCEPT ![f] = NoFind] /\ UNCHANGED customers
    <2>1. OneRecord'
      BY <1>2, <1>7, ClinicNothing
    <2> QED BY <1>1, <1>3, <1>7, <2>1, ClinicNothing
  <1>8. CASE /\ finds[f].kind = "create" /\ customers < MaxCustomers
             /\ customers' = customers + 1
             /\ finds' \in {[finds EXCEPT ![f].stage = "found"], [finds EXCEPT ![f] = NoFind]}
    <2> DEFINE x == [finds[f] EXCEPT !.stage = "found"]
    <2>1. x \in FindRecord /\ x.stage = "found"
          /\ [finds EXCEPT ![f].stage = "found"] = [finds EXCEPT ![f] = x]
      BY <1>4, ClinicParts DEF FindRecord
    <2> HIDE DEF x
    <2> QED BY <1>6, <1>8, <2>1, ClinicNothing
  <1> QED BY <1>5, <1>7, <1>8 DEF ServeFind

\* Graph lists the appointments; nothing that the page shows changes yet.
LEMMA ListStep == ASSUME ClinicInv, NEW r \in Reads, ListAppointments(r) PROVE ClinicInv'
  <1>0. /\ reads[r].stage = "sent"
        /\ UNCHANGED <<serverVars, catalog, appointments, userCustomer, clinicView, booking,
                       newAppointment, books, finds, boundVars, cause>>
    BY DEF ListAppointments
  <1>1. PICK slots \in IF "crowded" \in cause THEN SUBSET Apparent ELSE {Apparent} :
           reads' = [reads EXCEPT ![r] = [stage |-> "ok", slots |-> slots]]
    BY DEF ListAppointments
  <1>2. slots \subseteq Slots /\ (cause = {} => slots = booked)
    <2>1. Apparent \subseteq Slots
      BY ClinicParts, ClinicAssumption DEF Apparent
    <2>2. cause = {} => Apparent = booked
      BY ClinicParts DEF Apparent, NoDoubles
    <2> QED BY <1>1, <2>1, <2>2
  <1> DEFINE x == [stage |-> "ok", slots |-> slots]
  <1>3. x \in ReadRecord /\ x.stage = "ok" /\ x.slots = slots
    BY <1>2 DEF ReadRecord
  <1> HIDE DEF x
  <1>4. reads' = [reads EXCEPT ![r] = x]
    BY <1>1 DEF x
  <1>5. /\ reads'[r] = x /\ \A q \in Reads : q # r => reads'[q] = reads[q]
        /\ reads' \in [Reads -> ReadRecord]
    BY <1>3, <1>4, ClinicParts
  <1>6. reads[r] # NoRead
    BY <1>0, ClinicNothing
  <1>7. NoDoubles'
    <2> SUFFICES ASSUME cause = {} PROVE NoDoubles'
      BY <1>0 DEF NoDoubles
    <2>1. \A p, q \in Reads : reads'[p] # NoRead /\ reads'[q] # NoRead => p = q
      BY <1>5, <1>6, ClinicParts DEF NoDoubles
    <2>2. \A q \in Reads : reads'[q].stage = "ok" => reads'[q].slots = booked
      BY <1>2, <1>3, <1>5, ClinicParts DEF NoDoubles
    <2>3. Reading /\ Reading'
      BY <1>3, <1>5, <1>6, ClinicNothing DEF Reading
    <2>4. ~Saving /\ ~Saving'
      BY <1>0, <2>3, ClinicParts DEF NoDoubles, Saving
    <2> QED BY <1>0, <2>1, <2>2, <2>3, <2>4, ClinicParts DEF NoDoubles, Saving, serverVars
  <1>8. ClinicTypeOK'
    BY <1>0, <1>5 DEF ClinicInv, ClinicTypeOK, serverVars, boundVars, ReadRecord
  <1>9. FormOK' /\ OneRecord' /\ BooksOK'
    BY <1>0, ClinicParts, FormStays, RecordStays DEF BooksOK, serverVars
  <1> QED BY <1>7, <1>8, <1>9 DEF ClinicInv

\* The page shows the appointments it has read.
LEMMA ReadSettlesStep == ASSUME ClinicInv, NEW r \in Reads, ReadSettles(r) PROVE ClinicInv'
  <1>0. /\ reads[r].stage = "ok" /\ reads' = [reads EXCEPT ![r] = NoRead]
        /\ appointments' = [there |-> TRUE, slots |-> reads[r].slots]
        /\ UNCHANGED <<serverVars, catalog, userCustomer, clinicView, newAppointment, books,
                       finds, boundVars, cause>>
        /\ FormFollows(TRUE)
    BY DEF ReadSettles
  <1>1. /\ reads'[r] = NoRead /\ \A q \in Reads : q # r => reads'[q] = reads[q]
        /\ reads' \in [Reads -> ReadRecord] /\ reads[r] # NoRead
    BY <1>0, ClinicParts, ClinicNothing
  <1>2. /\ appointments'.there = TRUE /\ appointments'.slots = reads[r].slots
        /\ appointments' \in [there : BOOLEAN, slots : SUBSET Slots]
    BY <1>0, ClinicParts DEF ReadRecord
  <1>3. Free' \subseteq Slots
    BY DEF Free
  <1>4. booking' \in BookingRecord /\ FormOK'
    BY <1>0, <1>3, ClinicParts, FormFollowsIs
  <1>5. NoDoubles'
    <2> SUFFICES ASSUME cause = {} PROVE NoDoubles'
      BY <1>0 DEF NoDoubles
    <2>1. \A q \in Reads : reads'[q] = NoRead
      BY <1>1, ClinicParts DEF NoDoubles
    <2>2. ~Saving /\ ~Saving'
      BY <1>0, <1>1, ClinicParts DEF NoDoubles, Saving, Reading
    <2>3. appointments'.slots = booked
      BY <1>0, <1>2, ClinicParts DEF NoDoubles
    <2> QED BY <1>0, <2>1, <2>2, <2>3, ClinicParts, ClinicNothing
            DEF NoDoubles, Saving, serverVars
  <1>6. ClinicTypeOK'
    BY <1>0, <1>1, <1>2, <1>4
    DEF ClinicInv, ClinicTypeOK, serverVars, boundVars, ReadRecord, BookingRecord
  <1>7. OneRecord' /\ BooksOK'
    BY <1>0, ClinicParts, RecordStays DEF BooksOK, serverVars
  <1> QED BY <1>4, <1>5, <1>6, <1>7 DEF ClinicInv

\* A read is lost, and that is a cause.
LEMMA ReadFailsStep == ASSUME ClinicInv, NEW r \in Reads, ReadFails(r) PROVE ClinicInv'
  <1>1. /\ reads' \in [Reads -> ReadRecord] /\ cause' = cause \cup {"lost"}
        /\ UNCHANGED <<serverVars, catalog, appointments, userCustomer, clinicView, booking,
                       newAppointment, books, finds, boundVars>>
    BY ClinicParts, ClinicNothing DEF ReadFails
  <1>2. ClinicTypeOK'
    BY <1>1 DEF ClinicInv, ClinicTypeOK, serverVars, boundVars, ReadRecord, Causes
  <1>3. FormOK' /\ OneRecord' /\ BooksOK'
    BY <1>1, ClinicParts, FormStays, RecordStays DEF BooksOK, serverVars
  <1>4. NoDoubles'
    BY <1>1 DEF NoDoubles
  <1> QED BY <1>2, <1>3, <1>4 DEF ClinicInv

\* The user picks another slot of the free ones.
LEMMA PickSlotStep == ASSUME ClinicInv, NEW s \in Slots, PickSlot(s) PROVE ClinicInv'
  <1>0. /\ booking.shown /\ ~booking.saving /\ s \in Free
        /\ booking' = [booking EXCEPT !.slot = s]
        /\ UNCHANGED <<serverVars, catalog, appointments, userCustomer, clinicView,
                       newAppointment, reads, books, finds, boundVars, cause>>
    BY DEF PickSlot, FormLive
  <1>1. /\ booking' \in BookingRecord /\ booking'.slot = s
        /\ booking'.shown = booking.shown /\ booking'.saving = booking.saving
    BY <1>0, ClinicParts DEF BookingRecord
  <1>2. FormOK'
    BY <1>0, <1>1, ClinicParts DEF FormOK, FormShown, Free
  <1>3. ClinicTypeOK'
    BY <1>0, <1>1 DEF ClinicInv, ClinicTypeOK, serverVars, boundVars, BookingRecord
  <1>4. NoDoubles' /\ OneRecord' /\ BooksOK'
    BY <1>0, <1>1, ClinicParts, DoublesStay, RecordStays DEF BooksOK, serverVars
  <1> QED BY <1>2, <1>3, <1>4 DEF ClinicInv

\* The user asks for the slot: unless that is a cause, the page knows every appointment and
\* offers one that is free.
LEMMA CreateClickStep == ASSUME ClinicInv, CreateClick PROVE ClinicInv'
  <1>0. /\ booking.shown /\ ~booking.saving /\ booking.slot # NoSlot
        /\ asked < MaxBooks /\ asked' = asked + 1
        /\ booking' = [booking EXCEPT !.saving = TRUE] /\ newAppointment' = booking.slot
        /\ AskAppointment(booking.slot)
        /\ cause' = cause \cup (IF \E r \in Reads : reads[r] # NoRead THEN {"early"} ELSE {})
                          \cup (IF Free = {} THEN {"full"} ELSE {})
        /\ UNCHANGED <<serverVars, catalog, appointments, userCustomer, clinicView, reads,
                       finds, reloads>>
    BY DEF CreateClick, FormLive
  <1>1. PICK b \in Books :
           /\ books[b] = NoBook
           /\ books' = [books EXCEPT ![b] = [stage |-> "sent", slot |-> booking.slot]]
    BY <1>0 DEF AskAppointment
  <1> DEFINE x == [stage |-> "sent", slot |-> booking.slot]
  <1>2. booking.slot \in Slots
    BY <1>0, ClinicParts DEF BookingRecord
  <1>3. x \in BookRecord /\ x.stage = "sent" /\ x.slot = booking.slot
    BY <1>2 DEF BookRecord
  <1>4. books' = [books EXCEPT ![b] = x]
    BY <1>1
  <1> HIDE DEF x
  <1>5. /\ books'[b] = x /\ \A c \in Books : c # b => books'[c] = books[c]
        /\ books' \in [Books -> BookRecord]
    BY <1>3, <1>4, ClinicParts
  <1>6. /\ booking' \in BookingRecord /\ booking'.saving = TRUE
        /\ booking'.shown = booking.shown /\ booking'.slot = booking.slot
    BY <1>0, ClinicParts DEF BookingRecord
  <1>7. FormOK'
    BY <1>0, <1>6, ClinicParts DEF FormOK, FormShown, Free
  <1>8. BooksOK'
    BY <1>2, <1>3, <1>5, ClinicParts DEF BooksOK
  <1>9. NoDoubles'
    <2> SUFFICES ASSUME cause' = {} PROVE NoDoubles'
      BY DEF NoDoubles
    <2>1. cause = {} /\ ~Reading /\ Free # {}
      BY <1>0 DEF Reading
    <2>2. ~Reading'
      BY <1>0, <2>1 DEF Reading
    <2>3. \A c \in Books : books[c] = NoBook
      BY <1>0, <2>1, ClinicParts DEF NoDoubles, Saving
    <2>4. appointments.slots = booked
      <3>1. appointments.there
        BY <1>0, ClinicParts DEF FormOK, FormShown
      <3>2. \A c \in Books : books[c].stage # "ok"
        BY <2>3, ClinicNothing
      <3> QED BY <2>1, <3>1, <3>2, ClinicParts DEF NoDoubles
    <2>5. booking.slot \notin booked
      BY <1>0, <2>1, <2>4, ClinicParts DEF FormOK, Free
    <2>6. \A c, d \in Books : books'[c] # NoBook /\ books'[d] # NoBook => c = d
      BY <1>5, <2>3
    <2>7. \A c \in Books : books'[c].stage = "sent" => books'[c].slot \notin booked'
      BY <1>0, <1>3, <1>5, <2>3, <2>5, ClinicNothing DEF serverVars
    <2>8. \A r, q \in Reads : reads'[r] # NoRead /\ reads'[q] # NoRead => r = q
      BY <2>2 DEF Reading
    <2>9. \A r \in Reads : reads'[r].stage = "ok" => reads'[r].slots = booked'
      BY <2>2, ClinicNothing DEF Reading
    <2>10. ~doubled' /\ begun' = booked'
          /\ appointments'.slots = booked'
      BY <1>0, <2>1, <2>4, ClinicParts DEF NoDoubles, serverVars
    <2> QED BY <1>0, <1>6, <2>2, <2>6, <2>7, <2>8, <2>9, <2>10 DEF NoDoubles
  <1>10. ClinicTypeOK'
    <2>1. asked' \in 0 .. MaxBooks
      BY <1>0, ClinicCounts DEF ClinicInv, ClinicTypeOK
    <2>2. cause' \in SUBSET Causes
      BY <1>0 DEF ClinicInv, ClinicTypeOK, Causes
    <2> QED BY <1>0, <1>2, <1>5, <1>6, <2>1, <2>2
            DEF ClinicInv, ClinicTypeOK, serverVars, BookRecord, BookingRecord
  <1>11. OneRecord'
    BY <1>0, ClinicParts, RecordStays DEF serverVars
  <1> QED BY <1>7, <1>8, <1>9, <1>10, <1>11 DEF ClinicInv

\* Graph creates the appointment.
LEMMA CreateStep == ASSUME ClinicInv, NEW b \in Books, CreateAppointment(b) PROVE ClinicInv'
  <1>0. /\ books[b].stage = "sent" /\ booked' = booked \cup {books[b].slot}
        /\ begun' = begun \cup {books[b].slot}
        /\ doubled' = (doubled \/ books[b].slot \in booked)
        /\ books' = [books EXCEPT ![b].stage = "ok"]
        /\ UNCHANGED <<customers, catalog, appointments, userCustomer, clinicView, booking,
                       newAppointment, reads, finds, boundVars, cause>>
    BY DEF CreateAppointment, Taken
  <1> DEFINE x == [books[b] EXCEPT !.stage = "ok"]
  <1>1. x \in BookRecord /\ x.stage = "ok" /\ x.slot = books[b].slot
    BY ClinicParts DEF BookRecord
  <1>2. books' = [books EXCEPT ![b] = x]
    BY <1>0
  <1> HIDE DEF x
  <1>3. /\ books'[b] = x /\ \A c \in Books : c # b => books'[c] = books[c]
        /\ books' \in [Books -> BookRecord]
    BY <1>1, <1>2, ClinicParts
  <1>4. books[b].slot \in Slots
    BY <1>0, ClinicParts DEF BooksOK
  <1>5. BooksOK'
    BY <1>1, <1>3, <1>4, ClinicParts DEF BooksOK
  <1>6. ClinicTypeOK'
    <2>1. doubled' \in BOOLEAN /\ booked' \in SUBSET Slots /\ begun' \in SUBSET booked'
      BY <1>0, <1>4, ClinicParts
    <2> QED BY <1>0, <1>3, <2>1 DEF ClinicInv, ClinicTypeOK, boundVars, BookRecord
  <1>7. NoDoubles'
    <2> SUFFICES ASSUME cause = {} PROVE NoDoubles'
      BY <1>0 DEF NoDoubles
    <2>1. books[b] # NoBook /\ Saving
      BY <1>0, ClinicNothing DEF Saving
    <2>2. booking.shown /\ booking.saving /\ ~Reading /\ ~doubled
      BY <2>1, ClinicParts DEF NoDoubles
    <2>3. ~Reading'
      BY <1>0, <2>2 DEF Reading
    <2>4. \A c \in Books : c # b => books'[c] = NoBook
      BY <1>3, <2>1, ClinicParts DEF NoDoubles
    <2>5. ~doubled' /\ begun' = booked'
      BY <1>0, <2>2, ClinicParts DEF NoDoubles
    <2>6. \A c, d \in Books : books'[c] # NoBook /\ books'[d] # NoBook => c = d
      BY <2>4
    <2>7. \A c \in Books : books'[c].stage # "sent"
      BY <1>1, <1>3, <2>4, ClinicNothing
    <2>8. \A r \in Reads : reads'[r] = NoRead
      BY <2>3 DEF Reading
    <2>9. ~\A c \in Books : books'[c].stage # "ok"
      BY <1>1, <1>3
    <2> QED BY <1>0, <2>2, <2>3, <2>5, <2>6, <2>7, <2>8, <2>9, ClinicNothing DEF NoDoubles
  <1>8. FormOK' /\ OneRecord'
    BY <1>0, ClinicParts, FormStays, RecordStays
  <1> QED BY <1>5, <1>6, <1>7, <1>8 DEF ClinicInv

\* A creation fails, and that is a cause.
LEMMA BookFailsStep == ASSUME ClinicInv, NEW b \in Books, BookFails(b) PROVE ClinicInv'
  <1>0. /\ books[b].stage = "sent" /\ books' = [books EXCEPT ![b] = NoBook]
        /\ Taken(books[b].slot) \/ UNCHANGED <<booked, doubled, begun>>
        /\ cause' = cause \cup {"lost"}
        /\ UNCHANGED <<customers, catalog, appointments, userCustomer, clinicView, booking,
                       newAppointment, reads, finds, boundVars>>
    BY DEF BookFails
  <1>1. /\ books' \in [Books -> BookRecord]
        /\ \A c \in Books : books'[c] = books[c] \/ books'[c] = NoBook
    BY <1>0, ClinicParts, ClinicNothing
  <1>2. doubled' \in BOOLEAN /\ booked' \in SUBSET Slots /\ begun' \in SUBSET booked'
    <2>1. books[b].slot \in Slots
      BY <1>0, ClinicParts DEF BooksOK
    <2> QED BY <1>0, <2>1, ClinicParts DEF Taken, ClinicInv, ClinicTypeOK
  <1>3. ClinicTypeOK'
    BY <1>0, <1>1, <1>2 DEF ClinicInv, ClinicTypeOK, boundVars, BookRecord, Causes
  <1>4. BooksOK'
    BY <1>1, ClinicParts, ClinicNothing DEF BooksOK
  <1>5. NoDoubles'
    BY <1>0 DEF NoDoubles
  <1>6. FormOK' /\ OneRecord'
    BY <1>0, ClinicParts, FormStays, RecordStays
  <1> QED BY <1>3, <1>4, <1>5, <1>6 DEF ClinicInv

\* One more read is asked for.
LEMMA LoadIs ==
    ASSUME ClinicInv, LoadAppointments
    PROVE  /\ reads' \in [Reads -> ReadRecord]
           /\ \E r \in Reads : /\ reads[r] = NoRead /\ reads'[r] # NoRead
                               /\ reads'[r].stage = "sent"
                               /\ \A q \in Reads : q # r => reads'[q] = reads[q]
  <1>1. PICK r \in Reads : reads[r] = NoRead /\ reads' = [reads EXCEPT ![r].stage = "sent"]
    BY DEF LoadAppointments
  <1> DEFINE x == [reads[r] EXCEPT !.stage = "sent"]
  <1>2. x \in ReadRecord /\ x.stage = "sent" /\ reads' = [reads EXCEPT ![r] = x]
    BY <1>1, ClinicParts DEF ReadRecord
  <1> HIDE DEF x
  <1> QED BY <1>1, <1>2, ClinicParts, ClinicNothing

\* The appointment is there: the page shows the list and reads it again.
LEMMA BookSettlesStep == ASSUME ClinicInv, NEW b \in Books, BookSettles(b) PROVE ClinicInv'
  <1>0. /\ books[b].stage = "ok" /\ books' = [books EXCEPT ![b] = NoBook]
        /\ clinicView' = "List" /\ LoadAppointments
        /\ UNCHANGED <<serverVars, catalog, appointments, userCustomer, newAppointment, finds,
                       boundVars, cause>>
        /\ FormFollows(FALSE)
    BY DEF BookSettles
  <1>1. /\ books' \in [Books -> BookRecord] /\ books[b] # NoBook /\ books'[b] = NoBook
        /\ \A c \in Books : c # b => books'[c] = books[c]
    BY <1>0, ClinicParts, ClinicNothing
  <1>2. Free' = Free
    BY <1>0 DEF Free
  <1>3. booking' \in BookingRecord /\ FormOK'
    BY <1>0, <1>2, ClinicParts, FormFollowsIs
  <1>4. BooksOK'
    BY <1>1, ClinicParts, ClinicNothing DEF BooksOK
  <1>5. reads' \in [Reads -> ReadRecord]
    BY <1>0, LoadIs
  <1>6. PICK r \in Reads : /\ reads[r] = NoRead /\ reads'[r] # NoRead
                           /\ reads'[r].stage = "sent"
                           /\ \A q \in Reads : q # r => reads'[q] = reads[q]
    BY <1>0, LoadIs
  <1>7. NoDoubles'
    <2> SUFFICES ASSUME cause = {} PROVE NoDoubles'
      BY <1>0 DEF NoDoubles
    <2>1. ~Reading /\ ~doubled /\ begun = booked
      BY <1>1, ClinicParts DEF NoDoubles, Saving
    <2>2. \A c \in Books : books'[c] = NoBook
      BY <1>1, ClinicParts DEF NoDoubles
    <2>3. \A q \in Reads : q # r => reads'[q] = NoRead
      BY <1>6, <2>1 DEF Reading
    <2>4. \A q \in Reads : reads'[q].stage # "ok"
      BY <1>6, <2>3, ClinicNothing
    <2>5. Reading' /\ ~Saving'
      BY <1>6, <2>2 DEF Reading, Saving
    <2> QED BY <1>0, <2>1, <2>2, <2>3, <2>4, <2>5, ClinicNothing DEF NoDoubles, serverVars
  <1>8. ClinicTypeOK'
    BY <1>0, <1>1, <1>3, <1>5
    DEF ClinicInv, ClinicTypeOK, serverVars, boundVars, BookRecord, BookingRecord, ReadRecord
  <1>9. OneRecord'
    BY <1>0, ClinicParts, RecordStays DEF serverVars
  <1> QED BY <1>3, <1>4, <1>7, <1>8, <1>9 DEF ClinicInv

\* A new loader asks for everything again, and that is a cause.
LEMMA ReloadStep == ASSUME ClinicInv, LoaderChanges PROVE ClinicInv'
  <1>0. /\ reloads < MaxReloads /\ reloads' = reloads + 1 /\ LoadAppointments
        /\ CASE userCustomer = "undefined" -> AskCustomer("find")
             [] userCustomer = "null" -> AskCustomer("create")
             [] userCustomer = "known" -> UNCHANGED finds
        /\ IF newAppointment = NoSlot THEN UNCHANGED books ELSE AskAppointment(newAppointment)
        /\ cause' = cause \cup {"reload"}
        /\ UNCHANGED <<serverVars, catalog, appointments, userCustomer, clinicView, booking,
                       newAppointment, asked>>
    BY DEF LoaderChanges
  <1>1. reads' \in [Reads -> ReadRecord]
    BY <1>0, LoadIs
  <1>2. finds' \in [Finds -> FindRecord]
    <2>1. ASSUME NEW kind \in {"find", "create"}, AskCustomer(kind)
          PROVE  finds' \in [Finds -> FindRecord]
      <3>1. PICK f \in Finds : finds' = [finds EXCEPT ![f] = [stage |-> "sent", kind |-> kind]]
        BY <2>1 DEF AskCustomer
      <3>2. [stage |-> "sent", kind |-> kind] \in FindRecord
        BY DEF FindRecord
      <3> QED BY <3>1, <3>2, ClinicParts
    <2>2. userCustomer \in {"undefined", "null", "known"}
      BY DEF ClinicInv, ClinicTypeOK
    <2>3. AskCustomer("find") \/ AskCustomer("create") \/ UNCHANGED finds
      BY <1>0, <2>2
    <2> QED BY <2>1, <2>3, ClinicParts
  <1>3. books' \in [Books -> BookRecord] /\ BooksOK'
    <2>1. CASE newAppointment = NoSlot
      BY <1>0, <2>1, ClinicParts DEF BooksOK
    <2>2. CASE newAppointment # NoSlot
      <3>1. PICK b \in Books :
               books' = [books EXCEPT ![b] = [stage |-> "sent", slot |-> newAppointment]]
        BY <1>0, <2>2 DEF AskAppointment
      <3> DEFINE x == [stage |-> "sent", slot |-> newAppointment]
      <3>2. newAppointment \in Slots
        BY <2>2 DEF ClinicInv, ClinicTypeOK
      <3>3. x \in BookRecord /\ x.slot \in Slots
        BY <3>2 DEF BookRecord
      <3>4. books' = [books EXCEPT ![b] = x]
        BY <3>1
      <3> HIDE DEF x
      <3> QED BY <3>3, <3>4, ClinicParts DEF BooksOK
    <2> QED BY <2>1, <2>2
  <1>4. ClinicTypeOK'
    <2>1. reloads' \in 0 .. MaxReloads
      BY <1>0, ClinicCounts DEF ClinicInv, ClinicTypeOK
    <2> QED BY <1>0, <1>1, <1>2, <1>3, <2>1
            DEF ClinicInv, ClinicTypeOK, serverVars, BookRecord, FindRecord, ReadRecord, Causes
  <1>5. FormOK' /\ NoDoubles' /\ OneRecord'
    BY <1>0, ClinicParts, FormStays DEF NoDoubles, OneRecord
  <1> QED BY <1>3, <1>4, <1>5 DEF ClinicInv

\* Somebody else books or registers, and that is a cause.
LEMMA OthersStep == ASSUME ClinicInv, SomebodyElse PROVE ClinicInv'
  <1>1. /\ cause' = cause \cup {"others"}
        /\ UNCHANGED <<doubled, catalog, appointments, userCustomer, clinicView, booking,
                       newAppointment, reads, books, finds, boundVars>>
        /\ booked' \in SUBSET Slots /\ begun' \in SUBSET booked'
        /\ customers' \in 0 .. MaxCustomers
    BY ClinicParts, ClinicCounts DEF SomebodyElse, ClinicInv, ClinicTypeOK
  <1>2. ClinicTypeOK'
    BY <1>1 DEF ClinicInv, ClinicTypeOK, boundVars, Causes
  <1>3. FormOK' /\ BooksOK' /\ OneRecord' /\ NoDoubles'
    BY <1>1, ClinicParts, FormStays DEF BooksOK, OneRecord, NoDoubles
  <1> QED BY <1>2, <1>3 DEF ClinicInv

LEMMA ClinicStart == ClinicInit => ClinicInv
  <1> SUFFICES ASSUME ClinicInit PROVE ClinicInv
    OBVIOUS
  <1>1. PICK q \in Reads : reads = [[r \in Reads |-> NoRead] EXCEPT ![q].stage = "sent"]
    BY DEF ClinicInit
  <1>2. PICK g \in Finds : finds = [[f \in Finds |-> NoFind] EXCEPT ![g].stage = "sent"]
    BY DEF ClinicInit
  <1> DEFINE x == [NoRead EXCEPT !.stage = "sent"]
             y == [NoFind EXCEPT !.stage = "sent"]
  <1>3. x \in ReadRecord /\ x.stage = "sent"
    BY DEF ReadRecord, NoRead
  <1>4. y \in FindRecord /\ y.stage = "sent" /\ y.kind = "find"
    BY DEF FindRecord, NoFind
  <1>5. reads = [r \in Reads |-> IF r = q THEN x ELSE NoRead]
    BY <1>1
  <1>6. finds = [f \in Finds |-> IF f = g THEN y ELSE NoFind]
    BY <1>2
  <1> HIDE DEF x, y
  <1>7. reads \in [Reads -> ReadRecord] /\ finds \in [Finds -> FindRecord]
    BY <1>3, <1>4, <1>5, <1>6, ClinicNothing
  <1>8. books \in [Books -> BookRecord]
    BY ClinicNothing DEF ClinicInit
  <1>9. ClinicTypeOK
    <2>1. booking \in BookingRecord
      BY ClinicNothing DEF ClinicInit
    <2> QED BY <1>7, <1>8, <2>1, ClinicCounts
            DEF ClinicInit, ClinicTypeOK, BookRecord, ReadRecord, FindRecord, BookingRecord,
                Causes
  <1>10. FormOK /\ BooksOK
    BY ClinicNothing DEF ClinicInit, FormOK, BooksOK, FormShown
  <1>11. OneRecord
    BY <1>4, <1>6, ClinicNothing DEF ClinicInit, OneRecord
  <1>12. NoDoubles
    <2>1. Reading /\ ~Saving /\ \A b \in Books : books[b] = NoBook
      BY <1>3, <1>5, ClinicNothing DEF ClinicInit, Reading, Saving
    <2> QED BY <1>3, <1>5, <2>1, ClinicNothing DEF ClinicInit, NoDoubles
  <1> QED BY <1>9, <1>10, <1>11, <1>12 DEF ClinicInv

LEMMA ClinicStays == ClinicInv /\ [ClinicNext]_clinicVars => ClinicInv'
  <1> SUFFICES ASSUME ClinicInv, [ClinicNext]_clinicVars PROVE ClinicInv'
    OBVIOUS
  <1>1. ASSUME NEW r \in Reads, AppointmentsProgress(r) PROVE ClinicInv'
    BY <1>1, ListStep, ReadSettlesStep, ReadFailsStep DEF AppointmentsProgress
  <1>2. ASSUME NEW b \in Books, BookProgress(b) PROVE ClinicInv'
    BY <1>2, CreateStep, BookFailsStep, BookSettlesStep DEF BookProgress
  <1>3. CASE UNCHANGED clinicVars
    <2>1. FormOK' /\ OneRecord' /\ NoDoubles' /\ BooksOK'
      BY <1>3, ClinicParts, FormStays, RecordStays, DoublesStay DEF clinicVars, BooksOK
    <2>2. ClinicTypeOK'
      BY <1>3 DEF clinicVars, ClinicInv, ClinicTypeOK
    <2> QED BY <2>1, <2>2 DEF ClinicInv
  <1> QED
    BY <1>1, <1>2, <1>3, CatalogStep, ServeFindStep, FindSettlesStep, PickSlotStep, ViewSteps,
       CreateClickStep, ReloadStep, OthersStep DEF ClinicNext

LEMMA AlwaysClinic == ClinicSpec => []ClinicInv
  BY ClinicStart, ClinicStays, PTL DEF ClinicSpec

\* Two records of the user have a cause outside the page's own steps: however many requests
\* are under way, RegisteredOnce holds.
THEOREM OneCustomer == ClinicSpec => []RegisteredOnce
  <1>1. ClinicInv => RegisteredOnce
    BY DEF ClinicInv, OneRecord, RegisteredOnce
  <1> QED BY <1>1, AlwaysClinic, PTL

\* A slot booked twice has one of the causes that the page does not reckon with, for any
\* day and any number of requests.
THEOREM DoubledForAReason == ClinicSpec => []DoubleBookedForAReason
  <1>1. ClinicInv => DoubleBookedForAReason
    BY DEF ClinicInv, NoDoubles, DoubleBookedForAReason
  <1> QED BY <1>1, AlwaysClinic, PTL

-----------------------------------------------------------------------------
(* The four clients side by side.                                           *)

\* What each client keeps; the script admin's types need no more than themselves.
FormsInv == SubPageTypeOK /\ ScriptsTypeOK /\ ClinicInv /\ DashInv

\* Every step is one of a single client, and the others keep what they have.
LEMMA FormsSteps ==
    [Next]_vars => /\ [SubPageNext]_subVars /\ [ScriptsNext]_adminViewVars
                   /\ [ClinicNext]_clinicVars /\ [DashNext]_dashVars
  BY DEF Next, vars

\* The four clients keep to the types of their state, whichever of them runs.
THEOREM FormsTypes == Spec => []FormsTypeOK
  <1>1. Init => FormsInv
    BY SubsTypeInit, ScriptsTypeInit, ClinicStart, DashInitInv DEF Init, FormsInv
  <1>2. FormsInv /\ [Next]_vars => FormsInv'
    BY FormsSteps, SubsTypeNext, ScriptsTypeNext, ClinicStays, DashNextInv DEF FormsInv
  <1>3. FormsInv => FormsTypeOK
    BY DEF FormsInv, FormsTypeOK, ClinicInv, DashInv
  <1> QED BY <1>1, <1>2, <1>3, PTL DEF Spec

=============================================================================
