-------------------------- MODULE WebhookAdmin_proofs --------------------------
(***************************************************************************)
(* Proofs about the webhooks manager under the timer and the admin page,    *)
(* for every set of calls, pages and subscriptions and every bound.         *)
(***************************************************************************)
EXTENDS WebhookAdmin, TLAPS

\* What makes DuplicatesNeedOverlap inductive: until calls overlap, one call at most is past
\* its list, none deletes (its list never holds two), and one creates only when there is none.
OneActs ==
    \/ overlapped
    \/ /\ \A s, t \in subs : s = t
       /\ \A c, d \in Calls : call[c].step \in Acting /\ call[d].step \in Acting => c = d
       /\ \A c \in Calls : /\ call[c].step # "delete"
                           /\ call[c].step = "add" => subs = {}

AdminInv == AdminTypeOK /\ OneActs

-----------------------------------------------------------------------------
(* Facts about the operators of the model.                                  *)

\* The records a call goes through.
LEMMA Steps ==
    /\ Idle = [step |-> "idle", cache |-> {}]
    /\ \A c \in Calls : HooksTypeOK =>
          /\ call[c].step \in {"idle", "list", "done", "failed"} \cup Acting
          /\ call[c].cache \subseteq SubIds
  BY DEF HooksTypeOK, Idle, At

\* What a list with at most one subscription is.
LEMMA ShortList ==
    ASSUME NEW list, \A s, t \in list : s = t
    PROVE  list = {} \/ HaveValidSubscription(list)
  <1>1. SUFFICES ASSUME NEW s \in list
                 PROVE  \E t \in list : list = {t}
    BY DEF HaveValidSubscription
  <1>2. list = {s}
    OBVIOUS
  <1> QED
    BY <1>2

-----------------------------------------------------------------------------
(* Type correctness.                                                        *)

LEMMA AdminTypeInit == AdminInit => AdminTypeOK
  <1> SUFFICES ASSUME AdminInit PROVE AdminTypeOK
    OBVIOUS
  <1>1. HooksTypeOK
    <2>1. faults \in 0 .. MaxFaults /\ lapses \in 0 .. MaxLapses
      BY HooksAssumption DEF AdminInit, HooksInit
    <2>2. call \in [Calls -> [step : {"idle", "list", "done", "failed"} \cup Acting,
                              cache : SUBSET SubIds]]
      BY DEF AdminInit, HooksInit, Idle, At
    <2> QED
      BY <2>1, <2>2 DEF AdminInit, HooksInit, HooksTypeOK
  <1> QED
    BY <1>1, PostsAssumption DEF AdminInit, AdminTypeOK

LEMMA TypeStart ==
    ASSUME HooksTypeOK, NEW c \in Calls, Start(c) PROVE HooksTypeOK'
  BY DEF HooksTypeOK, Start, Acting

LEMMA TypeAnswered ==
    ASSUME HooksTypeOK, NEW c \in Calls, Answered(c) PROVE HooksTypeOK'
  BY DEF HooksTypeOK, Answered, Idle, At, Acting

LEMMA TypeHook == ASSUME HooksTypeOK, HookNext PROVE HooksTypeOK'
  <1>1. ASSUME NEW c \in Calls, GetInScopeSubscriptions(c) PROVE HooksTypeOK'
    BY <1>1 DEF HooksTypeOK, GetInScopeSubscriptions, Acting
  <1>2. ASSUME NEW c \in Calls, Renew(c) PROVE HooksTypeOK'
    BY <1>2 DEF HooksTypeOK, Renew, At, Acting
  <1>3. ASSUME NEW c \in Calls, DeleteOne(c) PROVE HooksTypeOK'
    BY <1>3 DEF HooksTypeOK, DeleteOne, At, Acting
  <1>4. ASSUME NEW c \in Calls, Add(c) PROVE HooksTypeOK'
    BY <1>4 DEF HooksTypeOK, Add, Fresh, At, Acting
  <1>5. ASSUME NEW c \in Calls, Fault(c) PROVE HooksTypeOK'
    <2>1. faults' \in 0 .. MaxFaults
      BY <1>5, HooksAssumption DEF HooksTypeOK, Fault
    <2> QED
      BY <1>5, <2>1 DEF HooksTypeOK, Fault, At, Acting
  <1>6. ASSUME NEW s \in SubIds, Lapse(s) PROVE HooksTypeOK'
    <2>1. lapses' \in 0 .. MaxLapses
      BY <1>6, HooksAssumption DEF HooksTypeOK, Lapse
    <2> QED
      BY <1>6, <2>1 DEF HooksTypeOK, Lapse
  <1> QED
    BY <1>1, <1>2, <1>3, <1>4, <1>5, <1>6 DEF HookNext, CallStep

LEMMA AdminTypeNext == ASSUME AdminTypeOK, [AdminNext]_adminVars PROVE AdminTypeOK'
  <1> USE PostsAssumption
  <1>1. ASSUME HookNext, UNCHANGED pageVars PROVE AdminTypeOK'
    BY <1>1, TypeHook DEF AdminTypeOK, pageVars
  <1>2. ASSUME SubscriptionRefresh PROVE AdminTypeOK'
    BY <1>2, CallersAssumption, TypeStart, TypeAnswered
       DEF AdminTypeOK, SubscriptionRefresh, pageVars
  <1>3. ASSUME NEW p \in Pages, OpenPage(p) PROVE AdminTypeOK'
    BY <1>3 DEF AdminTypeOK, OpenPage, hookVars, HooksTypeOK
  <1>4. ASSUME NEW p \in Pages, CreateOrUpdateClick(p) PROVE AdminTypeOK'
    BY <1>4, TypeStart DEF AdminTypeOK, CreateOrUpdateClick
  <1>5. ASSUME NEW p \in Pages, ClickAnswered(p) PROVE AdminTypeOK'
    BY <1>5, TypeAnswered DEF AdminTypeOK, ClickAnswered
  <1>6. ASSUME NEW c \in Calls, Unheard(c) PROVE AdminTypeOK'
    BY <1>6, TypeAnswered DEF AdminTypeOK, Unheard, pageVars
  <1>7. ASSUME UNCHANGED adminVars PROVE AdminTypeOK'
    BY <1>7 DEF AdminTypeOK, adminVars, hookVars, HooksTypeOK
  <1> QED
    BY <1>1, <1>2, <1>3, <1>4, <1>5, <1>6, <1>7 DEF AdminNext

(* The admin page and the manager keep to the types of their state.          *)
THEOREM AdminTypeCorrect == AdminSpec => []AdminTypeOK
  <1> QED
    BY AdminTypeInit, AdminTypeNext, PTL DEF AdminSpec

-----------------------------------------------------------------------------
(* One call acts at a time until calls overlap.                              *)

LEMMA ActsInit == AdminInit => OneActs
  BY DEF AdminInit, HooksInit, OneActs, Idle, At, Acting

\* A call that leaves what Graph has alone, and does not get past its list by this step.
LEMMA ActsQuiet ==
    ASSUME HooksTypeOK, OneActs, NEW c \in Calls, NEW new,
           call' = [call EXCEPT ![c] = new],
           new.step \notin Acting, subs' = subs, overlapped' = overlapped
    PROVE  OneActs'
  BY DEF HooksTypeOK, OneActs, Acting

LEMMA ActsStart ==
    ASSUME HooksTypeOK, OneActs, NEW c \in Calls, Start(c) PROVE OneActs'
  BY DEF HooksTypeOK, OneActs, Acting, Start

LEMMA ActsAnswered ==
    ASSUME HooksTypeOK, OneActs, NEW c \in Calls, Answered(c) PROVE OneActs'
  BY DEF HooksTypeOK, OneActs, Acting, Answered, Idle, At

LEMMA ActsList ==
    ASSUME HooksTypeOK, OneActs, NEW c \in Calls, GetInScopeSubscriptions(c) PROVE OneActs'
  <1> DEFINE new == call'[c]
  <1>1. CASE overlapped'
    BY <1>1 DEF OneActs
  <1>2. CASE ~overlapped'
    <2>1. ~overlapped /\ \A d \in Calls \ {c} : call[d].step \notin Acting
      BY <1>2 DEF GetInScopeSubscriptions
    <2>2. \A s, t \in subs : s = t
      BY <2>1 DEF OneActs
    <2>3. subs = {} \/ HaveValidSubscription(subs)
      BY <2>2, ShortList
    <2>4. /\ \A d \in Calls \ {c} : call'[d] = call[d]
          /\ new.step = IF HaveValidSubscription(subs) THEN "renew"
                        ELSE IF subs = {} THEN "add" ELSE "delete"
          /\ subs' = subs
      BY DEF GetInScopeSubscriptions, HooksTypeOK
    <2>5. new.step # "delete" /\ (new.step = "add" => subs = {})
      BY <2>3, <2>4
    <2> QED
      BY <2>1, <2>2, <2>4, <2>5 DEF OneActs, Acting
  <1> QED
    BY <1>1, <1>2

LEMMA ActsAdd == ASSUME HooksTypeOK, OneActs, NEW c \in Calls, Add(c) PROVE OneActs'
  <1>1. CASE overlapped
    BY <1>1 DEF OneActs, Add
  <1>2. CASE ~overlapped
    <2>1. subs = {}
      BY <1>2 DEF OneActs, Add
    <2>2. PICK s \in Fresh : subs' = {s}
      BY <2>1 DEF Add
    <2>3. /\ \A d \in Calls \ {c} : call'[d] = call[d] /\ call[d].step \notin Acting
          /\ call'[c].step = "done"
      BY <1>2 DEF OneActs, Add, HooksTypeOK, At, Acting
    <2> QED
      BY <2>2, <2>3 DEF OneActs, Acting
  <1> QED
    BY <1>1, <1>2

LEMMA ActsHook == ASSUME HooksTypeOK, OneActs, HookNext PROVE OneActs'
  <1>2. ASSUME NEW c \in Calls, Renew(c) PROVE OneActs'
    <2> DEFINE new == At(IF call[c].cache \subseteq subs THEN "done" ELSE "failed")
    <2>1. new.step \notin Acting
      BY DEF At, Acting
    <2>2. call' = [call EXCEPT ![c] = new] /\ subs' = subs /\ overlapped' = overlapped
      BY <1>2 DEF Renew
    <2> HIDE DEF new
    <2> QED
      BY <2>1, <2>2, ActsQuiet
  <1>3. ASSUME NEW c \in Calls, DeleteOne(c) PROVE OneActs'
    BY <1>3 DEF OneActs, DeleteOne
  <1>5. ASSUME NEW c \in Calls, Fault(c) PROVE OneActs'
    BY <1>5, ActsQuiet DEF Fault, At, Acting
  <1>6. ASSUME NEW s \in SubIds, Lapse(s) PROVE OneActs'
    BY <1>6 DEF OneActs, Lapse
  <1> QED
    BY ActsList, ActsAdd, <1>2, <1>3, <1>5, <1>6 DEF HookNext, CallStep

LEMMA ActsNext == ASSUME AdminInv, [AdminNext]_adminVars PROVE OneActs'
  <1> USE DEF AdminInv, AdminTypeOK
  <1>1. ASSUME HookNext PROVE OneActs'
    BY <1>1, ActsHook
  <1>2. ASSUME SubscriptionRefresh PROVE OneActs'
    BY <1>2, CallersAssumption, ActsStart, ActsAnswered DEF SubscriptionRefresh
  <1>3. ASSUME UNCHANGED hookVars PROVE OneActs'
    BY <1>3 DEF OneActs, hookVars
  <1>4. ASSUME NEW p \in Pages, CreateOrUpdateClick(p) PROVE OneActs'
    BY <1>4, ActsStart DEF CreateOrUpdateClick
  <1>5. ASSUME NEW p \in Pages, ClickAnswered(p) PROVE OneActs'
    BY <1>5, ActsAnswered DEF ClickAnswered
  <1>6. ASSUME NEW c \in Calls, Unheard(c) PROVE OneActs'
    BY <1>6, ActsAnswered DEF Unheard
  <1> QED
    BY <1>1, <1>2, <1>3, <1>4, <1>5, <1>6 DEF AdminNext, OpenPage, adminVars

LEMMA AdminInvariance == AdminSpec => []AdminInv
  <1>1. AdminInit => AdminInv
    BY AdminTypeInit, ActsInit DEF AdminInv
  <1>2. AdminInv /\ [AdminNext]_adminVars => AdminInv'
    BY AdminTypeNext, ActsNext DEF AdminInv
  <1> QED
    BY <1>1, <1>2, PTL DEF AdminSpec

(* Two subscriptions for one resource and URL come only from calls that      *)
(* overlapped, whatever failed or lapsed.                                    *)
THEOREM OneWithoutOverlap == AdminSpec => []DuplicatesNeedOverlap
  <1>1. AdminInv => DuplicatesNeedOverlap
    BY DEF AdminInv, OneActs, DuplicatesNeedOverlap
  <1> QED
    BY <1>1, AdminInvariance, PTL

(* Until calls overlap, the last subscription goes only when Graph takes it  *)
(* away: no call deletes it.                                                 *)
THEOREM NoGap == AdminSpec => NoGapUnlessOverlapped
  <1> DEFINE Kept == subs # {} /\ subs' = {} => overlapped \/ lapses' # lapses
  <1>1. AdminInv /\ [AdminNext]_adminVars => [Kept]_hookVars
    <2> SUFFICES ASSUME AdminInv, [AdminNext]_adminVars, subs # {}, subs' = {}, ~overlapped
                 PROVE  lapses' # lapses
      OBVIOUS
    <2>1. HookNext
      BY DEF AdminNext, SubscriptionRefresh, Start, Answered, OpenPage, CreateOrUpdateClick,
             ClickAnswered, Unheard, adminVars, hookVars
    <2>2. ASSUME NEW s \in SubIds, Lapse(s) PROVE lapses' # lapses
      BY <2>2 DEF Lapse, AdminInv, AdminTypeOK, HooksTypeOK
    <2>3. ASSUME NEW c \in Calls, DeleteOne(c) PROVE FALSE
      BY <2>3 DEF DeleteOne, AdminInv, OneActs
    <2>4. ASSUME NEW c \in Calls, Add(c) PROVE FALSE
      BY <2>4 DEF Add
    <2> QED
      BY <2>1, <2>2, <2>3, <2>4 DEF HookNext, CallStep, GetInScopeSubscriptions, Renew, Fault
  <1> QED
    BY <1>1, AdminInvariance, PTL DEF AdminSpec, NoGapUnlessOverlapped

=============================================================================
