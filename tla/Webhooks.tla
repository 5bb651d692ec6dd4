------------------------------- MODULE Webhooks -------------------------------
(***************************************************************************)
(* Graph change subscriptions and the manager that keeps exactly one of     *)
(* them for a resource and a webhook URL.  SPOAzBlob and Bookify hold the   *)
(* same manager (Bookify's is the base class of its calendar manager): it   *)
(* lists the subscriptions once and keeps the list; when there is one it    *)
(* renews it, otherwise it deletes what the list holds and creates one.     *)
(*                                                                         *)
(* A call is one run of CreateOrUpdateSubscription, on a manager of its     *)
(* own; each request to Graph is one step.  Graph may take a subscription   *)
(* away (Lapse), and a request may fail or its host stop (Fault): the call  *)
(* then ends where it is, and nothing it did before is undone.              *)
(***************************************************************************)
EXTENDS Naturals

CONSTANTS
    Calls,      \* calls of CreateOrUpdateSubscription that may run at once
    SubIds,     \* ids Graph gives to subscriptions
    MaxFaults,  \* bound: calls that fail
    MaxLapses   \* bound: subscriptions Graph takes away

ASSUME HooksAssumption == MaxFaults \in Nat /\ MaxLapses \in Nat

VARIABLES
    subs,        \* Graph's subscriptions for the resource and URL
    call,        \* the step a call is at, and what is left of its list
    overlapped,  \* history: a call listed while another was past its list
    faults, lapses

hookVars == <<subs, call, overlapped, faults, lapses>>

Acting == {"renew", "delete", "add"}
At(step) == [step |-> step, cache |-> {}]
Idle == At("idle")

HooksTypeOK ==
    /\ subs \in SUBSET SubIds
    /\ call \in [Calls -> [step : {"idle", "list", "done", "failed"} \cup Acting,
                       cache : SUBSET SubIds]]
    /\ overlapped \in BOOLEAN
    /\ faults \in 0 .. MaxFaults
    /\ lapses \in 0 .. MaxLapses

HooksInit ==
    /\ subs = {}
    /\ call = [c \in Calls |-> Idle]
    /\ overlapped = FALSE
    /\ faults = 0
    /\ lapses = 0

-----------------------------------------------------------------------------

\* A plausible bug: any subscription is good enough.
HaveSomeSubscription(list) == list # {}
\* A plausible bug: none is ever good enough.
HaveNoSubscription(list) == FALSE

\* HaveValidSubscription: the list holds exactly one.
HaveValidSubscription(list) == \E s \in list : list = {s}

\* Ids nobody has seen: Graph never gives an id twice.
Fresh == SubIds \ (subs \cup UNION {call[c].cache : c \in Calls})

Start(c) ==
    /\ call[c] = Idle
    /\ call' = [call EXCEPT ![c].step = "list"]
    /\ UNCHANGED <<subs, overlapped, faults, lapses>>

\* A plausible bug: the list is not looked at, and a subscription is always created.
CreateAlways(c) ==
    /\ call[c].step = "list"
    /\ call' = [call EXCEPT ![c] = [cache |-> subs, step |-> "add"]]
    /\ overlapped' = (overlapped \/ \E d \in Calls \ {c} : call[d].step \in Acting)
    /\ UNCHANGED <<subs, faults, lapses>>

\* The one list of this call; every later look at the subscriptions is at this copy.
GetInScopeSubscriptions(c) ==
    /\ call[c].step = "list"
    /\ call' = [call EXCEPT ![c] =
          [cache |-> subs,
           step |-> IF HaveValidSubscription(subs) THEN "renew"
                    ELSE IF subs = {} THEN "add" ELSE "delete"]]
    /\ overlapped' = (overlapped \/ \E d \in Calls \ {c} : call[d].step \in Acting)
    /\ UNCHANGED <<subs, faults, lapses>>

\* Renews the one subscription of the list; when it is gone by now Graph answers
\* 404 and the call ends with that exception.
Renew(c) ==
    /\ call[c].step = "renew"
    /\ call' = [call EXCEPT ![c] = At(IF call[c].cache \subseteq subs THEN "done" ELSE "failed")]
    /\ UNCHANGED <<subs, overlapped, faults, lapses>>

\* DeleteWebhooks, one subscription of the list: one that is gone by now ends the call.
DeleteOne(c) ==
    /\ call[c].step = "delete"
    /\ \E s \in call[c].cache :
         LET left == call[c].cache \ {s} IN
         /\ subs' = subs \ {s}
         /\ call' = [call EXCEPT ![c] =
               IF s \notin subs THEN At("failed")
               ELSE [cache |-> left, step |-> IF left = {} THEN "add" ELSE "delete"]]
    /\ UNCHANGED <<overlapped, faults, lapses>>

Add(c) ==
    /\ call[c].step = "add"
    /\ \E s \in Fresh : subs' = subs \cup {s}
    /\ call' = [call EXCEPT ![c] = At("done")]
    /\ UNCHANGED <<overlapped, faults, lapses>>

Fault(c) ==
    /\ faults < MaxFaults
    /\ call[c].step \in {"list"} \cup Acting
    /\ call' = [call EXCEPT ![c] = At("failed")]
    /\ faults' = faults + 1
    /\ UNCHANGED <<subs, overlapped, lapses>>

\* Whoever made the call has its answer, or gave up waiting for it.
Answered(c) ==
    /\ call[c].step \in {"done", "failed"}
    /\ call' = [call EXCEPT ![c] = Idle]
    /\ UNCHANGED <<subs, overlapped, faults, lapses>>

Lapse(s) ==
    /\ lapses < MaxLapses
    /\ s \in subs
    /\ subs' = subs \ {s}
    /\ lapses' = lapses + 1
    /\ UNCHANGED <<call, overlapped, faults>>

\* The steps that a call in progress takes by itself.
CallStep(c) == GetInScopeSubscriptions(c) \/ Renew(c) \/ DeleteOne(c) \/ Add(c)

HookNext ==
    \/ \E c \in Calls : CallStep(c) \/ Fault(c)
    \/ \E s \in SubIds : Lapse(s)

-----------------------------------------------------------------------------

(* Two subscriptions for one resource and URL (every change then notified    *)
(* twice) come only from calls that overlapped: a call run alone sees every  *)
(* subscription there is, whatever failed or lapsed before it.               *)
DuplicatesNeedOverlap == overlapped \/ \A s, t \in subs : s = t

(* Deleting first leaves a gap in which no change is notified.  A working    *)
(* subscription falls into it only after calls that overlapped: otherwise    *)
(* the last subscription goes only when Graph takes it away.                 *)
NoGapUnlessOverlapped ==
    [][subs # {} /\ subs' = {} => overlapped \/ lapses' # lapses]_hookVars

=============================================================================
