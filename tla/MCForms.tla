-------------------------------- MODULE MCForms --------------------------------
(***************************************************************************)
(* Instances for TLC of four browser clients that change what a server has, *)
(* or find their way in it: Bookify's subscriptions page, the orchestrator's *)
(* script admin, the clinic's booking page, and the office dashboard.  Each *)
(* behaviour is one of them running; app says which.                        *)
(***************************************************************************)
EXTENDS SubscriptionsPage, ScriptAdmin, ClinicPage, OfficeDashboard, TLC

CONSTANTS Apps, DirA, DirB, x1, firstRead, firstFind

MCSeenAbroad == [s \in Slots |-> NoSlot]
MCParentOf == (Root :> Root) @@ (DirA :> Root) @@ (DirB :> DirA)

VARIABLE app

vars == <<subVars, adminViewVars, clinicVars, dashVars, app>>

\* What an idle program starts from makes no difference, nor which request is the first.
\* There is a script, and the clinic's day is free, or taken by a long appointment.
Init ==
    /\ app \in Apps
    /\ SubPageInit /\ ScriptsInit /\ ClinicInit /\ DashInit
    /\ store = {x1}
    /\ begun = {} /\ customers = 0
    /\ reads[firstRead] # NoRead /\ finds[firstFind] # NoFind
    /\ \/ booked = {} /\ cause = {}
       \/ app = "clinic" /\ booked = {} /\ cause = {"crowded", "abroad"}
       \/ app = "clinic" /\ booked = Slots /\ cause = {"long"}

Next ==
    /\ \/ app = "subs" /\ SubPageNext /\ UNCHANGED <<adminViewVars, clinicVars, dashVars>>
       \/ app = "scripts" /\ ScriptsNext /\ UNCHANGED <<subVars, clinicVars, dashVars>>
       \/ app = "clinic" /\ ClinicNext /\ UNCHANGED <<subVars, adminViewVars, dashVars>>
       \/ app = "dashboard" /\ DashNext /\ UNCHANGED <<subVars, adminViewVars, clinicVars>>
    /\ UNCHANGED app

\* The fairness of each program, while it is the one that runs.
Fair ==
    /\ \A g \in Loads : WF_subVars(app = "subs" /\ GetProgress(g))
    /\ \A d \in Dels : WF_subVars(app = "subs" /\ DeleteProgress(d))
    /\ WF_subVars(app = "subs" /\ PostProgress)
    /\ WF_adminViewVars(app = "scripts" /\ FetchProgress)
    /\ \A p \in Puts : WF_adminViewVars(app = "scripts" /\ PutProgress(p))
    /\ \A d \in Dumps : WF_adminViewVars(app = "scripts" /\ DumpProgress(d))
    /\ \A r \in Reads : WF_clinicVars(app = "clinic" /\ AppointmentsProgress(r))
    /\ \A b \in Books : WF_clinicVars(app = "clinic" /\ BookProgress(b))
    /\ WF_dashVars(app = "dashboard" /\ EmailSettles)
    /\ \A g \in Gets : WF_dashVars(app = "dashboard" /\ OpenProgress(g))

Spec == Init /\ [][Next]_vars /\ Fair

(* The type invariants of the four programs.                                 *)
FormsTypeOK == SubPageTypeOK /\ ScriptsTypeOK /\ ClinicTypeOK /\ DashTypeOK

(* Every form and every list comes to rest, whatever overlapped or failed    *)
(* (SubPageSettles, ScriptsSettle, ClinicSettles, DashSettles).              *)
FormsSettle ==
    /\ app = "subs" => SubPageSettles
    /\ app = "scripts" => ScriptsSettle
    /\ app = "clinic" => ClinicSettles
    /\ app = "dashboard" => DashSettles

=============================================================================
