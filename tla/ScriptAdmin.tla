----------------------------- MODULE ScriptAdmin -----------------------------
(***************************************************************************)
(* MeetingOrchestrator: the admin client's list and editor of speech        *)
(* scripts, over the scripts controller and its blob storage.  The client   *)
(* shows one view at a time, and each view is mounted anew when it is shown *)
(* again.  Leaving a view drops what it was loading; a save or a deletion   *)
(* it sent goes on, and so does what follows the save in handleSubmit.      *)
(*                                                                         *)
(* Of a script only its text is told apart: the paragraphs a user may have  *)
(* typed, or blank as the editor starts out.                                *)
(***************************************************************************)
EXTENDS Naturals

CONSTANTS
    Scripts,    \* ids a script may get
    NoScript,   \* also the id the editor has for a new script
    Texts, Blank,
    Puts,       \* saves that may be under way at once
    Dumps,      \* deletions that may be under way at once
    MaxActs     \* bound: clicks that change the view, save or delete

ASSUME ScriptsAssumption ==
    NoScript \notin Scripts /\ Blank \notin Texts /\ MaxActs \in Nat

VARIABLES
    store,      \* the scripts in blob storage
    text,       \* the text of each, last known when it is gone
    view, editing,
    scriptRows,       \* ScriptList: scripts
    fetch,      \* the GET of the view: getScripts or getScript
    form,       \* ScriptEditor: what its fields hold
    saving,
    put,        \* POST and PUT requests
    dump,       \* DELETE requests
    acts,
    \* history
    deleted,    \* scripts whose deletion was carried out
    torn,       \* of these, the ones deleted while an update had looked them up
    wanted,     \* the text last submitted for each script
    unsure,     \* scripts with a save that failed, or that overlapped another
    loaded,     \* the editor's fields came from the script it edits
    blind,      \* scripts saved empty from an editor that had not loaded them
    emptied,    \* scripts whose paragraphs the user emptied, or that were made empty
    abandoned   \* a save was left under way

adminViewVars == <<store, text, view, editing, scriptRows, fetch, form, saving, put, dump, acts,
                   deleted, torn, wanted, unsure, loaded, blind, emptied, abandoned>>

NoFetch == [stage |-> "none", ids |-> {}, text |-> Blank]
NoPut == [stage |-> "none", id |-> NoScript, text |-> Blank, alive |-> FALSE]
NoDump == [stage |-> "none", id |-> NoScript, alive |-> FALSE]
AnyText == Texts \cup {Blank}
AnyScript == Scripts \cup {NoScript}
Answers == {"none", "sent", "ok", "error"}

ScriptsTypeOK ==
    /\ {store, scriptRows, deleted, torn, unsure, blind, emptied} \subseteq SUBSET Scripts
    /\ {text, wanted} \subseteq [Scripts -> AnyText]
    /\ view \in {"list", "editor", "bot"} /\ editing \in AnyScript
    /\ fetch \in [stage : Answers, ids : SUBSET Scripts, text : AnyText]
    /\ form \in AnyText
    /\ put \in [Puts -> [stage : Answers \cup {"found"}, id : AnyScript, text : AnyText,
                         alive : BOOLEAN]]
    /\ dump \in [Dumps -> [stage : Answers, id : AnyScript, alive : BOOLEAN]]
    /\ acts \in 0 .. MaxActs
    /\ {saving, loaded, abandoned} \subseteq BOOLEAN

\* Any scripts, none of them blank; the client opens on the list.
ScriptsInit ==
    /\ store \in SUBSET Scripts
    /\ \E t \in Texts : text = [s \in Scripts |-> t]
    /\ view = "list" /\ editing = NoScript
    /\ scriptRows = {} /\ fetch = [NoFetch EXCEPT !.stage = "sent"]
    /\ form = Blank /\ saving = FALSE
    /\ put = [p \in Puts |-> NoPut] /\ dump = [d \in Dumps |-> NoDump]
    /\ acts = 0
    /\ deleted = {} /\ torn = {} /\ wanted = text /\ unsure = {}
    /\ loaded = FALSE /\ blind = {} /\ emptied = {} /\ abandoned = FALSE

-----------------------------------------------------------------------------

storeVars == <<store, text>>
Act == acts < MaxActs /\ acts' = acts + 1

\* Another view: it starts from its initial state, and loads when it has something to
\* load.  What the view before had sent is left to itself.
Show(next, id) ==
    /\ view' = next
    /\ editing' = id
    /\ scriptRows' = {} /\ form' = Blank /\ saving' = FALSE /\ loaded' = FALSE
    /\ fetch' = IF next = "list" \/ id # NoScript THEN [NoFetch EXCEPT !.stage = "sent"]
                                                  ELSE NoFetch
    /\ dump' = [d \in Dumps |-> [dump[d] EXCEPT !.alive = FALSE]]

\* A click that changes the view while nothing is shown to be busy, or although it is.
Leave(next, id) ==
    /\ Act
    /\ Show(next, id)
    /\ put' = [p \in Puts |-> [put[p] EXCEPT !.alive = FALSE]]
    /\ abandoned' = (abandoned \/ saving)
    /\ UNCHANGED <<storeVars, deleted, torn, wanted, unsure, blind, emptied>>

onNew == view = "list" /\ Leave("editor", NoScript)
onEdit(s) == view = "list" /\ s \in scriptRows /\ Leave("editor", s)
goToList == view # "list" /\ Leave("list", NoScript)
BotView == view # "bot" /\ Leave("bot", NoScript)

\* GetAll and GetById; a script that is gone is an error, like any other fault.
ServeFetch ==
    /\ fetch.stage = "sent"
    /\ \/ /\ view = "list" /\ fetch' = [fetch EXCEPT !.stage = "ok", !.ids = store]
       \/ /\ view = "editor" /\ editing \in store
          /\ fetch' = [fetch EXCEPT !.stage = "ok", !.text = text[editing]]
       \/ fetch' = [fetch EXCEPT !.stage = "error"]
    /\ UNCHANGED <<storeVars, view, editing, scriptRows, form, saving, put, dump, acts, deleted,
                   torn, wanted, unsure, loaded, blind, emptied, abandoned>>

\* The list's rows, or the editor's fields over whatever was typed; the editor does
\* nothing about an error.
FetchSettles ==
    /\ fetch.stage \in {"ok", "error"}
    /\ fetch' = NoFetch
    /\ scriptRows' = IF fetch.stage = "ok" /\ view = "list" THEN fetch.ids ELSE scriptRows
    /\ form' = IF fetch.stage = "ok" /\ view = "editor" THEN fetch.text ELSE form
    /\ loaded' = (loaded \/ (fetch.stage = "ok" /\ view = "editor"))
    /\ UNCHANGED <<storeVars, view, editing, saving, put, dump, acts, deleted, torn, wanted,
                   unsure, blind, emptied, abandoned>>

\* Paragraphs are typed, or all of them removed or cleared.
Type(t) ==
    /\ view = "editor"
    /\ form' = t
    /\ emptied' = IF t = Blank THEN emptied \cup ({editing} \cap Scripts) ELSE emptied
    /\ UNCHANGED <<storeVars, view, editing, scriptRows, fetch, saving, put, dump, acts, deleted,
                   torn, wanted, unsure, loaded, blind, abandoned>>

SavesOf(s) == {p \in Puts : put[p].id = s /\ put[p].stage # "none"}

handleSubmit ==
    /\ view = "editor" /\ ~saving /\ Act
    /\ saving' = TRUE
    /\ \E p \in Puts :
         /\ put[p] = NoPut
         /\ put' = [put EXCEPT ![p] = [stage |-> "sent", id |-> editing, text |-> form,
                                       alive |-> TRUE]]
    /\ wanted' = IF editing = NoScript THEN wanted ELSE [wanted EXCEPT ![editing] = form]
    /\ unsure' = IF SavesOf(editing) = {} THEN unsure ELSE unsure \cup ({editing} \cap Scripts)
    /\ blind' = IF loaded \/ form # Blank THEN blind ELSE blind \cup ({editing} \cap Scripts)
    /\ UNCHANGED <<storeVars, view, editing, scriptRows, form, fetch, dump, deleted, torn, loaded,
                   emptied, abandoned>>

\* A plausible bug: whether the script is there is not looked at.
LookUpNothing(p) ==
    /\ put[p].stage = "sent" /\ put[p].id # NoScript
    /\ put' = [put EXCEPT ![p].stage = "found"]
    /\ UNCHANGED <<storeVars, view, editing, scriptRows, form, saving, fetch, dump, acts,
                   deleted, torn, wanted, unsure, loaded, blind, emptied, abandoned>>

\* Update, first half: 404 when there is no such script.
LookUp(p) ==
    /\ put[p].stage = "sent" /\ put[p].id # NoScript
    /\ put' = [put EXCEPT ![p].stage = IF put[p].id \in store THEN "found" ELSE "error"]
    /\ UNCHANGED <<storeVars, view, editing, scriptRows, form, saving, fetch, dump, acts, deleted,
                   torn, wanted, unsure, loaded, blind, emptied, abandoned>>

\* A plausible bug: the upload does not overwrite.
Insert(p) ==
    /\ put[p].stage = IF put[p].id = NoScript THEN "sent" ELSE "found"
    /\ \E s \in IF put[p].id = NoScript THEN Scripts \ (store \cup deleted) ELSE {put[p].id} :
         /\ store' = store \cup {s}
         /\ text' = IF s \in store THEN text ELSE [text EXCEPT ![s] = put[p].text]
         /\ wanted' = [wanted EXCEPT ![s] = IF put[p].id = NoScript THEN put[p].text ELSE @]
    /\ put' = [put EXCEPT ![p].stage = "ok"]
    /\ UNCHANGED <<view, editing, scriptRows, form, saving, fetch, dump, acts, deleted, torn,
                   unsure, loaded, blind, emptied, abandoned>>

\* Create, or the second half of Update: the upload replaces what there is, or is not.
Upsert(p) ==
    /\ put[p].stage = IF put[p].id = NoScript THEN "sent" ELSE "found"
    /\ \E s \in IF put[p].id = NoScript THEN Scripts \ (store \cup deleted) ELSE {put[p].id} :
         /\ store' = store \cup {s}
         /\ text' = [text EXCEPT ![s] = put[p].text]
         /\ wanted' = [wanted EXCEPT ![s] = IF put[p].id = NoScript THEN put[p].text ELSE @]
         /\ emptied' = IF put[p].id = NoScript /\ put[p].text = Blank
                       THEN emptied \cup {s} ELSE emptied
    /\ \E answer \in {"ok", "error"} : put' = [put EXCEPT ![p].stage = answer]
    /\ UNCHANGED <<view, editing, scriptRows, form, saving, fetch, dump, acts, deleted, torn,
                   unsure, loaded, blind, abandoned>>

PutFails(p) ==
    /\ put[p].stage \in {"sent", "found"}
    /\ put' = [put EXCEPT ![p].stage = "error"]
    /\ UNCHANGED <<storeVars, view, editing, scriptRows, form, saving, fetch, dump, acts, deleted,
                   torn, wanted, unsure, loaded, blind, emptied, abandoned>>

\* A plausible bug: a failure empties the form.
PutClears(p) ==
    /\ put[p].stage = "error"
    /\ saving' = FALSE /\ form' = Blank
    /\ put' = [put EXCEPT ![p] = NoPut]
    /\ unsure' = unsure \cup ({put[p].id} \cap Scripts)
    /\ UNCHANGED <<storeVars, view, editing, scriptRows, fetch, dump, loaded, abandoned, acts,
                   deleted, torn, wanted, blind, emptied>>

\* A plausible bug: a failure goes to the list as well.
PutLeaves(p) ==
    /\ put[p].stage \in {"ok", "error"}
    /\ Show("list", NoScript)
    /\ put' = [put EXCEPT ![p] = NoPut]
    /\ UNCHANGED <<storeVars, acts, deleted, torn, wanted, blind, emptied, unsure, abandoned>>

\* A plausible bug: a failure leaves the form saving.
PutStays(p) ==
    /\ put[p].stage = "error"
    /\ put' = [put EXCEPT ![p] = NoPut]
    /\ UNCHANGED <<storeVars, view, editing, scriptRows, form, saving, fetch, dump, loaded,
                   abandoned, acts, deleted, torn, wanted, blind, emptied, unsure>>

\* A success goes to the list, whatever is shown by now (goToList is the client's, and
\* outlives the editor); a failure is shown by the editor, if that is still there.
PutSettles(p) ==
    /\ \/ /\ put[p].stage = "ok"
          /\ IF view = "list"
             THEN UNCHANGED <<view, editing, scriptRows, form, saving, fetch, dump, loaded>>
             ELSE Show("list", NoScript)
          /\ put' = [q \in Puts |-> IF q = p THEN NoPut ELSE [put[q] EXCEPT !.alive = FALSE]]
          /\ abandoned' = (abandoned \/ (saving /\ ~put[p].alive))
          /\ UNCHANGED unsure
       \/ /\ put[p].stage = "error"
          /\ saving' = (saving /\ ~put[p].alive)
          /\ put' = [put EXCEPT ![p] = NoPut]
          /\ unsure' = unsure \cup ({put[p].id} \cap Scripts)
          /\ UNCHANGED <<view, editing, scriptRows, form, fetch, dump, loaded, abandoned>>
    /\ UNCHANGED <<storeVars, acts, deleted, torn, wanted, blind, emptied>>

\* Nothing disables the button meanwhile.
handleDelete(s) ==
    /\ view = "list" /\ s \in scriptRows /\ Act
    /\ \E d \in Dumps :
         /\ dump[d] = NoDump
         /\ dump' = [dump EXCEPT ![d] = [stage |-> "sent", id |-> s, alive |-> TRUE]]
    /\ UNCHANGED <<storeVars, view, editing, scriptRows, form, saving, fetch, put, deleted, torn,
                   wanted, unsure, loaded, blind, emptied, abandoned>>

Delete(d) ==
    LET s == dump[d].id
        remove == /\ store' = store \ {s}
                  /\ deleted' = deleted \cup {s}
                  /\ torn' = IF \E p \in SavesOf(s) : put[p].stage = "found"
                             THEN torn \cup {s} ELSE torn
    IN
    /\ dump[d].stage = "sent"
    /\ \/ s \in store /\ remove /\ dump' = [dump EXCEPT ![d].stage = "ok"]
       \/ /\ (s \in store /\ remove) \/ UNCHANGED <<store, deleted, torn>>
          /\ dump' = [dump EXCEPT ![d].stage = "error"]
    /\ UNCHANGED <<text, view, editing, scriptRows, form, saving, fetch, put, acts, wanted, unsure,
                   loaded, blind, emptied, abandoned>>

\* The row goes, if the list that showed it is still there.
DumpSettles(d) ==
    /\ dump[d].stage \in {"ok", "error"}
    /\ dump' = [dump EXCEPT ![d] = NoDump]
    /\ scriptRows' = IF dump[d].stage = "ok" /\ dump[d].alive
                   THEN scriptRows \ {dump[d].id} ELSE scriptRows
    /\ UNCHANGED <<storeVars, view, editing, form, saving, fetch, put, acts, deleted, torn,
                   wanted, unsure, loaded, blind, emptied, abandoned>>

FetchProgress == ServeFetch \/ FetchSettles
PutProgress(p) == LookUp(p) \/ Upsert(p) \/ PutFails(p) \/ PutSettles(p)
DumpProgress(d) == Delete(d) \/ DumpSettles(d)

ScriptsNext ==
    \/ onNew \/ goToList \/ BotView \/ handleSubmit \/ FetchProgress
    \/ \E s \in Scripts : onEdit(s) \/ handleDelete(s)
    \/ \E t \in AnyText : Type(t)
    \/ \E p \in Puts : PutProgress(p)
    \/ \E d \in Dumps : DumpProgress(d)

\* Every request is served or refused, and every answer handled; the user need not act.
ScriptsFair ==
    /\ WF_adminViewVars(FetchProgress)
    /\ \A p \in Puts : WF_adminViewVars(PutProgress(p))
    /\ \A d \in Dumps : WF_adminViewVars(DumpProgress(d))

ScriptsSpec == ScriptsInit /\ [][ScriptsNext]_adminViewVars /\ ScriptsFair

-----------------------------------------------------------------------------

(* A script that was deleted exists again only when it was deleted between   *)
(* the two halves of an update: Update looks the script up, and its upload   *)
(* would also create it.                                                     *)
DeletedComesBackOnlyIfTorn == deleted \cap store \subseteq torn

(* What is stored is what was submitted last, unless a save of the script    *)
(* failed or two of them overlapped: a save that was left (Cancel and the    *)
(* navigation do not stop it) may be carried out after a later one.          *)
LastSubmittedIsStored ==
    \A s \in store \ unsure : SavesOf(s) = {} => text[s] = wanted[s]

(* The paragraphs of a script are wiped only when its user emptied them, or   *)
(* by a save from an editor that never got to show it: the load had not      *)
(* come, or had failed without a word, and the form then holds its empty     *)
(* defaults.                                                                 *)
WipedByChoiceOrBlindly ==
    [][\A s \in store : text[s] # Blank /\ text'[s] = Blank => s \in emptied \cup blind
      ]_adminViewVars

(* The client leaves the editor, or the bot's view, by itself only for a     *)
(* save of that very editor, unless an earlier save was left under way: its  *)
(* success leaves whatever is shown by then, and what was typed there is     *)
(* lost.                                                                     *)
LeavesOnlyItsEditor ==
    [][view # "list" /\ view' = "list" =>
          goToList \/ abandoned \/ \E p \in Puts : put[p].alive /\ put[p].stage = "ok"
      ]_adminViewVars

(* Once the user clicks no more, loading and saving end, whatever failed.    *)
ScriptsSettle == <>[](fetch = NoFetch /\ ~saving)

=============================================================================
