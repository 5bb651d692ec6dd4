---------------------------- MODULE ScriptAdmin_proofs ----------------------------
(***************************************************************************)
(* Proofs about the admin client of the speech scripts, for every set of    *)
(* scripts, texts and requests.                                             *)
(***************************************************************************)
EXTENDS ScriptAdmin, TLAPS

PutRecords == [stage : Answers \cup {"found"}, id : AnyScript, text : AnyText, alive : BOOLEAN]
DumpRecords == [stage : Answers, id : AnyScript, alive : BOOLEAN]
FetchRecords == [stage : Answers, ids : SUBSET Scripts, text : AnyText]

\* What makes DeletedComesBackOnlyIfTorn inductive: an update that has found its script, and
\* would create it again, knows of the deletion.
FoundIsTorn ==
    /\ deleted \cap store \subseteq torn
    /\ \A p \in Puts : put[p].stage = "found" /\ put[p].id \in deleted => put[p].id \in torn

\* What makes WipedByChoiceOrBlindly inductive: what is blank anywhere, and could be saved
\* over a script, is of a script that was emptied, or saved blindly.
Excused == emptied \cup blind
BlankPut(p) == put[p].stage # "none" /\ put[p].text = Blank
BlanksExcused ==
    /\ \A s \in store : text[s] = Blank => s \in Excused
    /\ fetch.stage = "ok" /\ view = "editor" /\ fetch.text = Blank => editing \in Excused
    /\ loaded /\ form = Blank => editing \in Excused
    /\ loaded \/ (fetch.stage = "ok" /\ view = "editor") => editing \in Scripts
    /\ \A p \in Puts : BlankPut(p) => put[p].id \in Excused \cup {NoScript}

\* What makes LeavesOnlyItsEditor inductive: a save whose editor is gone was abandoned, and
\* an editor has one save at most.
SavesOfEditor ==
    /\ \A p \in Puts : put[p].stage # "none" /\ ~put[p].alive => abandoned
    /\ \A p, q \in Puts : put[p].alive /\ put[q].alive => p = q
    /\ \A p \in Puts : put[p].alive => saving
    /\ saving => view = "editor"

\* Nobody knows of a script before it is made.
Known == store \cup deleted
OnlyKnown ==
    /\ scriptRows \subseteq Known /\ fetch.ids \subseteq Known
    /\ editing \in Known \cup {NoScript}
    /\ \A p \in Puts : put[p].id \in Known \cup {NoScript}

\* What makes LastSubmittedIsStored inductive: a script nobody is unsure of has one save at
\* most, and that save holds what was submitted last.
Saves(p, s) == put[p].id = s /\ put[p].stage # "none"
HoldsWanted(p, s) ==
    /\ put[p].text = wanted[s]
    /\ put[p].stage = "ok" /\ s \in store => text[s] = wanted[s]
    /\ \A q \in Puts : Saves(q, s) => q = p
SavedOrSaving(s) ==
    /\ (\A p \in Puts : ~Saves(p, s)) /\ s \in store => text[s] = wanted[s]
    /\ \A p \in Puts : Saves(p, s) => HoldsWanted(p, s)
AllSaved == \A s \in Scripts \ unsure : SavedOrSaving(s)

ScriptsInv == /\ ScriptsTypeOK /\ FoundIsTorn /\ BlanksExcused /\ SavesOfEditor
        /\ OnlyKnown /\ AllSaved

-----------------------------------------------------------------------------
(* Type correctness.                                                        *)

\* The same, one variable at a time, before and after a step.
TypeParts ==
    /\ store \subseteq Scripts /\ scriptRows \subseteq Scripts /\ deleted \subseteq Scripts
    /\ torn \subseteq Scripts /\ unsure \subseteq Scripts
    /\ blind \subseteq Scripts /\ emptied \subseteq Scripts
    /\ text \in [Scripts -> AnyText] /\ wanted \in [Scripts -> AnyText]
    /\ view \in {"list", "editor", "bot"} /\ editing \in AnyScript
    /\ fetch \in FetchRecords /\ form \in AnyText
    /\ put \in [Puts -> PutRecords] /\ dump \in [Dumps -> DumpRecords]
    /\ acts \in 0 .. MaxActs
    /\ saving \in BOOLEAN /\ loaded \in BOOLEAN /\ abandoned \in BOOLEAN

LEMMA ScriptsTypes == (ScriptsTypeOK <=> TypeParts) /\ (ScriptsTypeOK' <=> TypeParts')
  BY DEF ScriptsTypeOK, TypeParts, FetchRecords, PutRecords, DumpRecords

LEMMA ScriptsNothing ==
    /\ NoFetch \in FetchRecords /\ [NoFetch EXCEPT !.stage = "sent"] \in FetchRecords
    /\ NoPut \in PutRecords /\ NoDump \in DumpRecords
    /\ NoPut.stage = "none" /\ NoPut.alive = FALSE
    /\ NoFetch.stage = "none" /\ [NoFetch EXCEPT !.stage = "sent"].stage = "sent"
  BY DEF NoFetch, NoPut, NoDump, FetchRecords, PutRecords, DumpRecords, Answers, AnyText,
         AnyScript

LEMMA ScriptsTypeInit == ScriptsInit => ScriptsTypeOK
  <1> SUFFICES ASSUME ScriptsInit PROVE ScriptsTypeOK
    OBVIOUS
  <1> USE DEF ScriptsInit
  <1>1. text \in [Scripts -> AnyText] /\ wanted \in [Scripts -> AnyText]
    BY DEF AnyText
  <1>2. put \in [Puts -> PutRecords] /\ dump \in [Dumps -> DumpRecords] /\ fetch \in FetchRecords
    BY ScriptsNothing
  <1>3. acts \in 0 .. MaxActs
    BY ScriptsAssumption
  <1> QED
    BY <1>1, <1>2, <1>3, ScriptsTypes DEF TypeParts, AnyText, AnyScript

\* A save whose editor goes keeps all else of itself.
LEMMA PutsLeft ==
    ASSUME put \in [Puts -> PutRecords],
           put' = [p \in Puts |-> [put[p] EXCEPT !.alive = FALSE]]
    PROVE  /\ put' \in [Puts -> PutRecords]
           /\ \A p \in Puts : /\ ~put'[p].alive
                              /\ put'[p].stage = put[p].stage /\ put'[p].id = put[p].id
                              /\ put'[p].text = put[p].text
  BY DEF PutRecords

\* The same after a success, which is no longer under way.
LEMMA PutsSettled ==
    ASSUME put \in [Puts -> PutRecords], NEW p \in Puts, PutSettles(p), put[p].stage = "ok"
    PROVE  /\ put' \in [Puts -> PutRecords]
           /\ put'[p] = NoPut
           /\ \A q \in Puts \ {p} :
                 /\ ~put'[q].alive
                 /\ put'[q].stage = put[q].stage /\ put'[q].id = put[q].id
                 /\ put'[q].text = put[q].text
  <1> DEFINE quiet(q) == [put[q] EXCEPT !.alive = FALSE]
  <1>1. \A q \in Puts : /\ quiet(q) \in PutRecords /\ ~quiet(q).alive
                       /\ quiet(q).stage = put[q].stage /\ quiet(q).id = put[q].id
                       /\ quiet(q).text = put[q].text
    BY DEF PutRecords
  <1>2. put' = [q \in Puts |-> IF q = p THEN NoPut ELSE quiet(q)]
    BY DEF PutSettles
  <1> QED
    BY <1>1, <1>2, ScriptsNothing

\* Another view is of its types, and starts with nothing in it.
LEMMA TypeShow ==
    ASSUME ScriptsTypeOK, NEW next \in {"list", "editor", "bot"}, NEW id \in AnyScript,
           Show(next, id)
    PROVE  /\ view' = next /\ editing' \in AnyScript /\ scriptRows' = {}
           /\ form' \in AnyText /\ saving' = FALSE /\ loaded' = FALSE
           /\ fetch' \in FetchRecords /\ fetch'.stage \in {"none", "sent"}
           /\ dump' \in [Dumps -> DumpRecords]
  <1>1. dump' \in [Dumps -> DumpRecords]
    BY ScriptsTypes DEF TypeParts, Show, DumpRecords
  <1> QED
    BY <1>1, ScriptsNothing DEF Show, AnyText

LEMMA TypeAct ==
    ASSUME acts \in 0 .. MaxActs, Act PROVE acts' \in 0 .. MaxActs
  BY ScriptsAssumption DEF Act

LEMMA TypeLeave ==
    ASSUME ScriptsTypeOK, NEW next \in {"list", "editor", "bot"}, NEW id \in AnyScript,
           Leave(next, id)
    PROVE  ScriptsTypeOK'
  <1>1. Show(next, id)
    BY DEF Leave
  <1>2. put' \in [Puts -> PutRecords] /\ acts' \in 0 .. MaxActs
    BY PutsLeft, TypeAct, ScriptsTypes DEF TypeParts, Leave
  <1> QED
    BY <1>1, <1>2, TypeShow, ScriptsTypes DEF TypeParts, Leave, storeVars

\* Each click that changes the view.
Leaves ==
    \E next \in {"list", "editor", "bot"}, id \in AnyScript :
        /\ Leave(next, id)
        /\ next = "list" => goToList
        /\ id \in scriptRows \cup {NoScript}

LEMMA WhoLeaves ==
    ASSUME ScriptsTypeOK, onNew \/ goToList \/ BotView \/ \E s \in Scripts : onEdit(s)
    PROVE  Leaves
  <1>1. NoScript \in AnyScript /\ Scripts \subseteq AnyScript
    BY DEF AnyScript
  <1>2. ASSUME NEW next \in {"list", "editor", "bot"}, NEW id \in AnyScript,
               Leave(next, id), next = "list" => goToList, id \in scriptRows \cup {NoScript}
        PROVE  Leaves
    BY <1>2 DEF Leaves
  <1>3. CASE onNew
    BY <1>1, <1>2, <1>3 DEF onNew
  <1>4. CASE goToList
    BY <1>1, <1>2, <1>4 DEF goToList
  <1>5. CASE BotView
    BY <1>1, <1>2, <1>5 DEF BotView
  <1>6. ASSUME NEW s \in Scripts, onEdit(s) PROVE Leaves
    BY <1>1, <1>2, <1>6 DEF onEdit
  <1> QED
    BY <1>3, <1>4, <1>5, <1>6

LEMMA TypeFetch ==
    ASSUME ScriptsTypeOK, FetchProgress PROVE ScriptsTypeOK'
  <1>1. CASE ServeFetch
    <2>1. fetch' \in FetchRecords
      BY <1>1, ScriptsTypes DEF TypeParts, ServeFetch, FetchRecords, Answers
    <2> QED
      BY <1>1, <2>1, ScriptsTypes DEF TypeParts, ServeFetch, storeVars
  <1>2. CASE FetchSettles
    <2>1. scriptRows' \subseteq Scripts /\ form' \in AnyText /\ loaded' \in BOOLEAN
      BY <1>2, ScriptsTypes DEF TypeParts, FetchSettles, FetchRecords
    <2> QED
      BY <1>2, <2>1, ScriptsTypes, ScriptsNothing DEF TypeParts, FetchSettles, storeVars
  <1> QED
    BY <1>1, <1>2 DEF FetchProgress

LEMMA TypeType ==
    ASSUME ScriptsTypeOK, NEW t \in AnyText, Type(t) PROVE ScriptsTypeOK'
  BY ScriptsTypes DEF TypeParts, Type, storeVars

\* The request that handleSubmit sends.
LEMMA Submits ==
    ASSUME ScriptsTypeOK, handleSubmit
    PROVE  \E p \in Puts :
              /\ put[p] = NoPut
              /\ put' \in [Puts -> PutRecords]
              /\ put'[p] = [stage |-> "sent", id |-> editing, text |-> form, alive |-> TRUE]
              /\ \A q \in Puts \ {p} : put'[q] = put[q]
  <1>1. PICK p \in Puts :
            /\ put[p] = NoPut
            /\ put' = [put EXCEPT ![p] = [stage |-> "sent", id |-> editing, text |-> form,
                                          alive |-> TRUE]]
    BY DEF handleSubmit
  <1>2. [stage |-> "sent", id |-> editing, text |-> form, alive |-> TRUE] \in PutRecords
    BY ScriptsTypes DEF TypeParts, PutRecords, Answers
  <1> QED
    BY <1>1, <1>2, ScriptsTypes DEF TypeParts

LEMMA TypeSubmit == ASSUME ScriptsTypeOK, handleSubmit PROVE ScriptsTypeOK'
  <1>1. put' \in [Puts -> PutRecords]
    BY Submits
  <1>2. wanted' \in [Scripts -> AnyText]
    BY ScriptsTypes DEF TypeParts, handleSubmit, AnyScript
  <1>3. unsure' \subseteq Scripts /\ blind' \subseteq Scripts /\ acts' \in 0 .. MaxActs
    BY ScriptsTypes, TypeAct DEF TypeParts, handleSubmit
  <1> QED
    BY <1>1, <1>2, <1>3, ScriptsTypes DEF TypeParts, handleSubmit, storeVars

\* A save that is served keeps all but its stage.
LEMMA PutsServed ==
    ASSUME put \in [Puts -> PutRecords], NEW p \in Puts, LookUp(p) \/ Upsert(p) \/ PutFails(p)
    PROVE  /\ \A q \in Puts \ {p} : put'[q] = put[q]
           /\ put'[p].id = put[p].id /\ put'[p].text = put[p].text
           /\ put'[p].alive = put[p].alive
  <1>1. \E answer : put' = [put EXCEPT ![p].stage = answer]
    BY DEF LookUp, Upsert, PutFails
  <1>2. PICK answer : put' = [put EXCEPT ![p].stage = answer]
    BY <1>1
  <1>3. put'[p] = [put[p] EXCEPT !.stage = answer] /\ \A q \in Puts \ {p} : put'[q] = put[q]
    BY <1>2
  <1> QED
    BY <1>3 DEF PutRecords

LEMMA TypeServePut ==
    ASSUME ScriptsTypeOK, NEW p \in Puts, LookUp(p) \/ Upsert(p) \/ PutFails(p)
    PROVE  ScriptsTypeOK'
  <1>1. put' \in [Puts -> PutRecords]
    BY ScriptsTypes DEF TypeParts, LookUp, Upsert, PutFails, PutRecords, Answers
  <1>2. CASE LookUp(p) \/ PutFails(p)
    BY <1>1, <1>2, ScriptsTypes DEF TypeParts, LookUp, PutFails, storeVars
  <1>3. CASE Upsert(p)
    <2>1. PICK s \in IF put[p].id = NoScript THEN Scripts \ (store \cup deleted)
                                             ELSE {put[p].id} :
              /\ store' = store \cup {s}
              /\ text' = [text EXCEPT ![s] = put[p].text]
              /\ wanted' = [wanted EXCEPT ![s] = IF put[p].id = NoScript THEN put[p].text
                                                                         ELSE @]
              /\ emptied' = IF put[p].id = NoScript /\ put[p].text = Blank
                            THEN emptied \cup {s} ELSE emptied
      BY <1>3 DEF Upsert
    <2>2. s \in Scripts /\ put[p].text \in AnyText
      BY ScriptsTypes DEF TypeParts, PutRecords, AnyScript
    <2>3. text' \in [Scripts -> AnyText] /\ wanted' \in [Scripts -> AnyText]
      BY <2>1, <2>2, ScriptsTypes DEF TypeParts
    <2> QED
      BY <1>1, <1>3, <2>1, <2>2, <2>3, ScriptsTypes DEF TypeParts, Upsert
  <1> QED
    BY <1>2, <1>3

LEMMA TypePutSettles ==
    ASSUME ScriptsTypeOK, NEW p \in Puts, PutSettles(p) PROVE ScriptsTypeOK'
  <1>1. UNCHANGED <<storeVars, acts, deleted, torn, wanted, blind, emptied>>
    BY DEF PutSettles
  <1>2. CASE put[p].stage = "ok"
    <2>1. put' \in [Puts -> PutRecords]
      BY <1>2, PutsSettled, ScriptsTypes DEF TypeParts
    <2>2. /\ view' \in {"list", "editor", "bot"} /\ editing' \in AnyScript
          /\ scriptRows' \subseteq Scripts /\ form' \in AnyText /\ saving' \in BOOLEAN
          /\ loaded' \in BOOLEAN /\ fetch' \in FetchRecords /\ dump' \in [Dumps -> DumpRecords]
      <3>1. CASE Show("list", NoScript)
        <4>1. NoScript \in AnyScript
          BY DEF AnyScript
        <4> QED
          BY <3>1, <4>1, TypeShow
      <3>2. CASE UNCHANGED <<view, editing, scriptRows, form, saving, fetch, dump, loaded>>
        BY <3>2, ScriptsTypes DEF TypeParts
      <3> QED
        BY <1>2, <3>1, <3>2 DEF PutSettles
    <2>3. abandoned' \in BOOLEAN /\ unsure' = unsure
      BY <1>2, ScriptsTypes DEF TypeParts, PutSettles
    <2> QED
      BY <1>1, <2>1, <2>2, <2>3, ScriptsTypes DEF TypeParts, storeVars
  <1>3. CASE put[p].stage = "error"
    <2>1. put' \in [Puts -> PutRecords] /\ saving' \in BOOLEAN
      BY <1>3, ScriptsNothing, ScriptsTypes DEF TypeParts, PutSettles
    <2> QED
      BY <1>1, <1>3, <2>1, ScriptsTypes DEF TypeParts, PutSettles, storeVars
  <1> QED
    BY <1>2, <1>3 DEF PutSettles

LEMMA TypeHandleDelete ==
    ASSUME ScriptsTypeOK, NEW s \in Scripts, handleDelete(s) PROVE ScriptsTypeOK'
  <1>1. dump' \in [Dumps -> DumpRecords]
    BY ScriptsTypes DEF TypeParts, handleDelete, DumpRecords, Answers, AnyScript
  <1> QED
    BY <1>1, ScriptsTypes, TypeAct DEF TypeParts, handleDelete, storeVars

LEMMA TypeDump ==
    ASSUME ScriptsTypeOK, NEW d \in Dumps, Delete(d) \/ DumpSettles(d)
    PROVE  ScriptsTypeOK'
  <1>1. CASE Delete(d)
    <2>1. dump' \in [Dumps -> DumpRecords]
      BY <1>1, ScriptsTypes DEF TypeParts, Delete, DumpRecords, Answers
    <2>2. store' \subseteq Scripts /\ deleted' \subseteq Scripts /\ torn' \subseteq Scripts
      BY <1>1, ScriptsTypes DEF TypeParts, Delete
    <2> QED
      BY <1>1, <2>1, <2>2, ScriptsTypes DEF TypeParts, Delete
  <1>2. CASE DumpSettles(d)
    BY <1>2, ScriptsTypes, ScriptsNothing DEF TypeParts, DumpSettles, storeVars
  <1> QED
    BY <1>1, <1>2

\* What a step may be.
LEMMA Steps ==
    ASSUME ScriptsTypeOK, [ScriptsNext]_adminViewVars
    PROVE  \/ Leaves \/ FetchProgress \/ handleSubmit
           \/ \E t \in AnyText : Type(t)
           \/ \E p \in Puts : LookUp(p) \/ Upsert(p) \/ PutFails(p)
           \/ \E p \in Puts : PutSettles(p)
           \/ \E d \in Dumps : Delete(d)
           \/ \E d \in Dumps : DumpSettles(d)
           \/ \E s \in Scripts : handleDelete(s)
           \/ UNCHANGED adminViewVars
  BY WhoLeaves DEF ScriptsNext, PutProgress, DumpProgress

LEMMA ScriptsTypeNext ==
    ASSUME ScriptsTypeOK, [ScriptsNext]_adminViewVars PROVE ScriptsTypeOK'
  <1>1. CASE Leaves
    BY <1>1, TypeLeave DEF Leaves
  <1>2. CASE UNCHANGED adminViewVars
    BY <1>2, ScriptsTypes DEF TypeParts, adminViewVars
  <1> QED
    BY <1>1, <1>2, Steps, TypeFetch, TypeSubmit, TypeType, TypeServePut, TypePutSettles,
       TypeDump, TypeHandleDelete

-----------------------------------------------------------------------------
(* Deleted scripts.                                                          *)

LEMMA FoundInit == ScriptsInit => FoundIsTorn
  BY DEF ScriptsInit, FoundIsTorn, NoPut

\* What a step leaves of the saves: a save that is found was found before, or just now
\* looked up.
LEMMA FoundNext ==
    ASSUME ScriptsTypeOK, FoundIsTorn, [ScriptsNext]_adminViewVars PROVE FoundIsTorn'
  <1> USE DEF FoundIsTorn
  <1>1. ASSUME UNCHANGED <<store, deleted, torn>>,
               \A p \in Puts : put'[p].stage = "found" =>
                                 put[p].stage = "found" /\ put'[p].id = put[p].id
        PROVE  FoundIsTorn'
    BY <1>1
  <1>2. CASE Leaves
    <2>1. UNCHANGED <<store, deleted, torn>>
      BY <1>2 DEF Leaves, Leave, storeVars
    <2> QED
      BY <1>1, <1>2, <2>1, PutsLeft, ScriptsTypes DEF TypeParts, Leaves, Leave
  <1>3. CASE handleSubmit
    BY <1>1, <1>3, Submits DEF handleSubmit, storeVars
  <1>4. CASE \/ FetchProgress \/ UNCHANGED adminViewVars \/ \E t \in AnyText : Type(t)
             \/ (\E d \in Dumps : DumpSettles(d)) \/ \E s \in Scripts : handleDelete(s)
    <2>1. UNCHANGED <<store, deleted, torn, put>>
      BY <1>4 DEF FetchProgress, ServeFetch, FetchSettles, Type, DumpSettles, handleDelete,
                  storeVars, adminViewVars
    <2> QED
      BY <2>1
  <1>5. ASSUME NEW p \in Puts, LookUp(p) PROVE FoundIsTorn'
    <2>1. /\ put'[p].stage = "found" => put[p].id \in store
          /\ put'[p].id = put[p].id /\ \A q \in Puts \ {p} : put'[q] = put[q]
      BY <1>5, ScriptsTypes DEF TypeParts, LookUp
    <2> QED
      BY <1>5, <2>1 DEF LookUp, storeVars
  <1>6. ASSUME NEW p \in Puts, PutFails(p) PROVE FoundIsTorn'
    <2>1. put'[p].stage = "error" /\ \A q \in Puts \ {p} : put'[q] = put[q]
      BY <1>6, ScriptsTypes DEF TypeParts, PutFails
    <2> QED
      BY <1>1, <1>6, <2>1 DEF PutFails, storeVars
  <1>7. ASSUME NEW p \in Puts, Upsert(p) PROVE FoundIsTorn'
    <2>1. put'[p].stage # "found" /\ \A q \in Puts \ {p} : put'[q] = put[q]
      BY <1>7, ScriptsTypes DEF TypeParts, Upsert
    <2>2. PICK s \in IF put[p].id = NoScript THEN Scripts \ (store \cup deleted)
                                              ELSE {put[p].id} : store' = store \cup {s}
      BY <1>7 DEF Upsert
    <2>3. s \in deleted => s \in torn
      BY <1>7, <2>2 DEF Upsert
    <2> QED
      BY <1>7, <2>1, <2>2, <2>3 DEF Upsert
  <1>8. ASSUME NEW p \in Puts, PutSettles(p) PROVE FoundIsTorn'
    <2>1. CASE put[p].stage = "ok"
      BY <1>1, <1>8, <2>1, PutsSettled, ScriptsTypes, ScriptsNothing
         DEF TypeParts, PutSettles, storeVars
    <2>2. CASE put[p].stage = "error"
      <3>1. put'[p] = NoPut /\ \A q \in Puts \ {p} : put'[q] = put[q]
        BY <1>8, <2>2, ScriptsTypes DEF TypeParts, PutSettles
      <3> QED
        BY <1>1, <1>8, <3>1, ScriptsNothing DEF PutSettles, storeVars
    <2> QED
      BY <1>8, <2>1, <2>2 DEF PutSettles
  <1>9. ASSUME NEW d \in Dumps, Delete(d) PROVE FoundIsTorn'
    BY <1>9 DEF Delete, SavesOf
  <1> HIDE DEF FoundIsTorn
  <1> QED
    BY <1>2, <1>3, <1>4, <1>5, <1>6, <1>7, <1>8, <1>9, Steps

-----------------------------------------------------------------------------
(* Blank scripts.                                                            *)

LEMMA BlankInit == ScriptsInit => BlanksExcused
  <1> SUFFICES ASSUME ScriptsInit PROVE BlanksExcused
    OBVIOUS
  <1>1. \A s \in store : text[s] # Blank
    BY ScriptsAssumption DEF ScriptsInit
  <1> QED
    BY <1>1, ScriptsNothing DEF ScriptsInit, BlanksExcused, BlankPut

\* A blank form that is submitted was emptied, or shows a blank script, or never showed one.
LEMMA BlankSubmit ==
    ASSUME ScriptsTypeOK, BlanksExcused, handleSubmit PROVE BlanksExcused'
  <1>1. PICK p \in Puts :
            /\ put'[p] = [stage |-> "sent", id |-> editing, text |-> form, alive |-> TRUE]
            /\ \A q \in Puts \ {p} : put'[q] = put[q]
    BY Submits
  <1>2. Excused \subseteq Excused' /\ UNCHANGED <<storeVars, view, editing, form, fetch, loaded>>
    BY DEF handleSubmit, Excused
  <1>3. form = Blank => editing \in Excused' \cup {NoScript}
    BY <1>2, ScriptsTypes DEF TypeParts, AnyScript, handleSubmit, BlanksExcused, Excused
  <1>4. \A q \in Puts : BlankPut(q)' => put'[q].id \in Excused' \cup {NoScript}
    BY <1>1, <1>2, <1>3 DEF BlanksExcused, BlankPut
  <1> QED
    BY <1>2, <1>4 DEF BlanksExcused, storeVars

\* The editor shows a blank only of a script that is blank.
LEMMA BlankFetch ==
    ASSUME ScriptsTypeOK, BlanksExcused, FetchProgress PROVE BlanksExcused'
  <1>1. CASE ServeFetch
    <2>1. fetch'.stage = "ok" /\ view' = "editor" /\ fetch'.text = Blank =>
             editing' \in Excused
      BY <1>1, ScriptsTypes DEF TypeParts, FetchRecords, ServeFetch, BlanksExcused
    <2>2. fetch'.stage = "ok" /\ view' = "editor" => editing' \in Scripts
      BY <1>1, ScriptsTypes DEF TypeParts, FetchRecords, ServeFetch
    <2> QED
      BY <1>1, <2>1, <2>2 DEF BlanksExcused, BlankPut, Excused, ServeFetch, storeVars
  <1>2. CASE FetchSettles
    BY <1>2, ScriptsNothing DEF BlanksExcused, BlankPut, Excused, FetchSettles, storeVars
  <1> QED
    BY <1>1, <1>2 DEF FetchProgress

\* A script becomes blank only when it is excused, or new.
LEMMA BlankUpsert ==
    ASSUME ScriptsTypeOK, BlanksExcused, NEW p \in Puts, Upsert(p)
    PROVE  BlanksExcused'
           /\ \A s \in store : text[s] # Blank /\ text'[s] = Blank => s \in Excused
  <1>1. PICK s \in IF put[p].id = NoScript THEN Scripts \ (store \cup deleted) ELSE {put[p].id} :
            /\ store' = store \cup {s}
            /\ text' = [text EXCEPT ![s] = put[p].text]
            /\ emptied' = IF put[p].id = NoScript /\ put[p].text = Blank
                          THEN emptied \cup {s} ELSE emptied
    BY DEF Upsert
  <1>2. s \in Scripts /\ Excused \subseteq Excused'
    BY <1>1, ScriptsTypes DEF TypeParts, PutRecords, AnyScript, Upsert, Excused
  <1>3. UNCHANGED <<view, editing, form, fetch, loaded>> /\ (BlankPut(p) <=> put[p].text = Blank)
    BY ScriptsTypes DEF TypeParts, Upsert, BlankPut
  <1>4. put[p].text = Blank => /\ s \in Excused'
                               /\ s \in store => s \in Excused
    BY <1>1, <1>2, <1>3, ScriptsAssumption DEF BlanksExcused, Excused
  <1>5. \A t \in Scripts : text'[t] = IF t = s THEN put[p].text ELSE text[t]
    BY <1>1, ScriptsTypes DEF TypeParts
  <1>6. \A t \in store' : text'[t] = Blank => t \in Excused'
    BY <1>1, <1>2, <1>4, <1>5, ScriptsTypes DEF TypeParts, BlanksExcused
  <1>7. \A q \in Puts : put'[q].id = put[q].id /\ (BlankPut(q)' => BlankPut(q))
    BY <1>3, PutsServed, ScriptsTypes DEF TypeParts, BlankPut
  <1>8. BlanksExcused'
    BY <1>2, <1>3, <1>6, <1>7 DEF BlanksExcused
  <1>9. \A t \in store : text[t] # Blank /\ text'[t] = Blank => t \in Excused
    BY <1>4, <1>5, ScriptsTypes DEF TypeParts
  <1> QED
    BY <1>8, <1>9

LEMMA BlankServe ==
    ASSUME ScriptsTypeOK, BlanksExcused, NEW p \in Puts, LookUp(p) \/ PutFails(p)
    PROVE  BlanksExcused'
  <1>1. put[p].stage # "none"
    BY DEF LookUp, PutFails
  <1>2. /\ put'[p].text = put[p].text /\ put'[p].id = put[p].id
        /\ \A q \in Puts \ {p} : put'[q] = put[q]
    BY PutsServed, ScriptsTypes DEF TypeParts
  <1>3. \A q \in Puts : put'[q].id = put[q].id /\ (BlankPut(q)' => BlankPut(q))
    BY <1>1, <1>2 DEF BlankPut
  <1>4. UNCHANGED <<store, text, view, editing, form, fetch, loaded, Excused>>
    BY DEF LookUp, PutFails, storeVars, Excused
  <1> QED
    BY <1>3, <1>4 DEF BlanksExcused

\* A view shown anew holds nothing loaded.
LEMMA BlankShow ==
    ASSUME ScriptsTypeOK, BlanksExcused,
           NEW next \in {"list", "editor", "bot"}, NEW id \in AnyScript, Show(next, id),
           UNCHANGED <<storeVars, blind, emptied>>,
           \A q \in Puts : BlankPut(q)' => put'[q].id = put[q].id /\ BlankPut(q)
    PROVE  BlanksExcused'
  <1>1. ~loaded' /\ fetch'.stage # "ok" /\ UNCHANGED <<store, text, Excused>>
    BY TypeShow DEF storeVars, Excused
  <1> QED
    BY <1>1 DEF BlanksExcused

LEMMA BlankSettles ==
    ASSUME ScriptsTypeOK, BlanksExcused, NEW p \in Puts, PutSettles(p)
    PROVE  BlanksExcused'
  <1>1. UNCHANGED <<storeVars, blind, emptied>>
    BY DEF PutSettles
  <1>2. /\ put'[p] = NoPut
        /\ \A q \in Puts \ {p} : /\ put'[q].stage = put[q].stage /\ put'[q].id = put[q].id
                                  /\ put'[q].text = put[q].text
    <2>1. CASE put[p].stage = "ok"
      BY <2>1, PutsSettled, ScriptsTypes DEF TypeParts
    <2>2. CASE put[p].stage = "error"
      BY <2>2, ScriptsTypes DEF TypeParts, PutSettles
    <2> QED
      BY <2>1, <2>2 DEF PutSettles
  <1>3. \A q \in Puts : BlankPut(q)' => put'[q].id = put[q].id /\ BlankPut(q)
    BY <1>2, ScriptsNothing DEF BlankPut
  <1>4. CASE Show("list", NoScript)
    BY <1>1, <1>3, <1>4, BlankShow DEF AnyScript
  <1>5. CASE UNCHANGED <<view, editing, form, fetch, loaded>>
    BY <1>1, <1>3, <1>5 DEF BlanksExcused, Excused, storeVars
  <1> QED
    BY <1>4, <1>5 DEF PutSettles

LEMMA BlankNext ==
    ASSUME ScriptsTypeOK, BlanksExcused, [ScriptsNext]_adminViewVars PROVE BlanksExcused'
  <1>1. CASE Leaves
    <2>1. PICK next \in {"list", "editor", "bot"}, id \in AnyScript : Leave(next, id)
      BY <1>1 DEF Leaves
    <2>2. \A q \in Puts : put'[q].id = put[q].id /\ (BlankPut(q)' => BlankPut(q))
      BY <2>1, PutsLeft, ScriptsTypes DEF TypeParts, Leave, BlankPut
    <2> QED
      BY <2>1, <2>2, BlankShow DEF Leave
  <1>2. ASSUME NEW t \in AnyText, Type(t) PROVE BlanksExcused'
    <2>1. Excused \subseteq Excused' /\ UNCHANGED <<store, text, view, editing, fetch, put, loaded>>
      BY <1>2 DEF Type, Excused, storeVars
    <2>2. form' = Blank => editing \in Excused' \cup {NoScript}
      BY <1>2, ScriptsTypes DEF TypeParts, AnyScript, Type, Excused
    <2>3. loaded => editing # NoScript
      BY ScriptsAssumption DEF BlanksExcused
    <2> QED
      BY <2>1, <2>2, <2>3 DEF BlanksExcused, BlankPut
  <1>3. CASE \E d \in Dumps : Delete(d)
    BY <1>3 DEF BlanksExcused, BlankPut, Excused, Delete
  <1>4. CASE \/ (\E d \in Dumps : DumpSettles(d)) \/ \E s \in Scripts : handleDelete(s)
             \/ UNCHANGED adminViewVars
    BY <1>4 DEF BlanksExcused, BlankPut, Excused, DumpSettles, handleDelete, storeVars,
                adminViewVars
  <1> QED
    BY <1>1, <1>2, <1>3, <1>4, Steps, BlankSubmit, BlankFetch, BlankUpsert, BlankServe, BlankSettles

-----------------------------------------------------------------------------
(* Abandoned saves.                                                          *)

LEMMA EditorInit == ScriptsInit => SavesOfEditor
  BY ScriptsNothing DEF ScriptsInit, SavesOfEditor

LEMMA EditorLeaves ==
    ASSUME ScriptsTypeOK, SavesOfEditor, Leaves PROVE SavesOfEditor'
  <1>1. PICK next \in {"list", "editor", "bot"}, id \in AnyScript : Leave(next, id)
    BY DEF Leaves
  <1>2. \A p \in Puts : ~put'[p].alive /\ put'[p].stage = put[p].stage
    BY <1>1, PutsLeft, ScriptsTypes DEF TypeParts, Leave
  <1>3. ~saving' /\ abandoned' = (abandoned \/ saving)
    BY <1>1, TypeShow DEF Leave
  <1> QED
    BY <1>2, <1>3 DEF SavesOfEditor

LEMMA EditorSubmit ==
    ASSUME ScriptsTypeOK, SavesOfEditor, handleSubmit PROVE SavesOfEditor'
  <1>1. PICK p \in Puts :
            /\ put'[p] = [stage |-> "sent", id |-> editing, text |-> form, alive |-> TRUE]
            /\ \A q \in Puts \ {p} : put'[q] = put[q]
    BY Submits
  <1>2. /\ view = "editor" /\ ~saving /\ saving' /\ UNCHANGED <<view, abandoned>>
    BY DEF handleSubmit
  <1> QED
    BY <1>1, <1>2 DEF SavesOfEditor

LEMMA EditorServes ==
    ASSUME ScriptsTypeOK, SavesOfEditor, NEW p \in Puts,
           LookUp(p) \/ Upsert(p) \/ PutFails(p)
    PROVE  SavesOfEditor'
  <1>1. put[p].stage # "none" /\ UNCHANGED <<view, saving, abandoned>>
    BY DEF LookUp, Upsert, PutFails
  <1>2. put'[p].alive = put[p].alive /\ \A q \in Puts \ {p} : put'[q] = put[q]
    BY PutsServed, ScriptsTypes DEF TypeParts
  <1> QED
    BY <1>1, <1>2 DEF SavesOfEditor

LEMMA EditorSettles ==
    ASSUME ScriptsTypeOK, SavesOfEditor, NEW p \in Puts, PutSettles(p)
    PROVE  /\ SavesOfEditor'
           /\ put[p].stage # "ok" => view' = view
           /\ abandoned \/ put[p].alive
  <1>1. put[p].stage # "none"
    BY DEF PutSettles
  <1>2. abandoned \/ put[p].alive
    BY <1>1, ScriptsTypes DEF TypeParts, PutRecords, SavesOfEditor
  <1>3. CASE put[p].stage = "ok"
    <2>1. /\ put'[p].stage = "none" /\ ~put'[p].alive
          /\ \A q \in Puts \ {p} : ~put'[q].alive /\ put'[q].stage = put[q].stage
      BY <1>3, PutsSettled, ScriptsNothing, ScriptsTypes DEF TypeParts
    <2>2. \A q \in Puts \ {p} : put[q].alive => abandoned
      BY <1>2 DEF SavesOfEditor
    <2>3. abandoned => abandoned'
      BY <1>3 DEF PutSettles
    <2>4. saving' => view' = "editor"
      <3>1. CASE Show("list", NoScript)
        BY <3>1, TypeShow DEF AnyScript
      <3> QED
        BY <1>3, <3>1 DEF PutSettles, SavesOfEditor
    <2>5. \A q \in Puts : put'[q].stage # "none" => abandoned'
      BY <2>1, <2>2, <2>3 DEF SavesOfEditor
    <2> QED
      BY <1>2, <1>3, <2>1, <2>4, <2>5 DEF SavesOfEditor
  <1>4. CASE put[p].stage = "error"
    <2>1. /\ put'[p] = NoPut /\ \A q \in Puts \ {p} : put'[q] = put[q]
          /\ saving' = (saving /\ ~put[p].alive) /\ UNCHANGED <<view, abandoned>>
      BY <1>4, ScriptsTypes DEF TypeParts, PutSettles
    <2> QED
      BY <1>2, <1>4, <2>1, ScriptsNothing DEF SavesOfEditor
  <1> QED
    BY <1>3, <1>4 DEF PutSettles

LEMMA EditorNext ==
    ASSUME ScriptsTypeOK, SavesOfEditor, [ScriptsNext]_adminViewVars PROVE SavesOfEditor'
  <1>1. CASE \/ FetchProgress \/ UNCHANGED adminViewVars \/ \E t \in AnyText : Type(t)
             \/ \E d \in Dumps : Delete(d)
             \/ (\E d \in Dumps : DumpSettles(d)) \/ \E s \in Scripts : handleDelete(s)
    <2>1. UNCHANGED <<put, saving, view, abandoned>>
      BY <1>1 DEF FetchProgress, ServeFetch, FetchSettles, Type, Delete, DumpSettles,
                  handleDelete, adminViewVars
    <2> QED
      BY <2>1 DEF SavesOfEditor
  <1> QED
    BY <1>1, Steps, EditorLeaves, EditorSubmit, EditorServes, EditorSettles

-----------------------------------------------------------------------------
(* What was submitted last.                                                  *)

LEMMA KnownInit == ScriptsInit => OnlyKnown
  <1>1. [NoFetch EXCEPT !.stage = "sent"].ids = {} /\ NoPut.id = NoScript
    BY DEF NoFetch, NoPut
  <1> QED
    BY <1>1 DEF ScriptsInit, OnlyKnown

\* No step forgets a script that was made.
LEMMA KnownGrows ==
    ASSUME ScriptsTypeOK, [ScriptsNext]_adminViewVars PROVE Known \subseteq Known'
  <1>1. ASSUME NEW p \in Puts, Upsert(p) PROVE Known \subseteq Known'
    BY <1>1 DEF Upsert, Known
  <1>2. ASSUME NEW d \in Dumps, Delete(d) PROVE Known \subseteq Known'
    BY <1>2 DEF Delete, Known
  <1>3. ASSUME UNCHANGED <<store, deleted>> PROVE Known \subseteq Known'
    BY <1>3 DEF Known
  <1> QED
    BY <1>1, <1>2, <1>3, Steps
       DEF Leaves, Leave, FetchProgress, ServeFetch, FetchSettles, handleSubmit, Type, LookUp,
           PutFails, PutSettles, DumpSettles, handleDelete, storeVars, adminViewVars

\* A view shown anew loads what it is told, and knows no script by itself.
LEMMA KnownShow ==
    ASSUME NEW next, NEW id, Show(next, id)
    PROVE  scriptRows' = {} /\ fetch'.ids = {} /\ editing' = id
  BY DEF Show, NoFetch

LEMMA KnownNext ==
    ASSUME ScriptsTypeOK, OnlyKnown, [ScriptsNext]_adminViewVars PROVE OnlyKnown'
  <1>1. Known \subseteq Known'
    BY KnownGrows
  <1>2. CASE Leaves
    <2>1. PICK next \in {"list", "editor", "bot"}, id \in AnyScript :
                  Leave(next, id) /\ id \in scriptRows \cup {NoScript}
      BY <1>2 DEF Leaves
    <2>2. \A p \in Puts : put'[p].id = put[p].id
      BY <2>1, PutsLeft, ScriptsTypes DEF TypeParts, Leave
    <2> QED
      BY <1>1, <2>1, <2>2, KnownShow DEF OnlyKnown, Leave
  <1>3. CASE FetchProgress
    <2>1. CASE ServeFetch
      <3>1. fetch'.ids \subseteq Known
        BY <2>1, ScriptsTypes DEF TypeParts, FetchRecords, ServeFetch, OnlyKnown, Known
      <3> QED
        BY <1>1, <2>1, <3>1 DEF ServeFetch, OnlyKnown
    <2>2. CASE FetchSettles
      BY <1>1, <2>2 DEF FetchSettles, OnlyKnown, NoFetch
    <2> QED
      BY <1>3, <2>1, <2>2 DEF FetchProgress
  <1>4. CASE handleSubmit
    BY <1>1, <1>4, Submits DEF handleSubmit, OnlyKnown
  <1>5. ASSUME NEW p \in Puts, LookUp(p) \/ Upsert(p) \/ PutFails(p) PROVE OnlyKnown'
    BY <1>1, <1>5, PutsServed, ScriptsTypes
       DEF TypeParts, LookUp, Upsert, PutFails, OnlyKnown
  <1>6. ASSUME NEW p \in Puts, PutSettles(p) PROVE OnlyKnown'
    <2>1. \A q \in Puts : put'[q].id \in {put[q].id, NoScript}
      <3>1. NoPut.id = NoScript
        BY DEF NoPut
      <3>2. CASE put[p].stage = "ok"
        BY <1>6, <3>1, <3>2, PutsSettled, ScriptsTypes DEF TypeParts
      <3>3. CASE put[p].stage = "error"
        BY <1>6, <3>1, <3>3, ScriptsTypes DEF TypeParts, PutSettles
      <3> QED
        BY <1>6, <3>2, <3>3 DEF PutSettles
    <2>2. CASE Show("list", NoScript)
      BY <1>1, <2>1, <2>2, KnownShow DEF OnlyKnown
    <2>3. CASE UNCHANGED <<editing, scriptRows, fetch>>
      BY <1>1, <2>1, <2>3 DEF OnlyKnown
    <2> QED
      BY <1>6, <2>2, <2>3 DEF PutSettles
  <1>7. CASE \/ UNCHANGED adminViewVars \/ (\E t \in AnyText : Type(t))
             \/ (\E d \in Dumps : Delete(d) \/ DumpSettles(d))
             \/ \E s \in Scripts : handleDelete(s)
    <2>1. UNCHANGED <<editing, fetch, put>> /\ scriptRows' \subseteq scriptRows
      BY <1>7 DEF Type, Delete, DumpSettles, handleDelete, adminViewVars
    <2> QED
      BY <1>1, <2>1 DEF OnlyKnown
  <1> QED
    BY <1>2, <1>3, <1>4, <1>5, <1>6, <1>7, Steps

LEMMA SavedInit == ScriptsInit => AllSaved
  BY ScriptsNothing DEF ScriptsInit, AllSaved, SavedOrSaving, Saves

\* A script stays as it is when no save of it comes, goes or gets its answer.
LEMMA StaysSaved ==
    ASSUME NEW s, SavedOrSaving(s), wanted'[s] = wanted[s], text'[s] = text[s],
           s \in store' => s \in store,
           \A p \in Puts : /\ Saves(p, s)' <=> Saves(p, s)
                           /\ Saves(p, s) => /\ put'[p].text = put[p].text
                                             /\ put'[p].stage = "ok" => put[p].stage = "ok"
    PROVE  SavedOrSaving(s)'
  BY DEF SavedOrSaving, HoldsWanted

LEMMA SavedSubmit ==
    ASSUME ScriptsTypeOK, AllSaved, handleSubmit PROVE AllSaved'
  <1>1. PICK p \in Puts :
            /\ put[p] = NoPut
            /\ put'[p] = [stage |-> "sent", id |-> editing, text |-> form, alive |-> TRUE]
            /\ \A q \in Puts \ {p} : put'[q] = put[q]
    BY Submits
  <1> SUFFICES ASSUME NEW s \in Scripts \ unsure' PROVE SavedOrSaving(s)'
    BY DEF AllSaved
  <1>2. s \notin unsure /\ UNCHANGED <<store, text>> /\ SavedOrSaving(s)
    BY DEF handleSubmit, storeVars, AllSaved
  <1>3. CASE s = editing
    <2>1. \A q \in Puts : ~Saves(q, s)
      BY <1>3 DEF handleSubmit, SavesOf, Saves
    <2>2. wanted'[s] = form
      BY <1>3, ScriptsAssumption, ScriptsTypes DEF TypeParts, handleSubmit
    <2>3. \A q \in Puts : Saves(q, s)' <=> q = p
      BY <1>1, <1>3, <2>1 DEF Saves
    <2> QED
      BY <1>1, <2>2, <2>3 DEF SavedOrSaving, HoldsWanted
  <1>4. CASE s # editing
    <2>1. wanted'[s] = wanted[s]
      BY <1>4, ScriptsTypes DEF TypeParts, handleSubmit
    <2>2. \A q \in Puts : Saves(q, s)' <=> Saves(q, s)
      BY <1>1, <1>4, ScriptsNothing DEF Saves
    <2>3. ~Saves(p, s)
      BY <1>1, ScriptsNothing DEF Saves
    <2> QED
      BY <1>1, <1>2, <2>1, <2>2, <2>3, StaysSaved
  <1> QED
    BY <1>3, <1>4

\* What is stored is what the one save holds; a new script has no other save.
LEMMA SavedUpsert ==
    ASSUME ScriptsTypeOK, OnlyKnown, AllSaved, NEW p \in Puts, Upsert(p) PROVE AllSaved'
  <1>1. PICK x \in IF put[p].id = NoScript THEN Scripts \ (store \cup deleted)
                                           ELSE {put[p].id} :
            /\ store' = store \cup {x}
            /\ text' = [text EXCEPT ![x] = put[p].text]
            /\ wanted' = [wanted EXCEPT ![x] = IF put[p].id = NoScript THEN put[p].text ELSE @]
    BY DEF Upsert
  <1>2. x \in Scripts /\ UNCHANGED unsure
    BY ScriptsTypes DEF TypeParts, PutRecords, AnyScript, Upsert
  <1>3. /\ \A q \in Puts \ {p} : put'[q] = put[q]
        /\ put'[p].id = put[p].id /\ put'[p].text = put[p].text
        /\ put[p].stage # "none" /\ put'[p].stage # "none"
    BY PutsServed, ScriptsTypes DEF TypeParts, Upsert
  <1>4. \A q \in Puts : \A s : Saves(q, s)' <=> Saves(q, s)
    BY <1>3 DEF Saves
  <1> SUFFICES ASSUME NEW s \in Scripts \ unsure PROVE SavedOrSaving(s)'
    BY <1>2 DEF AllSaved
  <1>5. SavedOrSaving(s)
    BY DEF AllSaved
  <1>6. CASE s # x
    <2>1. wanted'[s] = wanted[s] /\ text'[s] = text[s] /\ (s \in store' => s \in store)
      BY <1>1, <1>2, <1>6, ScriptsTypes DEF TypeParts
    <2>2. ~Saves(p, s)
      BY <1>1, <1>6, ScriptsAssumption DEF Saves
    <2> QED
      BY <1>3, <1>4, <1>5, <2>1, <2>2, StaysSaved
  <1>7. CASE s = x /\ put[p].id = NoScript
    <2>1. text'[s] = wanted'[s]
      BY <1>1, <1>2, <1>7, ScriptsTypes DEF TypeParts
    <2>2. \A q \in Puts : ~Saves(q, s)
      BY <1>1, <1>7, ScriptsAssumption DEF Saves, OnlyKnown, Known
    <2> QED
      BY <1>4, <2>1, <2>2 DEF SavedOrSaving
  <1>8. CASE s = x /\ put[p].id # NoScript
    <2>1. Saves(p, s)
      BY <1>1, <1>3, <1>8 DEF Saves
    <2>2. wanted'[s] = wanted[s] /\ text'[s] = put[p].text
      BY <1>1, <1>2, <1>8, ScriptsTypes DEF TypeParts
    <2> QED
      BY <1>3, <1>4, <1>5, <2>1, <2>2 DEF SavedOrSaving, HoldsWanted
  <1> QED
    BY <1>6, <1>7, <1>8

\* Whether the script is there, or a fault: nothing is stored.
LEMMA SavedPut ==
    ASSUME ScriptsTypeOK, AllSaved, NEW p \in Puts, LookUp(p) \/ PutFails(p) PROVE AllSaved'
  <1>1. UNCHANGED <<store, text, wanted, unsure>>
    BY DEF LookUp, PutFails, storeVars
  <1>2. /\ \A q \in Puts \ {p} : put'[q] = put[q]
        /\ put'[p].id = put[p].id /\ put'[p].text = put[p].text
    BY PutsServed, ScriptsTypes DEF TypeParts
  <1>3. put[p].stage # "none" /\ put'[p].stage \in {"found", "error"}
    BY ScriptsTypes DEF TypeParts, PutRecords, LookUp, PutFails
  <1>4. \A q \in Puts : \A s : Saves(q, s)' <=> Saves(q, s)
    BY <1>2, <1>3 DEF Saves
  <1> QED
    BY <1>1, <1>2, <1>3, <1>4, StaysSaved DEF AllSaved

LEMMA SavedSettles ==
    ASSUME ScriptsTypeOK, AllSaved, NEW p \in Puts, PutSettles(p) PROVE AllSaved'
  <1>1. UNCHANGED <<store, text, wanted>> /\ unsure \subseteq unsure'
    BY DEF PutSettles, storeVars
  <1>2. put'[p] = NoPut /\ \A q \in Puts \ {p} : /\ put'[q].stage = put[q].stage
                                                 /\ put'[q].id = put[q].id
                                                 /\ put'[q].text = put[q].text
    <2>1. CASE put[p].stage = "ok"
      BY <2>1, PutsSettled, ScriptsTypes DEF TypeParts
    <2>2. CASE put[p].stage = "error"
      BY <2>2, ScriptsTypes DEF TypeParts, PutSettles
    <2> QED
      BY <2>1, <2>2 DEF PutSettles
  <1> SUFFICES ASSUME NEW s \in Scripts \ unsure' PROVE SavedOrSaving(s)'
    BY DEF AllSaved
  <1>3. SavedOrSaving(s)
    BY <1>1 DEF AllSaved
  <1>4. ~Saves(p, s)' /\ \A q \in Puts \ {p} : Saves(q, s)' <=> Saves(q, s)
    BY <1>2, ScriptsNothing DEF Saves
  <1>5. CASE Saves(p, s)
    <2>1. put[p].stage = "ok"
      BY <1>5 DEF Saves, PutSettles
    <2>2. \A q \in Puts : ~Saves(q, s)'
      BY <1>3, <1>4, <1>5 DEF SavedOrSaving, HoldsWanted
    <2> QED
      BY <1>1, <1>3, <1>5, <2>1, <2>2 DEF SavedOrSaving, HoldsWanted
  <1>6. CASE ~Saves(p, s)
    BY <1>1, <1>2, <1>3, <1>4, <1>6, StaysSaved
  <1> QED
    BY <1>5, <1>6

LEMMA SavedNext ==
    ASSUME ScriptsTypeOK, OnlyKnown, AllSaved, [ScriptsNext]_adminViewVars PROVE AllSaved'
  <1>1. CASE Leaves
    <2>1. UNCHANGED <<store, text, wanted, unsure>>
      BY <1>1 DEF Leaves, Leave, storeVars
    <2>2. \A q \in Puts : /\ put'[q].stage = put[q].stage /\ put'[q].id = put[q].id
                          /\ put'[q].text = put[q].text
      BY <1>1, PutsLeft, ScriptsTypes DEF TypeParts, Leaves, Leave
    <2>3. \A q \in Puts : \A s : Saves(q, s)' <=> Saves(q, s)
      BY <2>2 DEF Saves
    <2> QED
      BY <2>1, <2>2, <2>3, StaysSaved DEF AllSaved
  <1>2. CASE \/ FetchProgress \/ UNCHANGED adminViewVars \/ (\E t \in AnyText : Type(t))
             \/ (\E d \in Dumps : Delete(d) \/ DumpSettles(d))
             \/ \E s \in Scripts : handleDelete(s)
    <2>1. UNCHANGED <<text, wanted, unsure, put>> /\ store' \subseteq store
      BY <1>2 DEF FetchProgress, ServeFetch, FetchSettles, Type, Delete, DumpSettles,
                  handleDelete, storeVars, adminViewVars
    <2>2. \A q \in Puts : \A s : Saves(q, s)' <=> Saves(q, s)
      BY <2>1 DEF Saves
    <2> QED
      BY <2>1, <2>2, StaysSaved DEF AllSaved
  <1> QED
    BY <1>1, <1>2, Steps, SavedSubmit, SavedUpsert, SavedPut, SavedSettles

-----------------------------------------------------------------------------
(* The theorems.                                                             *)

LEMMA ScriptsInvariant == ScriptsSpec => []ScriptsInv
  <1>1. ScriptsInit => ScriptsInv
    BY ScriptsTypeInit, FoundInit, BlankInit, EditorInit, KnownInit, SavedInit DEF ScriptsInv
  <1>2. ScriptsInv /\ [ScriptsNext]_adminViewVars => ScriptsInv'
    BY ScriptsTypeNext, FoundNext, BlankNext, EditorNext, KnownNext, SavedNext DEF ScriptsInv
  <1> QED
    BY <1>1, <1>2, PTL DEF ScriptsSpec

\* Every variable of the admin client keeps to its type.
THEOREM ScriptsTypeCorrect == ScriptsSpec => []ScriptsTypeOK
  <1>1. ScriptsInv => ScriptsTypeOK
    BY DEF ScriptsInv
  <1> QED
    BY <1>1, ScriptsInvariant, PTL

\* A deleted script comes back only when it was deleted between the halves of an update.
THEOREM DeletedComesBack == ScriptsSpec => []DeletedComesBackOnlyIfTorn
  <1>1. ScriptsInv => DeletedComesBackOnlyIfTorn
    BY DEF ScriptsInv, FoundIsTorn, DeletedComesBackOnlyIfTorn
  <1> QED
    BY <1>1, ScriptsInvariant, PTL

\* What is stored is what was submitted last, unless a save failed or two overlapped.
THEOREM LastStored == ScriptsSpec => []LastSubmittedIsStored
  <1>1. ScriptsInv => LastSubmittedIsStored
    <2> SUFFICES ASSUME ScriptsInv, NEW s \in store \ unsure, SavesOf(s) = {}
                 PROVE  text[s] = wanted[s]
      BY DEF LastSubmittedIsStored
    <2>1. s \in Scripts /\ \A p \in Puts : ~Saves(p, s)
      BY ScriptsTypes DEF ScriptsInv, TypeParts, SavesOf, Saves
    <2> QED
      BY <2>1 DEF ScriptsInv, AllSaved, SavedOrSaving
  <1> QED
    BY <1>1, ScriptsInvariant, PTL

\* A script is wiped only when its user emptied it, or by a save from an editor that never
\* got to show it, however saves, loads and navigations overlap (ScriptEditor.handleSubmit).
THEOREM WipedKnowingly == ScriptsSpec => WipedByChoiceOrBlindly
  <1>1. ASSUME ScriptsInv, [ScriptsNext]_adminViewVars
        PROVE  [\A s \in store : text[s] # Blank /\ text'[s] = Blank => s \in emptied \cup blind
               ]_adminViewVars
    <2>1. ASSUME NEW p \in Puts, Upsert(p)
          PROVE  \A s \in store : text[s] # Blank /\ text'[s] = Blank => s \in emptied \cup blind
      BY <1>1, <2>1, BlankUpsert DEF ScriptsInv, Excused
    <2>2. CASE \/ Leaves \/ FetchProgress \/ handleSubmit \/ UNCHANGED adminViewVars
               \/ \E t \in AnyText : Type(t)
               \/ \E p \in Puts : LookUp(p) \/ PutFails(p) \/ PutSettles(p)
               \/ \E d \in Dumps : Delete(d)
               \/ (\E d \in Dumps : DumpSettles(d)) \/ \E s \in Scripts : handleDelete(s)
      <3>1. UNCHANGED text
        BY <2>2 DEF Leaves, Leave, FetchProgress, ServeFetch, FetchSettles, handleSubmit, Type,
                    LookUp, PutFails, PutSettles, Delete, DumpSettles, handleDelete, storeVars,
                    adminViewVars
      <3> QED
        BY <3>1
    <2> QED
      BY <1>1, <2>1, <2>2, Steps DEF ScriptsInv
  <1> QED
    BY <1>1, ScriptsInvariant, PTL DEF ScriptsSpec, WipedByChoiceOrBlindly

\* The client leaves an editor by itself only for a save of that editor, unless an earlier
\* save was left under way.
THEOREM LeavesOwn == ScriptsSpec => LeavesOnlyItsEditor
  <1>1. ASSUME ScriptsInv, [ScriptsNext]_adminViewVars
        PROVE  [view # "list" /\ view' = "list" =>
                   goToList \/ abandoned \/ \E p \in Puts : put[p].alive /\ put[p].stage = "ok"
               ]_adminViewVars
    <2>1. ASSUME Leaves, view' = "list" PROVE goToList
      <3>1. PICK next \in {"list", "editor", "bot"}, id \in AnyScript :
                    Leave(next, id) /\ (next = "list" => goToList)
        BY <2>1 DEF Leaves
      <3>2. view' = next
        BY <3>1 DEF Leave, Show
      <3> QED
        BY <2>1, <3>1, <3>2
    <2>2. ASSUME NEW p \in Puts, PutSettles(p), view' # view
          PROVE  abandoned \/ (put[p].alive /\ put[p].stage = "ok")
      BY <1>1, <2>2, EditorSettles DEF ScriptsInv
    <2>3. CASE \/ FetchProgress \/ handleSubmit \/ UNCHANGED adminViewVars
               \/ \E t \in AnyText : Type(t)
               \/ \E p \in Puts : LookUp(p) \/ Upsert(p) \/ PutFails(p)
               \/ \E d \in Dumps : Delete(d)
               \/ (\E d \in Dumps : DumpSettles(d)) \/ \E s \in Scripts : handleDelete(s)
      <3>1. UNCHANGED view
        BY <2>3 DEF FetchProgress, ServeFetch, FetchSettles, handleSubmit, Type, LookUp, Upsert,
                    PutFails, Delete, DumpSettles, handleDelete, adminViewVars
      <3> QED
        BY <3>1
    <2> QED
      BY <1>1, <2>1, <2>2, <2>3, Steps DEF ScriptsInv
  <1> QED
    BY <1>1, ScriptsInvariant, PTL DEF ScriptsSpec, LeavesOnlyItsEditor

=============================================================================
