----------------------------- MODULE Screens_proofs -----------------------------
(***************************************************************************)
(* Proofs about the kiosk, for every playlist, number of polls and bounds,  *)
(* and about the four screens side by side (with those of the webhook admin *)
(* page, the file browser and the booking pages, in modules of their own).  *)
(***************************************************************************)
EXTENDS MCScreens, WebhookAdmin_proofs, BlobBrowser_proofs, BookingPages_proofs

-----------------------------------------------------------------------------
(* The kiosk.                                                               *)

\* What makes NeverGoesBack inductive: until polls overlap there is one at most, and its
\* answer is of a time no earlier than what is shown.
OnePoll == \A p, q \in Polls : poll[p] # NoPoll /\ poll[q] # NoPoll => p = q

AnswersAreNews == \A p \in Polls : poll[p].stage = "ok" => seen <= poll[p].at

KioskInv ==
    /\ KioskTypeOK
    /\ seen <= moves
    /\ \A p \in Polls : poll[p].at <= moves
    /\ overtaken \/ (OnePoll /\ AnswersAreNews)

PollRecords == [stage : {"none", "sent", "ok", "error"}, item : AnyItem, at : 0 .. MaxMoves]

-----------------------------------------------------------------------------

LEMMA NoPollType == NoPoll \in PollRecords
  BY KioskAssumption DEF NoPoll, PollRecords, AnyItem

LEMMA KioskStarts == KioskInit => KioskInv
  <1> SUFFICES ASSUME KioskInit PROVE KioskInv
    OBVIOUS
  <1> USE DEF KioskInit
  <1>1. poll \in [Polls -> PollRecords] /\ \A p \in Polls : poll[p] = NoPoll
    BY NoPollType
  <1>2. moves \in 0 .. MaxMoves /\ seen \in 0 .. MaxMoves /\ kioskFaults \in 0 .. MaxKioskFaults
    BY KioskAssumption
  <1>3. KioskTypeOK
    BY <1>1, <1>2 DEF KioskTypeOK, PollRecords, AnyItem
  <1>4. OnePoll /\ AnswersAreNews /\ \A p \in Polls : poll[p].at <= moves
    BY <1>1 DEF OnePoll, AnswersAreNews, NoPoll
  <1> QED
    BY <1>3, <1>4 DEF KioskInv

\* A fault is counted.
LEMMA Faults ==
    ASSUME kioskFaults \in 0 .. MaxKioskFaults, KioskFault \/ UNCHANGED kioskFaults
    PROVE  kioskFaults' \in 0 .. MaxKioskFaults
  BY KioskAssumption DEF KioskFault

\* What the screen shows after an answer.
LEMMA PlayType ==
    ASSUME KioskTypeOK, NEW item \in AnyItem, Play(item)
    PROVE  /\ current' \in AnyItem /\ meeting' \in Meetings \cup {NoItem}
           /\ teamsCall' \in {"none", "asked", "joined", "failed"}
  BY DEF KioskTypeOK, Play

LEMMA PollStep ==
    ASSUME KioskInv, NEW p \in Polls, GetCurrentPlaylist(p) PROVE KioskInv'
  <1> USE DEF KioskInv
  <1>1. poll[p].stage = "sent" /\ poll[p] # NoPoll
    BY DEF GetCurrentPlaylist, NoPoll
  <1>2. poll' \in [Polls -> PollRecords]
    <2>1. [stage |-> "ok", item |-> now, at |-> moves] \in PollRecords
      BY DEF KioskTypeOK, PollRecords
    <2> QED
      BY <2>1, NoPollType DEF KioskTypeOK, GetCurrentPlaylist, PollRecords
  <1>3. /\ \A q \in Polls \ {p} : poll'[q] = poll[q]
        /\ poll'[p].stage = "ok" => poll'[p].at = moves
        /\ poll'[p].at \in {0, moves, poll[p].at}
    BY DEF KioskTypeOK, GetCurrentPlaylist, NoPoll
  <1>4. UNCHANGED <<now, moves, config, alerting, displayVars, overtaken>>
    BY DEF GetCurrentPlaylist
  <1>5. KioskTypeOK'
    BY <1>2, <1>4, Faults DEF KioskTypeOK, GetCurrentPlaylist, PollRecords, displayVars
  <1>6. \A q \in Polls : poll'[q].at <= moves
    BY <1>3 DEF KioskTypeOK
  <1>7. overtaken \/ OnePoll'
    BY <1>1, <1>3 DEF OnePoll
  <1>8. overtaken \/ AnswersAreNews'
    BY <1>3, <1>4 DEF AnswersAreNews, displayVars
  <1> QED
    BY <1>4, <1>5, <1>6, <1>7, <1>8 DEF displayVars

LEMMA SettleStep ==
    ASSUME KioskInv, NEW p \in Polls, PollSettles(p)
    PROVE  KioskInv' /\ (seen' >= seen \/ overtaken)
  <1> USE DEF KioskInv
  <1>1. poll[p] # NoPoll /\ poll[p] \in PollRecords
    BY DEF KioskTypeOK, PollSettles, NoPoll, PollRecords
  <1>2. poll' \in [Polls -> PollRecords]
    BY NoPollType DEF KioskTypeOK, PollSettles, PollRecords
  <1>3. poll'[p] = NoPoll /\ \A q \in Polls \ {p} : poll'[q] = poll[q]
    BY DEF KioskTypeOK, PollSettles
  <1>4. UNCHANGED <<now, moves, config, kioskFaults, overtaken>>
    BY DEF PollSettles
  <1>5. /\ lastUrl' \in AnyItem \cup {Unset} /\ seen' \in 0 .. MaxMoves /\ seen' <= moves
        /\ alerting' \in BOOLEAN
    BY <1>1 DEF KioskTypeOK, PollSettles, PollRecords, displayVars
  <1>6. /\ current' \in AnyItem /\ meeting' \in Meetings \cup {NoItem}
        /\ teamsCall' \in {"none", "asked", "joined", "failed"}
    <2>1. CASE poll[p].stage = "ok"
      BY <1>1, <2>1, PlayType DEF KioskTypeOK, PollSettles, PollRecords
    <2> QED
      BY <2>1 DEF KioskTypeOK, PollSettles, displayVars
  <1>7. KioskTypeOK'
    BY <1>2, <1>4, <1>5, <1>6 DEF KioskTypeOK, PollRecords
  <1>8. \A q \in Polls : poll'[q].at <= moves
    BY <1>3 DEF KioskTypeOK, NoPoll
  <1>9. CASE ~overtaken
    <2>1. \A q \in Polls : poll'[q] = NoPoll
      BY <1>1, <1>3, <1>9 DEF OnePoll
    <2>2. OnePoll' /\ AnswersAreNews'
      BY <2>1 DEF OnePoll, AnswersAreNews, NoPoll
    <2>3. seen' >= seen
      BY <1>9 DEF PollSettles, AnswersAreNews, displayVars, KioskTypeOK
    <2> QED
      BY <1>4, <1>5, <1>7, <1>8, <2>2, <2>3
  <1> QED
    BY <1>4, <1>5, <1>7, <1>8, <1>9

LEMMA TickStep == ASSUME KioskInv, Tick PROVE KioskInv'
  <1> USE DEF KioskInv
  <1>1. PICK p \in Polls : poll[p] = NoPoll /\ poll' = [poll EXCEPT ![p].stage = "sent"]
    BY DEF Tick
  <1>2. poll'[p].stage = "sent" /\ poll'[p].at = poll[p].at
    BY <1>1 DEF KioskTypeOK
  <1>3. \A q \in Polls \ {p} : poll'[q] = poll[q]
    BY <1>1 DEF KioskTypeOK
  <1>4. poll' \in [Polls -> PollRecords]
    BY <1>1 DEF KioskTypeOK, PollRecords
  <1>5. UNCHANGED <<now, moves, config, alerting, displayVars, kioskFaults>>
    BY DEF Tick
  <1>6. KioskTypeOK'
    BY <1>4, <1>5 DEF KioskTypeOK, PollRecords, displayVars, Tick
  <1>7. \A q \in Polls : poll'[q].at <= moves
    BY <1>2, <1>3
  <1>8. overtaken' \/ (OnePoll' /\ AnswersAreNews')
    BY <1>2, <1>3, <1>5 DEF Tick, OnePoll, AnswersAreNews, NoPoll, displayVars
  <1> QED
    BY <1>5, <1>6, <1>7, <1>8 DEF displayVars

LEMMA MoveStep == ASSUME KioskInv, PlaylistMoves PROVE KioskInv'
  <1> USE DEF KioskInv
  <1>1. moves' \in 0 .. MaxMoves /\ moves' = moves + 1 /\ now' \in AnyItem
    BY KioskAssumption DEF PlaylistMoves, KioskTypeOK
  <1>2. UNCHANGED <<config, poll, alerting, displayVars, kioskFaults, overtaken>>
    BY DEF PlaylistMoves
  <1>3. KioskTypeOK'
    BY <1>1, <1>2 DEF KioskTypeOK, displayVars
  <1>4. seen <= moves' /\ \A p \in Polls : poll[p].at <= moves'
    BY <1>1 DEF KioskTypeOK
  <1> QED
    BY <1>2, <1>3, <1>4 DEF OnePoll, AnswersAreNews, displayVars

\* The steps that touch neither the polls nor what they tell.
LEMMA OtherStep ==
    ASSUME KioskInv, ConfigProgress \/ CallSettles \/ Dismiss \/ UNCHANGED kioskVars
    PROVE  KioskInv' /\ UNCHANGED seen
  <1> USE DEF KioskInv
  <1>1. UNCHANGED <<now, moves, poll, lastUrl, current, meeting, seen, overtaken>>
    BY DEF ConfigProgress, ServeConfig, ConfigSettles, CallSettles, Dismiss, kioskVars,
           displayVars
  <1>2. kioskFaults' \in 0 .. MaxKioskFaults
    BY Faults
       DEF KioskTypeOK, ConfigProgress, ServeConfig, ConfigSettles, CallSettles, Dismiss,
           kioskVars
  <1>3. /\ config' \in {"sent", "ok", "error", "failed", "on"} /\ alerting' \in BOOLEAN
        /\ teamsCall' \in {"none", "asked", "joined", "failed"}
    BY DEF KioskTypeOK, ConfigProgress, ServeConfig, ConfigSettles, CallSettles, Dismiss,
           kioskVars, displayVars
  <1>4. KioskTypeOK'
    BY <1>1, <1>2, <1>3 DEF KioskTypeOK
  <1> QED
    BY <1>1, <1>4 DEF OnePoll, AnswersAreNews

LEMMA KioskSteps ==
    ASSUME KioskInv, [KioskNext]_kioskVars PROVE KioskInv' /\ (seen' >= seen \/ overtaken)
  <1>1. seen \in Nat
    BY DEF KioskInv, KioskTypeOK
  <1>2. CASE ConfigProgress \/ CallSettles \/ Dismiss \/ UNCHANGED kioskVars
    BY <1>1, <1>2, OtherStep
  <1>3. CASE PlaylistMoves
    BY <1>1, <1>3, MoveStep DEF PlaylistMoves, displayVars
  <1>4. CASE Tick
    <2>1. seen' = seen
      BY <1>4 DEF Tick, displayVars
    <2> QED
      BY <1>1, <1>4, <2>1, TickStep
  <1>5. ASSUME NEW p \in Polls, GetCurrentPlaylist(p)
        PROVE  KioskInv' /\ seen' >= seen
    BY <1>1, <1>5, PollStep DEF GetCurrentPlaylist, displayVars
  <1> QED
    BY <1>2, <1>3, <1>4, <1>5, SettleStep DEF KioskNext, PollProgress

LEMMA KioskInvariant == KioskSpec => []KioskInv
  BY KioskStarts, KioskSteps, PTL DEF KioskSpec

-----------------------------------------------------------------------------

\* Every variable of the kiosk keeps to its type.
THEOREM KioskTypeCorrect == KioskSpec => []KioskTypeOK
  <1>1. KioskInv => KioskTypeOK
    BY DEF KioskInv
  <1> QED
    BY <1>1, KioskInvariant, PTL

\* Until polls overlap, the screen never takes an older state of the playlist for a newer.
THEOREM NeverBack == KioskSpec => NeverGoesBack
  <1>1. ASSUME KioskInv, [KioskNext]_kioskVars PROVE [seen' >= seen \/ overtaken]_kioskVars
    BY <1>1, KioskSteps
  <1> QED
    BY <1>1, KioskInvariant, PTL DEF KioskSpec, NeverGoesBack

-----------------------------------------------------------------------------
(* The four screens side by side.                                           *)

\* What each screen keeps; two of them need no more than their types.
ScreensInv == AdminTypeOK /\ BrowserTypeOK /\ KioskInv /\ PagesInv

\* Every step is one of a single screen, and the others keep what they have.
LEMMA ScreensSteps ==
    [Next]_vars => /\ [AdminNext]_adminVars /\ [BrowserNext]_browserVars
                   /\ [KioskNext]_kioskVars /\ [PagesNext]_pagesVars
  BY DEF Next, vars

\* The four screens keep to the types of their state, whichever of them runs.
THEOREM ScreensTypes == Spec => []ScreensTypeOK
  <1>1. Init => ScreensInv
    BY AdminTypeInit, BrowserTypeInit, KioskStarts, PagesStart DEF Init, ScreensInv
  <1>2. ScreensInv /\ [Next]_vars => ScreensInv'
    BY ScreensSteps, AdminTypeNext, BrowserTypeNext, KioskSteps, Inductive DEF ScreensInv
  <1>3. ScreensInv => ScreensTypeOK
    BY DEF ScreensInv, ScreensTypeOK, KioskInv, PagesInv
  <1> QED BY <1>1, <1>2, <1>3, PTL DEF Spec

=============================================================================
