--------------------------------- MODULE Kiosk ---------------------------------
(***************************************************************************)
(* kiosk-teams: a screen nobody operates.  It reads its configuration once, *)
(* then asks the server every few seconds what the playlist has for it now, *)
(* and shows the page it is given or, when the item's URL carries a Teams   *)
(* meeting, joins that meeting.                                             *)
(*                                                                         *)
(* The timer does not wait for the answer before: requests overlap, and     *)
(* answers come in any order.  An error status is shown with alert(), which *)
(* stops every script of the page until somebody dismisses it; a request    *)
(* that gets no answer at all is dropped without a word.                    *)
(***************************************************************************)
EXTENDS Naturals

CONSTANTS
    Items,     \* URLs of the playlist
    Meetings,  \* the ones that carry a meeting
    NoItem,    \* no item now; also no meeting
    Unset,     \* _lastUrl before the first answer
    Polls,     \* requests that may be under way at once
    MaxMoves,  \* bound: changes of what plays now
    MaxKioskFaults  \* bound: requests that fail

ASSUME KioskAssumption ==
    /\ Meetings \subseteq Items
    /\ NoItem \notin Items /\ Unset \notin Items \cup {NoItem}
    /\ MaxMoves \in Nat /\ MaxKioskFaults \in Nat

VARIABLES
    now, moves,   \* what the server's playlist has now, and its changes so far
    config,       \* serviceConfiguration: its request, and then the timer
    poll,         \* the polls; at: the moves when the server answered
    alerting,
    lastUrl,
    current,      \* currentPlayListItem
    meeting,      \* currentTeamsMeetingDetails and its ref
    teamsCall,    \* what TeamsCallContainer has got to
    kioskFaults,
    seen,         \* history: the moves as of the last answer heard
    overtaken     \* history: a poll was sent while another was under way

kioskVars == <<now, moves, config, poll, alerting, lastUrl, current, meeting, teamsCall,
               kioskFaults, seen, overtaken>>

AnyItem == Items \cup {NoItem}
NoPoll == [stage |-> "none", item |-> NoItem, at |-> 0]

KioskTypeOK ==
    /\ now \in AnyItem /\ moves \in 0 .. MaxMoves /\ seen \in 0 .. MaxMoves
    /\ config \in {"sent", "ok", "error", "failed", "on"}
    /\ poll \in [Polls -> [stage : {"none", "sent", "ok", "error"}, item : AnyItem,
                           at : 0 .. MaxMoves]]
    /\ lastUrl \in AnyItem \cup {Unset} /\ current \in AnyItem
    /\ meeting \in Meetings \cup {NoItem}
    /\ teamsCall \in {"none", "asked", "joined", "failed"}
    /\ kioskFaults \in 0 .. MaxKioskFaults
    /\ alerting \in BOOLEAN /\ overtaken \in BOOLEAN

KioskInit ==
    /\ now \in AnyItem /\ moves = 0
    /\ config = "sent"
    /\ poll = [p \in Polls |-> NoPoll]
    /\ alerting = FALSE
    /\ lastUrl = Unset /\ current = NoItem /\ meeting = NoItem /\ teamsCall = "none"
    /\ kioskFaults = 0 /\ seen = 0 /\ overtaken = FALSE

-----------------------------------------------------------------------------

displayVars == <<lastUrl, current, meeting, teamsCall, seen>>

\* Time passes: another item of the playlist starts, or the one of now ends.
PlaylistMoves ==
    /\ moves < MaxMoves
    /\ moves' = moves + 1
    /\ now' \in AnyItem \ {now}
    /\ UNCHANGED <<config, poll, alerting, displayVars, kioskFaults, overtaken>>

KioskFault == kioskFaults < MaxKioskFaults /\ kioskFaults' = kioskFaults + 1

ServeConfig ==
    /\ config = "sent"
    /\ \/ config' = "ok" /\ UNCHANGED kioskFaults
       \/ config' \in {"error", "failed"} /\ KioskFault
    /\ UNCHANGED <<now, moves, poll, alerting, displayVars, overtaken>>

\* The configuration starts the timer; without it the screen stays at "Loading", since
\* nothing asks for it again.
ConfigSettles ==
    /\ ~alerting
    /\ config \in {"ok", "error"}
    /\ config' = IF config = "ok" THEN "on" ELSE "failed"
    /\ alerting' = (config = "error")
    /\ UNCHANGED <<now, moves, poll, displayVars, kioskFaults, overtaken>>

\* loadCurrentPlaylistItem: at the start, and whenever the timer fires.
Tick ==
    /\ config = "on" /\ ~alerting
    /\ \E p \in Polls : /\ poll[p] = NoPoll
                        /\ poll' = [poll EXCEPT ![p].stage = "sent"]
    /\ overtaken' = (overtaken \/ \E p \in Polls : poll[p] # NoPoll)
    /\ UNCHANGED <<now, moves, config, alerting, displayVars, kioskFaults>>

\* A plausible bug: the answer may come from a cache, and be one change old.
GetCachedPlaylist(p) ==
    /\ poll[p].stage = "sent"
    /\ \E item \in AnyItem : \E at \in {n \in 0 .. moves : n + 1 >= moves} :
         poll' = [poll EXCEPT ![p] = [stage |-> "ok", item |-> item, at |-> at]]
    /\ UNCHANGED <<now, moves, config, alerting, displayVars, kioskFaults, overtaken>>

\* The item whose time it is, if there is one.  No answer is no step of the page at all.
GetCurrentPlaylist(p) ==
    /\ poll[p].stage = "sent"
    /\ \/ /\ poll' = [poll EXCEPT ![p] = [stage |-> "ok", item |-> now, at |-> moves]]
          /\ UNCHANGED kioskFaults
       \/ /\ poll' \in {[poll EXCEPT ![p].stage = "error"], [poll EXCEPT ![p] = NoPoll]}
          /\ KioskFault
    /\ UNCHANGED <<now, moves, config, alerting, displayVars, overtaken>>

\* A plausible bug: every item is joined as a meeting.
PlayMeeting(item) == current' = item /\ meeting' = item /\ teamsCall' = "asked"

\* A plausible bug: a meeting is never left.
PlayBehind(item) ==
    /\ current' = item
    /\ IF item \in Meetings /\ meeting = NoItem
       THEN meeting' = item /\ teamsCall' = "asked"
       ELSE UNCHANGED <<meeting, teamsCall>>

\* The callback of start.  A meeting starts when none is on, and ends with the first item
\* that is none; a meeting that follows a meeting changes nothing.
Play(item) ==
    /\ current' = item
    /\ IF item \in Meetings
       THEN IF meeting = NoItem
            THEN meeting' = item /\ teamsCall' = "asked"
            ELSE UNCHANGED <<meeting, teamsCall>>
       ELSE meeting' = NoItem /\ teamsCall' = "none"

PollSettles(p) ==
    /\ ~alerting
    /\ poll[p].stage \in {"ok", "error"}
    /\ poll' = [poll EXCEPT ![p] = NoPoll]
    /\ alerting' = (poll[p].stage = "error")
    /\ \/ /\ poll[p].stage = "ok"
          /\ lastUrl' = poll[p].item
          /\ seen' = poll[p].at
          /\ IF lastUrl # poll[p].item THEN Play(poll[p].item)
                                       ELSE UNCHANGED <<current, meeting, teamsCall>>
       \/ poll[p].stage = "error" /\ UNCHANGED displayVars
    /\ UNCHANGED <<now, moves, config, kioskFaults, overtaken>>

\* createUserAndToken, and the joining; the container is gone by the time of an answer
\* when the meeting has ended, and asks anew for the next.
CallSettles ==
    /\ ~alerting
    /\ teamsCall = "asked"
    /\ \/ teamsCall' = "joined" /\ UNCHANGED kioskFaults
       \/ teamsCall' = "failed" /\ KioskFault
    /\ UNCHANGED <<now, moves, config, poll, alerting, lastUrl, current, meeting, seen,
                   overtaken>>

Dismiss ==
    /\ alerting
    /\ alerting' = FALSE
    /\ UNCHANGED <<now, moves, config, poll, displayVars, kioskFaults, overtaken>>

ConfigProgress == ServeConfig \/ ConfigSettles
PollProgress(p) == GetCurrentPlaylist(p) \/ PollSettles(p)

KioskNext ==
    \/ PlaylistMoves \/ ConfigProgress \/ Tick \/ CallSettles \/ Dismiss
    \/ \E p \in Polls : PollProgress(p)

\* The timer fires and requests come to an end; nobody need dismiss an alert.
KioskFair ==
    /\ WF_kioskVars(ConfigProgress) /\ WF_kioskVars(Tick) /\ WF_kioskVars(CallSettles)
    /\ \A p \in Polls : WF_kioskVars(PollProgress(p))

KioskSpec == KioskInit /\ [][KioskNext]_kioskVars /\ KioskFair

-----------------------------------------------------------------------------

(* What a screen shows never goes back to an earlier state of the playlist,  *)
(* unless polls overlapped: then the answer of an older one may come last,   *)
(* and leave a meeting that is on.                                           *)
NeverGoesBack == [][seen' >= seen \/ overtaken]_kioskVars

Stopped == alerting \/ "failed" \in {config, teamsCall}
Shows(item) == IF item \in Meetings THEN meeting = item /\ teamsCall = "joined"
                                    ELSE meeting = NoItem /\ current = item

(* When the playlist stays as it is, the screen ends up with it, whatever    *)
(* polls overlapped or were lost, but for two cases.  One is a screen that   *)
(* stopped: at an alert, or because its configuration or its token failed,   *)
(* which it asks for once.  The other is a meeting right after a meeting:    *)
(* the screen stays in the first.                                            *)
KioskShowsNow ==
    <>[](Stopped \/ Shows(now) \/ (now \in Meetings /\ meeting \notin {now, NoItem}))

=============================================================================
