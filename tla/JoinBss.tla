------------------------------ MODULE JoinBss ------------------------------
(***************************************************************************)
(* Joining a network in station mode: connect and disconnect of cfg80211,  *)
(* authentication and association, time-outs and roaming.                  *)
(*                                                                         *)
(*   U  a process inside cfg80211_rtw_connect or cfg80211_rtw_disconnect;  *)
(*   K  the command thread: join, disconnect, station-deleted and          *)
(*      survey-done;                                                       *)
(*   R  the receive tasklet: beacons, authentication and association       *)
(*      responses, deauthentication;                                       *)
(*   T  the handlers of link_timer and assoc_timer.                        *)
(* pmlmepriv->lock is held over several steps by R ("locked", "cancel")    *)
(* and by the handler of assoc_timer ("roam"). The disconnect of cfg80211  *)
(* takes no lock. Surveys are reduced to their survey-done event.          *)
(***************************************************************************)
EXTENDS Integers, Sequences

CONSTANTS MaxRoam,    \* registrypriv.max_roaming_times
          RoamMod,    \* to_roam counts modulo this (2^8)
          Limit,      \* REAUTH_LIMIT and REASSOC_LIMIT
          MaxCalls,   \* bound: connects, disconnects and scans of cfg80211
          MaxLoss,    \* bound: access points that fall silent
          MaxInputs   \* bound: both together

ASSUME JoinAssumption ==
    /\ MaxRoam \in Nat \ {0} /\ RoamMod \in Nat /\ MaxRoam < RoamMod
    /\ {Limit, MaxCalls, MaxLoss, MaxInputs} \subseteq Nat

VARIABLES linking, linked,          \* _FW_UNDER_LINKING, _FW_LINKED
          survey,                   \* _FW_UNDER_SURVEY
          sta,                      \* the station entry of the access point exists
          to_join, to_roam,
          state,                    \* pmlmeinfo->state, a set of flags
          retry,                    \* reauth_count, reassoc_count
          assoc_timer, link_timer,
          scans,                    \* surveys that have not had their done event
          queue,                    \* commands and events for K
          upc, kpc, rpc, tpc        \* where U, K, R and assoc_timer's handler are

(***************************************************************************)
(* What the code does not keep: the connect of cfg80211 is unanswered; the *)
(* last report to cfg80211 was "connected"; the inputs so far; and whether *)
(* a step of the disconnect that should hold the lock was taken while      *)
(* another context was inside the lock.                                    *)
(***************************************************************************)
VARIABLES awaiting, told, calls, losses, overlap

fw       == <<linking, linked, survey, sta>>
intent   == <<to_join, to_roam>>
timers   == <<assoc_timer, link_timer>>
reports  == <<awaiting, told>>
inputs   == <<calls, losses>>
pcs      == <<upc, kpc, rpc, tpc>>
vars == <<fw, intent, state, retry, timers, scans, queue, pcs, reports, inputs, overlap>>

Flags == {"station", "auth_null", "auth", "auth_success", "assoc", "assoc_success"}
LinkingState == {"auth_null", "auth", "auth_success", "assoc"}

Init ==
    /\ linking = FALSE /\ linked = FALSE /\ survey = FALSE /\ sta = FALSE
    /\ to_join = FALSE /\ to_roam = 0
    /\ state = {} /\ retry = 0
    /\ assoc_timer = FALSE /\ link_timer = FALSE
    /\ scans = 0 /\ queue = << >>
    /\ upc = "idle" /\ kpc = "idle" /\ rpc = "idle" /\ tpc = "idle"
    /\ awaiting = FALSE /\ told = FALSE
    /\ calls = 0 /\ losses = 0
    /\ overlap = FALSE

LockFree == rpc \notin {"locked", "cancel"} /\ tpc # "roam"

Associated == {"station", "assoc_success"} \subseteq state   \* is_client_associated_to_ap

\* rtw_cfg80211_indicate_disconnect: a disconnection of a linked station, the failure
\* of a connect otherwise; either ends a connect of cfg80211.
ReportDisconnect == told' = FALSE /\ awaiting' = FALSE

\* The report of rtw_indicate_disconnect: none of a station that roams.
IndicateDisconnect == IF to_roam > 0 THEN UNCHANGED reports ELSE ReportDisconnect

\* rtw_sitesurvey_cmd: a survey that is under way may serve this request too.
StartSurvey ==
    /\ survey' = TRUE
    /\ scans' \in {scans + 1} \cup (IF scans > 0 THEN {scans} ELSE {})

\* rtw_do_join: a candidate is joined, or without one (or when its command cannot
\* be queued) a survey is started, or both fail. With a candidate a linked station
\* leaves its network first: `left`. q is the queue to add to.
Outcome == {"join", "survey", "fail"}

DoJoin_NoTimer(q, left, outcome) ==
    /\ linking' = (outcome = "join") /\ to_join' = (outcome = "survey")
    /\ assoc_timer' = assoc_timer
    /\ queue' = q \o (IF left THEN <<"disc">> ELSE << >>)
                  \o (IF outcome = "join" THEN <<"join">> ELSE << >>)
    /\ IF outcome = "survey" THEN StartSurvey ELSE UNCHANGED <<survey, scans>>

DoJoin(q, left, outcome) ==
    /\ linking' = (outcome = "join") /\ to_join' = (outcome = "survey")
    /\ assoc_timer' = (assoc_timer \/ outcome = "join")
    /\ queue' = q \o (IF left THEN <<"disc">> ELSE << >>)
                  \o (IF outcome = "join" THEN <<"join">> ELSE << >>)
    /\ IF outcome = "survey" THEN StartSurvey ELSE UNCHANGED <<survey, scans>>

\* The failed join of rtw_joinbss_event_prehandle: assoc_timer is set to 1 ms.
JoinFails == linking' = FALSE /\ assoc_timer' = TRUE

-----------------------------------------------------------------------------
(* U: cfg80211_rtw_connect.                                                 *)

Call == calls < MaxCalls /\ calls + losses < MaxInputs /\ calls' = calls + 1

\* cfg80211 connects when it is neither connected nor connecting; -EBUSY otherwise.
ConnectBegins ==
    /\ upc = "idle" /\ ~told /\ ~awaiting /\ ~linking
    /\ Call
    /\ upc' = "connect"      \* rtw_scan_abort, if a survey is under way
    /\ UNCHANGED <<fw, intent, state, retry, timers, scans, queue, kpc, rpc, tpc, reports,
                   losses, overlap>>

\* rtw_set_802_11_connect, not finding a survey or a join under way.
ConnectJoin ==
    /\ upc = "connect" /\ LockFree /\ ~survey /\ ~linking
    /\ \E outcome \in Outcome, candidate \in BOOLEAN :
         LET left == candidate /\ linked
         IN  /\ outcome = "join" => candidate
             /\ DoJoin(queue, left, outcome)
             /\ linked' = (linked /\ ~left) /\ sta' = (sta /\ ~left)
             /\ told' = (told /\ ~left)
             /\ awaiting' = (outcome # "fail")
    /\ upc' = "idle"
    /\ UNCHANGED <<to_roam, state, retry, link_timer, kpc, rpc, tpc, inputs, overlap>>

\* The survey that is under way will join, or a join is under way already.
ConnectLater ==
    /\ upc = "connect" /\ LockFree /\ (survey \/ linking)
    /\ to_join' = (to_join \/ survey)
    /\ awaiting' = TRUE
    /\ upc' = "idle"
    /\ UNCHANGED <<fw, to_roam, state, retry, timers, scans, queue, kpc, rpc, tpc, told,
                   inputs, overlap>>

\* The device does not wake up, or the parameters are refused.
ConnectRefused ==
    /\ upc = "connect"
    /\ upc' = "idle"
    /\ UNCHANGED <<fw, intent, state, retry, timers, scans, queue, kpc, rpc, tpc, reports,
                   inputs, overlap>>

-----------------------------------------------------------------------------
(* U: cfg80211_rtw_disconnect, which never takes the lock.                  *)

\* Mutant: the survey for a join under way is not called off.
DisconnectBegins_KeepsJoin ==
    /\ upc = "idle" /\ (told \/ awaiting)
    /\ Call
    /\ to_roam' = 0
    /\ upc' = "disc"
    /\ overlap' = (overlap \/ ~LockFree)
    /\ UNCHANGED <<fw, to_join, state, retry, timers, scans, queue, kpc, rpc, tpc, reports,
                   losses>>

DisconnectBegins ==
    /\ upc = "idle" /\ (told \/ awaiting)
    /\ Call
    /\ to_roam' = 0 /\ to_join' = FALSE
    /\ upc' = "disc"
    /\ overlap' = (overlap \/ ~LockFree)
    /\ UNCHANGED <<fw, state, retry, timers, scans, queue, kpc, rpc, tpc, reports, losses>>

\* disconnect_hdl, called directly.
DisconnectHdl ==
    /\ upc = "disc"
    /\ state' = {} /\ link_timer' = FALSE
    /\ upc' = "indicate"
    /\ UNCHANGED <<fw, intent, retry, assoc_timer, scans, queue, kpc, rpc, tpc, reports,
                   inputs, overlap>>

\* rtw_indicate_disconnect up to the report.
DisconnectReport ==
    /\ upc = "indicate"
    /\ linking' = FALSE /\ sta' = FALSE     \* rtw_free_assoc_resources
    /\ IndicateDisconnect
    /\ upc' = "clear"
    /\ overlap' = (overlap \/ ~LockFree)
    /\ UNCHANGED <<linked, survey, intent, state, retry, timers, scans, queue, kpc, rpc, tpc,
                   inputs>>

DisconnectClear ==
    /\ upc = "clear"
    /\ linked' = FALSE
    /\ upc' = "idle"
    /\ overlap' = (overlap \/ ~LockFree)
    /\ UNCHANGED <<sta, linking, survey, intent, state, retry, timers, scans, queue, kpc, rpc, tpc,
                   reports, inputs>>

-----------------------------------------------------------------------------
(* K: the commands join and disconnect.                                     *)

Take(c) == kpc = "idle" /\ queue # << >> /\ Head(queue) = c /\ queue' = Tail(queue)

\* join_cmd_hdl and start_clnt_join: wait for a beacon.
JoinCmd ==
    /\ Take("join")
    /\ state' = {"station", "auth_null"}
    /\ link_timer' = TRUE /\ assoc_timer' = TRUE
    /\ UNCHANGED <<fw, intent, retry, scans, pcs, reports, inputs, overlap>>

\* join_cmd_hdl on a network it cannot use: the join is reported as failed.
JoinCmdFails ==
    /\ LockFree
    /\ Take("join")
    /\ state' = IF "assoc_success" \in state THEN {} ELSE state
    /\ link_timer' = (link_timer /\ "assoc_success" \notin state)
    /\ JoinFails
    /\ UNCHANGED <<sta, linked, survey, intent, retry, scans, pcs, reports, inputs, overlap>>

\* The thread drops the command: rtw_joinbss_cmd_callback.
JoinDropped ==
    /\ Take("join")
    /\ assoc_timer' = TRUE
    /\ UNCHANGED <<fw, intent, state, retry, link_timer, scans, pcs, reports, inputs, overlap>>

\* disconnect_hdl.
DiscCmd ==
    /\ Take("disc")
    /\ state' = {} /\ link_timer' = FALSE
    /\ UNCHANGED <<fw, intent, retry, assoc_timer, scans, pcs, reports, inputs, overlap>>

-----------------------------------------------------------------------------
(* K: rtw_stadel_event_callback and rtw_surveydone_event_callback.          *)

\* The joins of a roam with k tries left, for the k of ks; the last failure is
\* reported. A station that roams is not linked.
Roam(q, ks) ==
    \/ /\ \E k \in ks, outcome \in {"join", "survey"} :
            to_roam' = k /\ DoJoin(q, FALSE, outcome)
       /\ UNCHANGED reports
    \/ /\ to_roam' = 0
       /\ DoJoin(q, FALSE, "fail")
       /\ ReportDisconnect

\* The tries after a loss ("expired"); none after a deauthentication ("deauth").
TriesAfter(c) == IF c = "deauth" THEN 0
                 ELSE IF to_roam > 0 THEN to_roam - 1 ELSE MaxRoam

StaDel(c) ==
    /\ kpc = "idle" /\ queue # << >> /\ Head(queue) = c /\ LockFree
    /\ state' = IF Associated THEN {} ELSE state
    /\ link_timer' = (link_timer /\ ~Associated)
    /\ linked' = FALSE /\ sta' = FALSE
    /\ IF TriesAfter(c) > 0
       THEN Roam(Tail(queue), 1 .. TriesAfter(c))
       ELSE /\ to_roam' = 0 /\ to_join' = (to_join /\ c = "expired")
            /\ linking' = FALSE
            /\ ReportDisconnect
            /\ queue' = Tail(queue)
            /\ UNCHANGED <<survey, scans, assoc_timer>>
    /\ UNCHANGED <<retry, pcs, inputs, overlap>>

SurveyDone ==
    /\ kpc = "idle" /\ scans > 0 /\ LockFree
    /\ scans' = scans - 1
    /\ survey' = FALSE
    /\ kpc' = "surveyed"
    /\ UNCHANGED <<sta, linking, linked, intent, state, retry, timers, queue, upc, rpc, tpc,
                   reports, inputs, overlap>>

SurveyedIdle ==
    /\ kpc = "surveyed" /\ LockFree /\ ~to_join
    /\ kpc' = "idle"
    /\ UNCHANGED <<fw, intent, state, retry, timers, scans, queue, upc, rpc, tpc, reports,
                   inputs, overlap>>

\* The survey was for a join and has found a candidate.
SurveyedJoin ==
    /\ kpc = "surveyed" /\ LockFree /\ to_join
    /\ DoJoin(queue, linked, "join")
    /\ IF linked THEN IndicateDisconnect ELSE UNCHANGED reports
    /\ linked' = FALSE /\ sta' = (sta /\ ~linked)
    /\ kpc' = "idle"
    /\ UNCHANGED <<to_roam, state, retry, link_timer, upc, rpc, tpc, inputs, overlap>>

\* No candidate: a roam with tries left starts another survey.
SurveyedAgain ==
    /\ kpc = "surveyed" /\ LockFree /\ to_join /\ to_roam > 1
    /\ to_roam' = to_roam - 1
    /\ StartSurvey
    /\ linking' = FALSE
    /\ kpc' = "idle"
    /\ UNCHANGED <<sta, linked, to_join, state, retry, timers, queue, upc, rpc, tpc, reports,
                   inputs, overlap>>

SurveyedGiveUp_Silent ==
    /\ kpc = "surveyed" /\ LockFree /\ to_join
    /\ to_roam' = 0 /\ to_join' = FALSE
    /\ linking' = FALSE /\ linked' = FALSE /\ sta' = (sta /\ to_roam = 0)
    /\ kpc' = "idle"
    /\ UNCHANGED <<survey, state, retry, timers, scans, queue, upc, rpc, tpc, reports,
                   inputs, overlap>>

SurveyedGiveUp ==
    /\ kpc = "surveyed" /\ LockFree /\ to_join
    /\ to_roam' = 0 /\ to_join' = FALSE
    /\ linking' = FALSE /\ linked' = FALSE /\ sta' = (sta /\ to_roam = 0)
    /\ ReportDisconnect
    /\ kpc' = "idle"
    /\ UNCHANGED <<survey, state, retry, timers, scans, queue, upc, rpc, tpc, inputs, overlap>>

-----------------------------------------------------------------------------
(* R: frames of the access point. Each handler tests the state, then cancels *)
(* link_timer, which may wait for its handler, then changes the state.      *)

RecvCheck(pc, ok) ==
    /\ rpc = "idle" /\ ok
    /\ rpc' = pc
    /\ UNCHANGED <<fw, intent, state, retry, timers, scans, queue, upc, kpc, tpc, reports,
                   inputs, overlap>>

OnBeacon == RecvCheck("beacon", "auth_null" \in state)

StartClntAuth ==
    /\ rpc = "beacon"
    /\ state' = (state \ {"auth_null"}) \cup {"auth"}
    /\ retry' = 0 /\ link_timer' = TRUE
    /\ rpc' = "idle"
    /\ UNCHANGED <<fw, intent, assoc_timer, scans, queue, upc, kpc, tpc, reports, inputs,
                   overlap>>

OnAuthClient == RecvCheck("auth", "auth" \in state)

\* The response is a refusal or a challenge: only the timer is set.
OnAuthAgain ==
    /\ rpc = "auth"
    /\ link_timer' = TRUE
    /\ rpc' = "idle"
    /\ UNCHANGED <<fw, intent, state, retry, assoc_timer, scans, queue, upc, kpc, tpc, reports,
                   inputs, overlap>>

StartClntAssoc ==
    /\ rpc = "auth"
    /\ state' = (state \ {"auth_null", "auth"}) \cup {"auth_success", "assoc"}
    /\ retry' = 0 /\ link_timer' = TRUE
    /\ rpc' = "idle"
    /\ UNCHANGED <<fw, intent, assoc_timer, scans, queue, upc, kpc, tpc, reports, inputs,
                   overlap>>

OnAssocRsp == RecvCheck("assoc", state \cap {"auth_success", "assoc"} # {}
                                 /\ "assoc_success" \notin state)

\* "join": a good response; "fail": its association id is zero; "refused".
AssocDone ==
    /\ rpc = "assoc"
    /\ \/ /\ state' = (state \ {"assoc"}) \cup {"assoc_success"}
          /\ rpc' \in {"join", "fail"}
       \/ state' = {} /\ rpc' = "refused"
    /\ link_timer' = FALSE
    /\ UNCHANGED <<fw, intent, retry, assoc_timer, scans, queue, upc, kpc, tpc, reports,
                   inputs, overlap>>

ReportFail ==
    /\ rpc \in {"fail", "refused"} /\ LockFree
    /\ JoinFails
    /\ rpc' = "idle"
    /\ UNCHANGED <<sta, linked, survey, intent, state, retry, link_timer, scans, queue, upc, kpc,
                   tpc, reports, inputs, overlap>>

\* rtw_joinbss_event_prehandle of a success: ignored unless a join is under way.
ReportJoin ==
    /\ rpc = "join" /\ LockFree
    /\ rpc' = IF linking THEN "locked" ELSE "idle"
    /\ UNCHANGED <<fw, intent, state, retry, timers, scans, queue, upc, kpc, tpc, reports,
                   inputs, overlap>>

\* s1 to s3: the network is not in the list, or (after fw_state is overwritten) its
\* station cannot be allocated.
JoinIgnored ==
    /\ rpc = "locked"
    /\ \/ UNCHANGED <<linking, linked, survey>> /\ sta' \in {sta, sta /\ ~linked}
       \/ linking' = FALSE /\ linked' = FALSE /\ survey' = FALSE /\ sta' = FALSE
    /\ rpc' = "idle"
    /\ UNCHANGED <<intent, state, retry, timers, scans, queue, upc, kpc, tpc, reports,
                   inputs, overlap>>

\* s2 and s4: fw_state is overwritten, rtw_indicate_connect.
JoinConnected ==
    /\ rpc = "locked"
    /\ linking' = FALSE /\ survey' = FALSE /\ linked' = TRUE /\ sta' = TRUE
    /\ to_join' = FALSE /\ to_roam' = 0
    /\ told' = TRUE /\ awaiting' = FALSE
    /\ rpc' = "cancel"
    /\ overlap' = (overlap \/ upc = "clear")
    /\ UNCHANGED <<state, retry, timers, scans, queue, upc, kpc, tpc, inputs>>

\* s5: assoc_timer is cancelled with the lock held, waiting for its handler.
JoinCancelsTimer ==
    /\ rpc = "cancel" /\ tpc = "idle"
    /\ assoc_timer' = FALSE
    /\ rpc' = "idle"
    /\ UNCHANGED <<fw, intent, state, retry, link_timer, scans, queue, upc, kpc, tpc, reports,
                   inputs, overlap>>

\* receive_disconnect of an association: the loss becomes an event for K.
ReceiveDisconnect(c) ==
    /\ Associated
    /\ queue' = Append(queue, c)
    /\ state' = {}
    /\ UNCHANGED <<fw, intent, retry, timers, scans, pcs, reports, calls, overlap>>

\* OnDeAuth and OnDisassoc.
OnDeAuth ==
    /\ rpc = "idle"
    /\ ReceiveDisconnect("deauth")
    /\ UNCHANGED losses

\* linked_status_chk: the access point, which has a station entry, is silent.
LinkedStatusChk ==
    /\ sta /\ losses < MaxLoss /\ calls + losses < MaxInputs /\ losses' = losses + 1
    /\ ReceiveDisconnect("expired")

\* receive_disconnect of a join under way.
ReceiveRefusal ==
    /\ rpc = "idle" /\ LockFree
    /\ "station" \in state /\ "assoc_success" \notin state /\ state \cap LinkingState # {}
    /\ JoinFails
    /\ state' = {}
    /\ UNCHANGED <<sta, linked, survey, intent, retry, link_timer, scans, queue, pcs, reports,
                   inputs, overlap>>

-----------------------------------------------------------------------------
(* T: link_timer_hdl and _rtw_join_timeout_handler.                         *)

\* Another try, unless the state is none in which the timer matters.
LinkTimer_OneMore ==
    /\ link_timer
    /\ state \cap {"auth", "assoc"} # {} => retry <= Limit
    /\ "auth_null" \notin state
    /\ IF state \cap {"auth", "assoc"} # {}
       THEN retry' = retry + 1 /\ UNCHANGED link_timer
       ELSE link_timer' = FALSE /\ UNCHANGED retry
    /\ UNCHANGED <<fw, intent, state, assoc_timer, scans, queue, pcs, reports, inputs, overlap>>

LinkTimer ==
    /\ link_timer
    /\ state \cap {"auth", "assoc"} # {} => retry < Limit
    /\ "auth_null" \notin state
    /\ IF state \cap {"auth", "assoc"} # {}
       THEN retry' = retry + 1 /\ UNCHANGED link_timer
       ELSE link_timer' = FALSE /\ UNCHANGED retry
    /\ UNCHANGED <<fw, intent, state, assoc_timer, scans, queue, pcs, reports, inputs, overlap>>

\* No beacon came, or the tries are used up.
LinkTimerFails ==
    /\ link_timer /\ LockFree
    /\ \/ "auth_null" \in state
       \/ state \cap {"auth", "assoc"} # {} /\ retry = Limit
    /\ state' = {} /\ link_timer' = FALSE
    /\ JoinFails
    /\ UNCHANGED <<sta, linked, survey, intent, retry, scans, queue, pcs, reports, inputs, overlap>>

AssocTimer ==
    /\ assoc_timer /\ tpc = "idle"
    /\ assoc_timer' = FALSE
    /\ tpc' = "fired"
    /\ UNCHANGED <<fw, intent, state, retry, link_timer, scans, queue, upc, kpc, rpc, reports,
                   inputs, overlap>>

\* Mutant: a time-out is reported only by a station that was linked.
JoinTimeout_OnlyLinked ==
    /\ tpc = "fired" /\ LockFree /\ to_roam = 0
    /\ linking' = FALSE /\ linked' = FALSE
    /\ IF linked THEN ReportDisconnect ELSE UNCHANGED reports
    /\ tpc' = "idle"
    /\ UNCHANGED <<sta, survey, intent, state, retry, timers, scans, queue, upc, kpc, rpc, inputs,
                   overlap>>

\* Mutant: a time-out leaves the linked flag alone.
JoinTimeout_KeepsLinked ==
    /\ tpc = "fired" /\ LockFree /\ to_roam = 0
    /\ linking' = FALSE
    /\ ReportDisconnect
    /\ tpc' = "idle"
    /\ UNCHANGED <<sta, linked, survey, intent, state, retry, timers, scans, queue, upc, kpc, rpc,
                   inputs, overlap>>

\* Not roaming: disconnected, reported once more as a failed connect.
JoinTimeout ==
    /\ tpc = "fired" /\ LockFree /\ to_roam = 0
    /\ linking' = FALSE /\ linked' = FALSE
    /\ ReportDisconnect
    /\ tpc' = "idle"
    /\ UNCHANGED <<sta, survey, intent, state, retry, timers, scans, queue, upc, kpc, rpc, inputs,
                   overlap>>

JoinTimeoutRoams_Always ==
    /\ tpc = "fired" /\ LockFree
    /\ tpc' = "roam"
    /\ UNCHANGED <<fw, intent, state, retry, timers, scans, queue, upc, kpc, rpc, reports,
                   inputs, overlap>>

JoinTimeoutRoams ==
    /\ tpc = "fired" /\ LockFree /\ to_roam > 0
    /\ tpc' = "roam"
    /\ UNCHANGED <<fw, intent, state, retry, timers, scans, queue, upc, kpc, rpc, reports,
                   inputs, overlap>>

\* The decrement is of whatever to_roam is by now, and wraps.
RoamNext ==
    LET n == (to_roam + RoamMod - 1) % RoamMod
    IN  /\ tpc = "roam"
        /\ IF n > 0
           THEN Roam(queue, 1 .. n) /\ UNCHANGED linked
           ELSE /\ to_roam' = 0
                /\ linking' = FALSE /\ linked' = FALSE
                /\ ReportDisconnect
                /\ UNCHANGED <<to_join, survey, scans, queue, assoc_timer>>
        /\ tpc' = "idle"
        /\ UNCHANGED <<sta, state, retry, link_timer, upc, kpc, rpc, inputs, overlap>>

-----------------------------------------------------------------------------
(* Surveys that cfg80211 asks for, and the time-out of any survey.          *)

ScanBegins ==
    /\ upc = "idle" /\ LockFree /\ ~survey /\ ~linking
    /\ Call
    /\ StartSurvey
    /\ UNCHANGED <<sta, linking, linked, intent, state, retry, timers, queue, pcs, reports, losses,
                   overlap>>

SurveyTimeout ==
    /\ survey /\ LockFree
    /\ survey' = FALSE
    /\ UNCHANGED <<sta, linking, linked, intent, state, retry, timers, scans, queue, pcs, reports,
                   inputs, overlap>>

-----------------------------------------------------------------------------
UStep == \/ ConnectJoin \/ ConnectLater \/ ConnectRefused
         \/ DisconnectHdl \/ DisconnectReport \/ DisconnectClear

KStep == \/ JoinCmd \/ JoinCmdFails \/ JoinDropped \/ DiscCmd
         \/ StaDel("deauth") \/ StaDel("expired")
         \/ SurveyDone
         \/ SurveyedIdle \/ SurveyedJoin \/ SurveyedAgain \/ SurveyedGiveUp

RStep == \/ StartClntAuth \/ OnAuthAgain \/ StartClntAssoc \/ AssocDone
         \/ ReportFail \/ ReportJoin \/ JoinIgnored \/ JoinConnected \/ JoinCancelsTimer

TStep == AssocTimer \/ JoinTimeout \/ JoinTimeoutRoams \/ RoamNext

LinkTimerStep == LinkTimer \/ LinkTimerFails

Env == \/ ConnectBegins \/ DisconnectBegins \/ ScanBegins \/ SurveyTimeout
       \/ OnBeacon \/ OnAuthClient \/ OnAssocRsp \/ ReceiveRefusal
       \/ OnDeAuth \/ LinkedStatusChk

Next == UStep \/ KStep \/ RStep \/ TStep \/ LinkTimerStep \/ Env

Spec == Init /\ [][Next]_vars

\* Processes, the command thread and a handler that has begun go on, and timers
\* fire; nobody is obliged to connect, and no frame is obliged to arrive.
Fairness == /\ WF_vars(UStep) /\ WF_vars(KStep) /\ WF_vars(RStep)
            /\ WF_vars(TStep) /\ WF_vars(LinkTimerStep)

FairSpec == Spec /\ Fairness

-----------------------------------------------------------------------------
(* Properties.                                                              *)

\* The retry counter of a join and to_roam, which wraps, stay in their ranges, and
\* the rest of the state has values of its types.
TypeOK ==
    /\ linking \in BOOLEAN /\ linked \in BOOLEAN /\ survey \in BOOLEAN /\ sta \in BOOLEAN
    /\ to_join \in BOOLEAN /\ assoc_timer \in BOOLEAN /\ link_timer \in BOOLEAN
    /\ awaiting \in BOOLEAN /\ told \in BOOLEAN /\ overlap \in BOOLEAN
    /\ to_roam \in 0 .. RoamMod - 1
    /\ state \in SUBSET Flags
    /\ retry \in 0 .. Limit
    /\ scans \in Nat
    /\ queue \in Seq({"join", "disc", "deauth", "expired"})
    /\ upc \in {"idle", "connect", "disc", "indicate", "clear"}
    /\ kpc \in {"idle", "surveyed"}
    /\ rpc \in {"idle", "beacon", "auth", "assoc", "join", "fail", "refused", "locked", "cancel"}
    /\ tpc \in {"idle", "fired", "roam"}
    /\ calls \in 0 .. MaxCalls /\ losses \in 0 .. MaxLoss

\* The linking flag never stands without the timer that takes it back: assoc_timer
\* is set or its handler has begun, whatever rtw_do_join, the end of a join and a
\* time-out do at the same time. Without it the station would refuse to join for ever.
LinkingHasTimer == linking => assoc_timer \/ tpc # "idle"

\* What cfg80211 was last told is true: "connected" only of a station that is linked
\* or roams (rtw_indicate_disconnect is silent then), unless a disconnect without
\* the lock overlapped a locked section.
ReportedIsLinked ==
    told /\ upc = "idle" => linked \/ to_roam > 0 \/ overlap

\* "Other items are protected by mlme_priv.lock" (include/rtw_mlme.h): the same without
\* the exception, as it is when all that change fw_state and to_roam hold the lock.
ReportedIsTrue == told /\ upc = "idle" => linked \/ to_roam > 0

\* "the max number driver will try to roaming" (include/drv_types.h) bounds to_roam,
\* which the time-out, the loss of the access point and a survey without candidate
\* all decrement; with the same exception, as the decrement wraps.
RoamWithinLimit == to_roam <= MaxRoam \/ overlap

\* The lock is held by R, which waits for the handler of assoc_timer, which waits
\* for the lock.
Deadlocked == rpc = "cancel" /\ tpc = "fired"

\* "To avoid possible dead lock, any thread trying to modifiying mlme_priv SHALL not lock
\* up more than one locks at a time!": the cancelling of assoc_timer comes to an end.
CancelEnds == rpc = "cancel" ~> rpc = "idle"
=============================================================================
