------------------------------ MODULE SaeJoin ------------------------------
(***************************************************************************)
(* WPA3-SAE over JoinBss. A connect that finds wpa3_sae set does not join: *)
(* it schedules a work item, which asks the supplicant to authenticate,    *)
(* and the join begins when the supplicant answers through external_auth.  *)
(* The request goes out twice, by unicast and by multicast, and either may *)
(* be lost, so a connect may get no answer, one or two, at any later time. *)
(* connect, disconnect and external_auth exclude each other (U); the work  *)
(* item runs beside them. The security settings are reset by a command     *)
(* that each report of a disconnection queues, and by some failed joins.   *)
(***************************************************************************)
EXTENDS JoinBss

CONSTANTS MaxAsks,   \* bound: requests that reach the supplicant
          MaxEvents  \* bound: these, the calls and the losses together

ASSUME SaeAssumption == MaxAsks \in Nat /\ MaxEvents \in Nat

VARIABLES wpa3_sae,  \* psecuritypriv->wpa3_sae
          dot1x,     \* and dot11AuthAlgrthm is dot11AuthAlgrthm_8021X (else it has no effect)
          key,       \* the key management of the connect U is in, once it is set
          reset,     \* RESET_SECURITYPRIV commands are queued for K
          work,      \* sae_ext_auth_work is pending
          asks,      \* requests the supplicant may answer, for the connect of cfg80211
          stale      \* the same, for connects that are over

(***************************************************************************)
(* What the code does not keep: the key management of the connect that     *)
(* waits for the supplicant ("none": no connect does); that the last call  *)
(* of cfg80211 that succeeded was a connect; and that something was        *)
(* applied although the connect it is about is over: an answer, the        *)
(* failure of the work item, or the loss of the access point, on which the *)
(* station begins to roam. asked counts the requests so far.               *)
(***************************************************************************)
VARIABLES auth, wanted, late, asked

security == <<wpa3_sae, dot1x, reset>>
history  == <<wanted, late, asked>>
saeVars  == <<security, key, work, asks, stale, auth, history>>
allVars  == <<vars, saeVars>>

SaeInit ==
    /\ Init
    /\ wpa3_sae = FALSE /\ dot1x = FALSE /\ key = "none" /\ reset = FALSE
    /\ work = FALSE /\ asks = 0 /\ stale = 0
    /\ auth = "none" /\ wanted = FALSE /\ late = FALSE /\ asked = 0

\* rtw_reset_securitypriv clears all, but only for a network with 802.1X.
ResetSecurity == wpa3_sae' = (wpa3_sae /\ ~dot1x) /\ dot1x' = FALSE

\* rtw_os_indicate_disconnect queues the reset with its report.
ResetQueued(reported) ==
    reset' = (reset \/ reported) /\ UNCHANGED <<wpa3_sae, dot1x>>

\* A report that ends the connect leaves its a unanswered requests behind with the s
\* old ones; nothing withdraws them.
Owe(a, s) ==
    IF awaiting /\ ~awaiting'
    THEN asks' = 0 /\ stale' = s + a
    ELSE asks' = a /\ stale' = s

\* The steps of JoinBss that know nothing of SAE.
Follows ==
    /\ Owe(asks, stale)
    /\ auth' = IF awaiting' THEN auth ELSE "none"
    /\ late' = (late \/ (~wanted /\ to_roam = 0 /\ to_roam' > 0))
    /\ UNCHANGED <<key, work, wanted, asked>>

\* Events may be added while there are fewer than MaxEvents.
Bounded == calls' + losses' + asked' <= MaxEvents

-----------------------------------------------------------------------------
(* U: cfg80211_rtw_connect around rtw_set_802_11_connect, and disconnect.   *)

SaeConnectBegins ==
    /\ ConnectBegins
    /\ UNCHANGED saeVars
    /\ Bounded

\* The settings of the last network are replaced by those of an open one,
SaeConnectOpen ==
    /\ upc = "connect" /\ key = "none"
    /\ key' = "unset"
    /\ dot1x' = FALSE
    /\ UNCHANGED <<vars, wpa3_sae, reset, work, asks, stale, auth, history>>

\* and rtw_cfg80211_set_key_mgt sets those of the key management, if there is one.
SaeConnectKey ==
    /\ upc = "connect" /\ key = "unset"
    /\ key' \in {"sae", "other"}
    /\ wpa3_sae' = (wpa3_sae \/ key' = "sae")
    /\ dot1x' \in {key' = "sae", wpa3_sae'}
    /\ UNCHANGED <<vars, reset, work, asks, stale, auth, history>>

KeyIsSet == key \in {"sae", "other"}

\* Refused before the test of wpa3_sae, or by rtw_set_802_11_connect.
SaeConnectRefused ==
    /\ KeyIsSet => ~wpa3_sae
    /\ ConnectRefused
    /\ key' = "none"
    /\ UNCHANGED <<security, work, asks, stale, auth, history>>

SaeConnectJoin ==
    /\ KeyIsSet /\ ~wpa3_sae
    /\ ConnectJoin \/ ConnectLater
    /\ ResetQueued(linked /\ ~linked' /\ to_roam = 0)
    /\ key' = "none"
    /\ wanted' = (wanted \/ awaiting')
    /\ UNCHANGED <<work, asks, stale, auth, late, asked>>

\* Mutant: the connect schedules the work item and returns an error.
SaeConnectAsks_Error ==
    /\ upc = "connect" /\ KeyIsSet /\ wpa3_sae
    /\ work' = TRUE
    /\ auth' = IF told THEN "none" ELSE key
    /\ wanted' = TRUE
    /\ key' = "none"
    /\ upc' = "idle"
    /\ UNCHANGED <<fw, intent, state, retry, timers, scans, queue, kpc, rpc, tpc, reports,
                   inputs, overlap, security, asks, stale, late, asked>>

\* The parameters are stored and the work item is scheduled. A result that an earlier
\* join has reported meanwhile is the result of this connect.
SaeConnectAsks ==
    /\ upc = "connect" /\ KeyIsSet /\ wpa3_sae
    /\ work' = TRUE
    /\ auth' = IF told THEN "none" ELSE key
    /\ awaiting' = ~told /\ wanted' = TRUE
    /\ key' = "none"
    /\ upc' = "idle"
    /\ UNCHANGED <<fw, intent, state, retry, timers, scans, queue, kpc, rpc, tpc, told,
                   inputs, overlap, security, asks, stale, late, asked>>

SaeDisconnectBegins ==
    /\ DisconnectBegins
    /\ wanted' = FALSE
    /\ UNCHANGED <<security, key, work, asks, stale, auth, late, asked>>
    /\ Bounded

-----------------------------------------------------------------------------
(* The work item, and U: cfg80211_rtw_external_auth.                        *)

SaeWorkAsks ==
    /\ work /\ work' = FALSE
    /\ \E n \in 0 .. 2 :
         /\ asked' = asked + n /\ asked' <= MaxAsks
         /\ IF auth # "none" THEN asks' = asks + n /\ UNCHANGED stale
                             ELSE stale' = stale + n /\ UNCHANGED asks
    /\ UNCHANGED <<vars, security, key, auth, wanted, late>>
    /\ Bounded

\* cfg80211_external_auth_request fails: the work item reports a failed connect.
SaeWorkFails ==
    /\ work /\ work' = FALSE
    /\ ReportDisconnect
    /\ Owe(asks, stale)
    /\ auth' = "none"
    /\ late' = (late \/ auth = "none")
    /\ UNCHANGED <<fw, intent, state, retry, timers, scans, queue, pcs, inputs, overlap,
                   security, key, wanted, asked>>

\* The supplicant answers; the handler compares nothing with the request.
Answered ==
    /\ upc = "idle"
    /\ \/ asks > 0 /\ Owe(asks - 1, stale) /\ UNCHANGED late
       \/ stale > 0 /\ Owe(asks, stale - 1) /\ late' = TRUE
    /\ auth' = "none"
    /\ UNCHANGED <<key, work, wanted, asked>>

\* The supplicant has failed.
ExternalAuthFailed ==
    /\ ReportDisconnect
    /\ Answered
    /\ UNCHANGED <<fw, intent, state, retry, timers, scans, queue, pcs, inputs, overlap,
                   security>>

\* rtw_set_802_11_connect with the stored parameters, as in ConnectJoin; its failure
\* is reported.
ExternalAuthJoin ==
    /\ LockFree /\ ~survey /\ ~linking
    /\ \E outcome \in Outcome, candidate \in BOOLEAN :
         LET left == candidate /\ linked
         IN  /\ outcome = "join" => candidate
             /\ DoJoin(queue, left, outcome)
             /\ linked' = (linked /\ ~left) /\ sta' = (sta /\ ~left)
             /\ IF outcome = "fail" THEN ReportDisconnect
                ELSE IF left THEN IndicateDisconnect ELSE UNCHANGED reports
    /\ reset' = (reset \/ (linked /\ ~linked' /\ to_roam = 0))
    /\ dot1x' = wpa3_sae
    /\ Answered
    /\ UNCHANGED <<to_roam, state, retry, link_timer, pcs, inputs, overlap, wpa3_sae>>

ExternalAuthLater ==
    /\ LockFree /\ (survey \/ linking)
    /\ to_join' = (to_join \/ survey)
    /\ dot1x' = wpa3_sae
    /\ UNCHANGED <<fw, to_roam, state, retry, timers, scans, queue, pcs, reports, inputs,
                   overlap, wpa3_sae, reset>>
    /\ Answered

-----------------------------------------------------------------------------
(* The other steps, by what they do to the security settings.              *)

\* reset_securitypriv_hdl.
ResetHdl ==
    /\ kpc = "idle" /\ reset /\ reset' \in BOOLEAN
    /\ ResetSecurity
    /\ UNCHANGED <<vars, key, work, asks, stale, auth, history>>

\* rtw_joinbss_event_prehandle of the result -4.
Refused == ResetSecurity /\ UNCHANGED reset

DiscStep ==
    /\ \/ (DisconnectHdl \/ DisconnectClear) /\ UNCHANGED security
       \/ DisconnectReport /\ ResetQueued(to_roam = 0)
    /\ Follows

SaeKStep ==
    \/ ResetHdl
    \/ /\ \/ /\ JoinCmd \/ JoinDropped \/ DiscCmd
                \/ SurveyDone \/ SurveyedIdle \/ SurveyedAgain
             /\ UNCHANGED security
          \/ JoinCmdFails /\ Refused
          \/ SurveyedJoin /\ ResetQueued(linked /\ to_roam = 0)
          \/ (StaDel("deauth") \/ StaDel("expired")) /\ ResetQueued(to_roam' = 0)
          \/ SurveyedGiveUp /\ ResetQueued(TRUE)
       /\ Follows

SaeRStep ==
    /\ \/ /\ StartClntAuth \/ OnAuthAgain \/ StartClntAssoc \/ AssocDone
             \/ ReportJoin \/ JoinIgnored \/ JoinConnected \/ JoinCancelsTimer
          /\ UNCHANGED security
       \/ ReportFail /\ IF rpc = "refused" THEN Refused ELSE UNCHANGED security
    /\ Follows

SaeTStep ==
    /\ \/ (AssocTimer \/ JoinTimeoutRoams) /\ UNCHANGED security
       \/ (JoinTimeout \/ RoamNext) /\ ResetQueued(to_roam' = 0)
    /\ Follows

SaeLinkTimerStep == LinkTimerStep /\ UNCHANGED security /\ Follows

SaeUStep == \/ SaeConnectOpen \/ SaeConnectKey \/ SaeConnectJoin \/ SaeConnectAsks
            \/ SaeConnectRefused

SaeWorkStep == SaeWorkAsks \/ SaeWorkFails

SaeEnv == /\ \/ ScanBegins \/ SurveyTimeout
             \/ OnBeacon \/ OnAuthClient \/ OnAssocRsp \/ ReceiveRefusal
             \/ OnDeAuth \/ LinkedStatusChk
          /\ UNCHANGED security /\ Follows /\ Bounded

SaeNext == \/ SaeUStep \/ DiscStep \/ SaeWorkStep
           \/ SaeKStep \/ SaeRStep \/ SaeTStep \/ SaeLinkTimerStep
           \/ SaeConnectBegins \/ SaeDisconnectBegins
           \/ ExternalAuthFailed \/ ExternalAuthJoin \/ ExternalAuthLater
           \/ SaeEnv

SaeSpec == SaeInit /\ [][SaeNext]_allVars

\* As in JoinBss; a work item that is pending runs, but no supplicant is obliged to
\* answer.
SaeFairness == /\ WF_allVars(SaeUStep) /\ WF_allVars(DiscStep) /\ WF_allVars(SaeWorkStep)
               /\ WF_allVars(SaeKStep) /\ WF_allVars(SaeRStep) /\ WF_allVars(SaeTStep)
               /\ WF_allVars(SaeLinkTimerStep)

FairSaeSpec == SaeSpec /\ SaeFairness

-----------------------------------------------------------------------------
(* Properties.                                                              *)

\* The requests that are out stay within their bound, none is kept for a connect that
\* is over, and a connect waits for the supplicant only while cfg80211 waits for it.
SaeTypeOK ==
    /\ asks \in Nat /\ stale \in Nat /\ asked \in 0 .. MaxAsks /\ asks + stale <= asked
    /\ key \in {"none", "unset", "sae", "other"}
    /\ auth \in {"none", "sae", "other"}
    /\ asks > 0 \/ auth # "none" => awaiting
    /\ \A b \in {wpa3_sae, dot1x, reset, work, wanted, late} : b \in BOOLEAN

\* A station that is linked has been reported: no time-out, roam, deauthentication or
\* answer of the supplicant takes the connection away from cfg80211 and leaves the
\* driver linked, unless it came too late or a disconnect overlapped a locked section.
LinkedIsReported == linked /\ upc = "idle" => told \/ overlap \/ late

\* cfg80211 is told of a connection only if its last call was a connect: what a
\* disconnect finds under way (a survey for a join, a queued join command, a roam,
\* a work item) does not complete behind its back, with the same exceptions.
ConnectedOnPurpose == told /\ upc = "idle" => wanted \/ overlap \/ late

\* cfg80211 gets an answer to every connect that does not wait for the supplicant,
\* whatever is lost, refused or late in authentication and association, unless the
\* deadlock is met.
ConnectAnswered == awaiting ~> (~awaiting \/ auth # "none" \/ Deadlocked)

\* "if SAE key_mgmt was detected, store connection params and either trigger external
\* auth ..." (os_dep/linux/ioctl_cfg80211.c): a connect with another key management
\* is not handed to the supplicant.
OnlySaeAsks == auth # "other"
=============================================================================
