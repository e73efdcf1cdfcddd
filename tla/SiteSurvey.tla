----------------------------- MODULE SiteSurvey -----------------------------
(***************************************************************************)
(* The site survey: from a scan request of cfg80211, or a join that finds  *)
(* no candidate, to the report that the scan is done.                      *)
(*                                                                         *)
(*   U  a process inside cfg80211_rtw_scan or rtw_scan_abort; cfg80211     *)
(*      calls the driver from one process at a time;                       *)
(*   K  the command thread: sitesurvey_cmd_hdl, once for each channel, and *)
(*      rtw_surveydone_event_callback;                                     *)
(*   T  the handlers of survey_timer and scan_to_timer;                    *)
(*   R  the receive tasklet, which may ask for an abort.                   *)
(* pmlmepriv->lock only guards sections that are one step here. Joins are  *)
(* seen through the _FW_UNDER_LINKING flag and the surveys they start; the *)
(* type of the interface through WIFI_MONITOR_STATE.                       *)
(***************************************************************************)
EXTENDS Integers, Sequences

CONSTANTS ChNum,       \* ss->ch_num, channels of a scan
          MaxRequest,  \* bound: scan requests of cfg80211
          MaxJoin      \* bound: surveys started by joins

ASSUME ScanAssumption == /\ ChNum \in Nat \ {0}
                         /\ MaxRequest \in Nat /\ MaxJoin \in Nat

VARIABLES survey,         \* _FW_UNDER_SURVEY
          linking,        \* _FW_UNDER_LINKING
          monitor,        \* WIFI_MONITOR_STATE
          state,          \* mlmeext_scan_state
          channel_idx,
          scan_abort,
          survey_timer, scan_to_timer,
          queue,          \* the commands of the survey in the command queue
          scan_request,   \* pwdev_priv->scan_request, 0 when NULL
          upc, kpc, tpc,  \* where U, K and the handler of scan_to_timer are
          joins           \* surveys started by joins so far

(***************************************************************************)
(* What the code does not keep: the request cfg80211 has outstanding       *)
(* (0: none) and their number so far; whether a request was turned down    *)
(* with its pointer left in scan_request; whether a request was reported   *)
(* that is not the outstanding one; whether the last command of a scan     *)
(* under way came to nothing; whether, since the last survey began, a      *)
(* command or an event was lost with no time-out set; the requests that    *)
(* were accepted in monitor mode.                                          *)
(***************************************************************************)
VARIABLES cfgReq, requests, leftBehind, staleReport, halted, lost, forsaken

scanVars == <<state, channel_idx, survey_timer>>
reqVars  == <<scan_request, cfgReq, staleReport>>
lostVars == <<halted, lost, forsaken>>
vars == <<scanVars, reqVars, survey, linking, scan_abort, scan_to_timer, queue,
          upc, kpc, tpc, joins, requests, leftBehind, monitor, lostVars>>

Init ==
    /\ survey = FALSE /\ linking = FALSE /\ monitor = FALSE
    /\ state = "disable" /\ channel_idx = 0 /\ scan_abort = FALSE
    /\ survey_timer = FALSE /\ scan_to_timer = FALSE
    /\ queue = << >>
    /\ scan_request = 0 /\ cfgReq = 0 /\ requests = 0
    /\ upc = "idle" /\ kpc = "idle" /\ tpc = "idle"
    /\ joins = 0
    /\ leftBehind = FALSE /\ staleReport = FALSE
    /\ halted = FALSE /\ lost = FALSE /\ forsaken = {}

\* rtw_cfg80211_indicate_scan_done, under scan_req_lock.
IndicateScanDone_KeepsPointer ==
    /\ scan_request' = scan_request
    /\ cfgReq' = IF scan_request # 0 /\ scan_request = cfgReq THEN 0 ELSE cfgReq
    /\ staleReport' = (staleReport \/ scan_request \notin {0, cfgReq})

IndicateScanDone ==
    /\ scan_request' = 0
    /\ cfgReq' = IF scan_request # 0 /\ scan_request = cfgReq THEN 0 ELSE cfgReq
    /\ staleReport' = (staleReport \/ scan_request \notin {0, cfgReq})

\* rtw_sitesurvey_cmd, whose callers hold pmlmepriv->lock: in monitor mode it does
\* nothing, with success.
StartSurvey ==
    IF monitor
    THEN UNCHANGED <<survey, queue, scan_to_timer, lost>>
    ELSE /\ survey' = TRUE
         /\ queue' = Append(queue, "survey")
         /\ scan_to_timer' = TRUE
         /\ lost' = FALSE

\* A command or an event of the survey comes to nothing: unless scan_to_timer is
\* set, nothing else ends the survey.
Lose == lost' = (lost \/ ~scan_to_timer)

-----------------------------------------------------------------------------
(* U: cfg80211_rtw_scan.                                                    *)

\* cfg80211 has at most one request outstanding.
ScanRequest ==
    /\ upc = "idle" /\ cfgReq = 0
    /\ requests < MaxRequest /\ requests' = requests + 1
    /\ cfgReq' = requests' /\ scan_request' = requests'
    /\ upc' = "scan"
    /\ UNCHANGED <<scanVars, staleReport, survey, linking, scan_abort, scan_to_timer, queue,
                   kpc, tpc, joins, leftBehind, monitor, lostVars>>

\* A survey is under way, or scans are blocked or denied, or the device does not
\* wake up: the request is reported done at once.
ScanSkipped ==
    /\ upc = "scan"
    /\ IndicateScanDone
    /\ upc' = "idle"
    /\ UNCHANGED <<scanVars, survey, linking, scan_abort, scan_to_timer, queue,
                   kpc, tpc, joins, requests, leftBehind, monitor, lostVars>>

\* The request is turned down: cfg80211 forgets it, scan_request is left as it is.
TurnDown ==
    /\ cfgReq' = 0
    /\ leftBehind' = (leftBehind \/ scan_request # 0)
    /\ upc' = "idle"
    /\ UNCHANGED <<scan_request, staleReport>>

\* -EBUSY: the driver is joining a network.
ScanBusy ==
    /\ upc = "scan" /\ ~survey /\ linking
    /\ TurnDown
    /\ UNCHANGED <<scanVars, survey, linking, scan_abort, scan_to_timer, queue,
                   kpc, tpc, joins, requests, monitor, lostVars>>

ScanChecked ==
    /\ upc = "scan" /\ ~survey /\ ~linking
    /\ upc' = "start"
    /\ UNCHANGED <<scanVars, reqVars, survey, linking, scan_abort, scan_to_timer, queue,
                   kpc, tpc, joins, requests, leftBehind, monitor, lostVars>>

\* In monitor mode the request is accepted and stays with nobody.
ScanStart ==
    /\ upc = "start"
    /\ StartSurvey
    /\ forsaken' = IF monitor THEN forsaken \cup ({cfgReq} \ {0}) ELSE forsaken
    /\ upc' = "idle"
    /\ UNCHANGED <<scanVars, reqVars, linking, scan_abort, kpc, tpc, joins, requests,
                   leftBehind, monitor, halted>>

\* rtw_sitesurvey_cmd fails: out of memory, or the command is not accepted.
ScanStartFails ==
    /\ upc = "start" /\ ~monitor
    /\ survey' \in {survey, FALSE}
    /\ TurnDown
    /\ UNCHANGED <<scanVars, linking, scan_abort, scan_to_timer, queue,
                   kpc, tpc, joins, requests, monitor, lostVars>>

-----------------------------------------------------------------------------
(* U: rtw_scan_abort, called to connect, to disconnect and to close.        *)

AbortBegins ==
    /\ upc = "idle"
    /\ scan_abort' = TRUE
    /\ upc' = "abort"
    /\ UNCHANGED <<scanVars, reqVars, survey, linking, scan_to_timer, queue,
                   kpc, tpc, joins, requests, leftBehind, monitor, lostVars>>

\* The survey has ended in time, or 200 ms are over and its request is reported.
AbortWaited ==
    /\ upc = "abort"
    /\ IF survey THEN IndicateScanDone ELSE UNCHANGED reqVars
    /\ upc' = "abortend"
    /\ UNCHANGED <<scanVars, survey, linking, scan_abort, scan_to_timer, queue,
                   kpc, tpc, joins, requests, leftBehind, monitor, lostVars>>

AbortEnds ==
    /\ upc = "abortend"
    /\ scan_abort' = FALSE
    /\ upc' = "idle"
    /\ UNCHANGED <<scanVars, reqVars, survey, linking, scan_to_timer, queue,
                   kpc, tpc, joins, requests, leftBehind, monitor, lostVars>>

\* R: rtw_scan_abort_no_wait, on the reception of a GAS request.
AbortNoWait ==
    /\ survey
    /\ scan_abort' = TRUE
    /\ UNCHANGED <<scanVars, reqVars, survey, linking, scan_to_timer, queue,
                   upc, kpc, tpc, joins, requests, leftBehind, monitor, lostVars>>

-----------------------------------------------------------------------------
(* K: sitesurvey_cmd_hdl.                                                   *)

\* SCAN_PROCESS with the index i: an abort moves the index to the end. A channel
\* is visited until survey_timer fires; behind the last one the scan completes.
ProcessChannel_ForgetsTimer(i) ==
    LET j == IF scan_abort THEN ChNum ELSE i
    IN  /\ scan_abort' = FALSE
        /\ channel_idx' = j
        /\ IF j < ChNum
           THEN state' = "process" /\ queue' = Tail(queue)
           ELSE state' = "disable" /\ queue' = Append(Tail(queue), "done")
        /\ survey_timer' = survey_timer
        /\ halted' = FALSE

ProcessChannel_OnePastLast(i) ==
    LET j == IF scan_abort THEN ChNum ELSE i
    IN  /\ scan_abort' = FALSE
        /\ channel_idx' = j
        /\ IF j <= ChNum
           THEN state' = "process" /\ survey_timer' = TRUE /\ queue' = Tail(queue)
           ELSE state' = "disable" /\ UNCHANGED survey_timer
                /\ queue' = Append(Tail(queue), "done")
        /\ halted' = FALSE

ProcessChannel(i) ==
    LET j == IF scan_abort THEN ChNum ELSE i
    IN  /\ scan_abort' = FALSE
        /\ channel_idx' = j
        /\ IF j < ChNum
           THEN state' = "process" /\ survey_timer' = TRUE /\ queue' = Tail(queue)
           ELSE state' = "disable" /\ UNCHANGED survey_timer
                /\ queue' = Append(Tail(queue), "done")
        /\ halted' = FALSE

TakeSurvey == kpc = "idle" /\ queue # << >> /\ Head(queue) = "survey"

\* SCAN_DISABLE: the scan starts. A station that is associated first announces
\* power save and waits 50 ms (SCAN_PS_ANNC_WAIT).
SurveyStart(announce) ==
    /\ TakeSurvey /\ ~monitor /\ state = "disable"
    /\ IF announce
       THEN /\ state' = "annc" /\ channel_idx' = 0
            /\ survey_timer' = TRUE
            /\ queue' = Tail(queue)
            /\ halted' = FALSE
            /\ UNCHANGED scan_abort
       ELSE ProcessChannel(0)
    /\ UNCHANGED <<reqVars, survey, linking, scan_to_timer, upc, kpc, tpc, joins,
                   requests, leftBehind, monitor, lost, forsaken>>

SurveyNext ==
    /\ TakeSurvey /\ ~monitor /\ state # "disable"
    /\ ProcessChannel(IF state = "process" THEN channel_idx + 1 ELSE channel_idx)
    /\ UNCHANGED <<reqVars, survey, linking, scan_to_timer, upc, kpc, tpc, joins,
                   requests, leftBehind, monitor, lost, forsaken>>

\* Monitor mode: success at once. A scan under way stands where it is.
SurveyIgnored ==
    /\ TakeSurvey /\ monitor
    /\ queue' = Tail(queue)
    /\ halted' = TRUE
    /\ Lose
    /\ UNCHANGED <<scanVars, reqVars, survey, linking, scan_abort, scan_to_timer, upc, kpc,
                   tpc, joins, requests, leftBehind, monitor, forsaken>>

\* The thread drops the command: rtw_survey_cmd_callback sets scan_to_timer to 1 ms.
SurveyDropped ==
    /\ TakeSurvey
    /\ queue' = Tail(queue)
    /\ scan_to_timer' = TRUE
    /\ halted' = TRUE
    /\ UNCHANGED <<scanVars, reqVars, survey, linking, scan_abort, upc, kpc, tpc, joins,
                   requests, leftBehind, monitor, lost, forsaken>>

-----------------------------------------------------------------------------
(* K: rtw_surveydone_event_callback.                                        *)

TakeDone == kpc = "idle" /\ queue # << >> /\ Head(queue) = "done"

DoneClear_Forgotten ==
    /\ TakeDone
    /\ queue' = Tail(queue)
    /\ kpc' = "cancel"
    /\ UNCHANGED <<scanVars, reqVars, survey, linking, scan_abort, scan_to_timer, upc, tpc,
                   joins, requests, leftBehind, monitor, lostVars>>

DoneClear ==
    /\ TakeDone
    /\ queue' = Tail(queue)
    /\ survey' = FALSE
    /\ kpc' = "cancel"
    /\ UNCHANGED <<scanVars, reqVars, linking, scan_abort, scan_to_timer, upc, tpc, joins,
                   requests, leftBehind, monitor, lostVars>>

\* The event is lost: the thread drops its command, or there was no memory for it.
DoneDropped ==
    /\ TakeDone
    /\ queue' = Tail(queue)
    /\ Lose
    /\ UNCHANGED <<scanVars, reqVars, survey, linking, scan_abort, scan_to_timer, upc, kpc,
                   tpc, joins, requests, leftBehind, monitor, halted, forsaken>>

\* _cancel_timer waits for the handler; it also stops the timer of a survey that
\* was started after DoneClear.
DoneCancel ==
    /\ kpc = "cancel" /\ tpc = "idle"
    /\ scan_to_timer' = FALSE
    /\ kpc' = "report"     \* a join may follow: see JoinSurvey and LinkBegins
    /\ UNCHANGED <<scanVars, reqVars, survey, linking, scan_abort, queue, upc, tpc, joins,
                   requests, leftBehind, monitor, lostVars>>

DoneReport_Forgotten ==
    /\ kpc = "report"
    /\ kpc' = "idle"
    /\ UNCHANGED <<scanVars, reqVars, survey, linking, scan_abort, scan_to_timer, queue, upc,
                   tpc, joins, requests, leftBehind, monitor, lostVars>>

DoneReport ==
    /\ kpc = "report"
    /\ IndicateScanDone
    /\ kpc' = "idle"
    /\ UNCHANGED <<scanVars, survey, linking, scan_abort, scan_to_timer, queue, upc,
                   tpc, joins, requests, leftBehind, monitor, lostVars>>

-----------------------------------------------------------------------------
(* T: survey_timer_hdl and rtw_scan_timeout_handler.                        *)

SurveyTimer ==
    /\ survey_timer /\ survey_timer' = FALSE
    /\ queue' = IF state # "disable" THEN Append(queue, "survey") ELSE queue
    /\ UNCHANGED <<state, channel_idx, reqVars, survey, linking, scan_abort, scan_to_timer,
                   upc, kpc, tpc, joins, requests, leftBehind, monitor, lostVars>>

\* No memory for the command of the next channel, or it is not accepted.
SurveyTimerFails ==
    /\ survey_timer /\ survey_timer' = FALSE
    /\ state # "disable"
    /\ halted' = TRUE
    /\ Lose
    /\ UNCHANGED <<state, channel_idx, reqVars, survey, linking, scan_abort, scan_to_timer,
                   queue, upc, kpc, tpc, joins, requests, leftBehind, monitor, forsaken>>

ScanTimeout ==
    /\ scan_to_timer /\ tpc = "idle"
    /\ scan_to_timer' = FALSE
    /\ tpc' = "clear"
    /\ UNCHANGED <<scanVars, reqVars, survey, linking, scan_abort, queue,
                   upc, kpc, joins, requests, leftBehind, monitor, lostVars>>

ScanTimeoutClear ==
    /\ tpc = "clear"
    /\ survey' = FALSE
    /\ tpc' = "report"
    /\ UNCHANGED <<scanVars, reqVars, linking, scan_abort, scan_to_timer, queue,
                   upc, kpc, joins, requests, leftBehind, monitor, lostVars>>

ScanTimeoutReport ==
    /\ tpc = "report"
    /\ IndicateScanDone
    /\ tpc' = "idle"
    /\ UNCHANGED <<scanVars, survey, linking, scan_abort, scan_to_timer, queue,
                   upc, kpc, joins, requests, leftBehind, monitor, lostVars>>

-----------------------------------------------------------------------------
(* Joins.                                                                   *)

\* rtw_do_join without a candidate, to connect or to roam: no test of the survey
\* flag on the way from a time-out or an event.
JoinSurvey ==
    /\ joins < MaxJoin /\ joins' = joins + 1
    /\ StartSurvey
    /\ UNCHANGED <<scanVars, reqVars, linking, scan_abort, upc, kpc, tpc, requests,
                   leftBehind, monitor, halted, forsaken>>

LinkBegins ==
    /\ ~linking /\ linking' = TRUE
    /\ UNCHANGED <<scanVars, reqVars, survey, scan_abort, scan_to_timer, queue,
                   upc, kpc, tpc, joins, requests, leftBehind, monitor, lostVars>>

\* The join fails, or succeeds: rtw_joinbss_update_network then overwrites all of
\* fw_state, the flags of a survey and of monitor mode included.
LinkEnds ==
    /\ linking /\ linking' = FALSE
    /\ \/ UNCHANGED <<survey, monitor>>
       \/ survey' = FALSE /\ monitor' = FALSE
    /\ UNCHANGED <<scanVars, reqVars, scan_abort, scan_to_timer, queue,
                   upc, kpc, tpc, joins, requests, leftBehind, lostVars>>

-----------------------------------------------------------------------------
(* U: rtw_set_802_11_infrastructure_mode, to and from monitor mode or        *)
(* between other types. All of fw_state is cleared, whatever is under way.   *)

ChangeIface(m) ==
    /\ upc = "idle"
    /\ monitor' = m
    /\ survey' = FALSE /\ linking' = FALSE
    /\ UNCHANGED <<scanVars, reqVars, scan_abort, scan_to_timer, queue,
                   upc, kpc, tpc, joins, requests, leftBehind, lostVars>>

-----------------------------------------------------------------------------
UStep == \/ ScanSkipped \/ ScanBusy \/ ScanChecked \/ ScanStart \/ ScanStartFails
         \/ AbortWaited \/ AbortEnds

KStep == \/ SurveyStart(TRUE) \/ SurveyStart(FALSE) \/ SurveyNext \/ SurveyIgnored
         \/ SurveyDropped \/ DoneClear \/ DoneDropped \/ DoneCancel \/ DoneReport

TStep == ScanTimeout \/ ScanTimeoutClear \/ ScanTimeoutReport

STimer == SurveyTimer \/ SurveyTimerFails

Env == \/ ScanRequest \/ AbortBegins \/ AbortNoWait \/ JoinSurvey \/ LinkBegins \/ LinkEnds
       \/ \E m \in BOOLEAN : ChangeIface(m)

Next == UStep \/ KStep \/ TStep \/ STimer \/ Env

Spec == Init /\ [][Next]_vars

\* A process inside the driver and the command thread go on, and timers fire.
\* Nobody is obliged to ask for a scan, to abort one, to join or to change the
\* type of the interface.
Fairness == WF_vars(UStep) /\ WF_vars(KStep) /\ WF_vars(TStep) /\ WF_vars(STimer)

FairSpec == Spec /\ Fairness

-----------------------------------------------------------------------------
(* Properties.                                                              *)

TypeOK ==
    /\ survey \in BOOLEAN /\ linking \in BOOLEAN /\ scan_abort \in BOOLEAN
    /\ survey_timer \in BOOLEAN /\ scan_to_timer \in BOOLEAN
    /\ monitor \in BOOLEAN /\ leftBehind \in BOOLEAN /\ staleReport \in BOOLEAN
    /\ halted \in BOOLEAN /\ lost \in BOOLEAN
    /\ forsaken \subseteq 1 .. requests
    /\ state \in {"disable", "annc", "process"}
    /\ channel_idx \in 0 .. ChNum
    /\ queue \in Seq({"survey", "done"})
    /\ scan_request \in 0 .. requests /\ cfgReq \in 0 .. requests
    /\ requests \in 0 .. MaxRequest /\ joins \in 0 .. MaxJoin
    /\ upc \in {"idle", "scan", "start", "abort", "abortend"}
    /\ kpc \in {"idle", "cancel", "report"}
    /\ tpc \in {"idle", "clear", "report"}

\* cfg80211_scan_done is only called with the request that is outstanding, whoever
\* ends the scan first, unless a request was turned down with its pointer left.
ReportsOutstanding == staleReport => leftBehind

\* "avoid WARN_ON(request != wiphy_to_dev(request->wiphy)->scan_req)": the same
\* without the exception.
NoStaleReport == ~staleReport

InQueue(c) == \E i \in 1 .. Len(queue) : queue[i] = c

\* A scan that has started always has a timer or a command that takes it to the
\* next channel. It may stand only behind a command that was dropped, that was
\* ignored in monitor mode or that the timer could not queue, and only until a
\* later survey takes it up.
ScanGoesOn == state # "disable" => survey_timer \/ InQueue("survey") \/ halted

\* The survey flag is never left set for good: something is under way that clears
\* it, although the end of one survey may cancel the time-out of the next. The
\* exception is a command or an event that is lost after such a cancellation.
SurveyEnds == survey ~> (~survey \/ lost)

\* cfg80211 gets an answer to every request, whatever command, event or tick is
\* lost and however the type of the interface changes meanwhile: the time-out of a
\* survey is cancelled only by one who reports the request. The exception is a
\* request accepted in monitor mode, where no survey begins.
RequestAnswered == \A r \in 1 .. MaxRequest : (cfgReq = r) ~> (cfgReq # r \/ r \in forsaken)
=============================================================================
