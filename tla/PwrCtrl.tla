------------------------------ MODULE PwrCtrl ------------------------------
(***************************************************************************)
(* Inactive power save (IPS) of an unassociated station: the command       *)
(* thread K turns the radio off when it finds the station idle, and every  *)
(* process that needs the radio turns it on again with rtw_pwr_wakeup.     *)
(* What keeps K from turning it off under a process is: the reasons in     *)
(* ps_deny, the deadline ips_deny_time, the flag ps_processing by which a  *)
(* process waits for K, the flags of fw_state, and bpower_saving, which    *)
(* LPS shares. Only the first is read under a lock.                        *)
(*                                                                         *)
(* Also modelled: the timer that starts K's check, the ends of scans and   *)
(* joins (the timers and the receive tasklet) as far as they touch this    *)
(* state, LPS as far as it touches bpower_saving, suspend and resume.      *)
(* User processes are frozen before a suspend and thawed after it.         *)
(***************************************************************************)
EXTENDS Naturals, Sequences

CONSTANTS Cfg,          \* the process in cfg80211, whose calls exclude each other
          Procs,        \* others that start a scan and exclude nobody (proc's survey_info)
          MaxCalls,     \* bound: their calls and suspends together
          MaxQueue      \* bound: commands in the queue

Callers == {Cfg} \cup Procs

ASSUME PwrAssumption ==
    /\ MaxCalls \in Nat /\ MaxQueue \in Nat \ {0}
    /\ "K" \notin Callers /\ "nobody" \notin Callers

VARIABLES
    rf_pwrstate,        \* "on" or "off"
    hw_init_completed,
    bpower_saving,      \* in LPS or IPS
    bips_processing,
    lock,               \* holder of pwrctrl's lock: a caller, "K" or "nobody"
    ps_deny,            \* reasons not to save power
    ips_deny,           \* ips_deny_time is not over
    ps_processing,      \* K is in rtw_ps_processor, past the reasons
    bInSuspend,
    timer,              \* pwr_state_check_timer is pending
    queue,              \* commands for K: "ps", "lps" (leave LPS), "join"
    kpc,                \* where K is; "stopped" during a suspend
    fw,                 \* flags of fw_state: "linked", "linking", "survey"
    joining,            \* K has run a join: its answer may come
    connecting,         \* the tasklet, with mlmepriv.lock, is about to set "linked"
    ended,              \* a scan is over and not yet reported
    pc, op,             \* where a caller is and what it does
    sus                 \* where the suspend is; "no" when there is none

(***************************************************************************)
(* What the code does not keep: whether the deferral a caller's wakeup     *)
(* asked for has been in force, and K out of the way, ever since (held);   *)
(* that a join completed while K had already found no flag set (split);    *)
(* that bpower_saving was left over from before a suspend (stale).         *)
(***************************************************************************)
VARIABLES held, split, stale, calls

radio   == <<rf_pwrstate, hw_init_completed, bips_processing, lock>>
denial  == <<ps_deny, ips_deny, held>>
saving  == <<bpower_saving, stale>>
k       == <<kpc, ps_processing>>
mlme    == <<fw, joining, connecting, ended, split>>
caller  == <<pc, op, calls>>
suspend == <<bInSuspend, sus>>
vars    == <<radio, denial, saving, k, mlme, caller, suspend, timer, queue>>

Ops == {"scan", "connect", "sae", "disconnect", "none"}

\* PS_DENY_SCAN, PS_DENY_JOIN; a disconnect gives no reason.
Reason(o) == {r \in {"SCAN", "JOIN"} : \/ r = "SCAN" /\ o = "scan"
                                       \/ r = "JOIN" /\ o \in {"connect", "sae"}}

Init ==
    /\ rf_pwrstate = "on" /\ hw_init_completed = TRUE /\ bips_processing = FALSE
    /\ lock = "nobody"
    /\ ps_deny = {} /\ ips_deny = FALSE /\ held = [u \in Callers |-> FALSE]
    /\ bpower_saving = FALSE /\ stale = FALSE
    /\ kpc = "idle" /\ ps_processing = FALSE
    /\ fw = {} /\ joining = FALSE /\ connecting = FALSE /\ ended = FALSE /\ split = FALSE
    /\ pc = [u \in Callers |-> "idle"] /\ op = [u \in Callers |-> "none"] /\ calls = 0
    /\ bInSuspend = FALSE /\ sus = "no"
    /\ timer = TRUE /\ queue = <<>>

-----------------------------------------------------------------------------
(* Helpers                                                                  *)

\* rtw_cmd_filter: commands are refused while the hardware is down or K is not running.
Accepts == hw_init_completed /\ kpc # "stopped"

\* rtw_enqueue_cmd.
Enqueue(c) ==
    IF Accepts
    THEN Len(queue) < MaxQueue /\ queue' = Append(queue, c)
    ELSE UNCHANGED queue

\* The deferral is over, for every caller.
Release == ips_deny' = FALSE /\ held' = [u \in Callers |-> FALSE]

\* LPS_Leave.
LPS_Leave == bpower_saving' = FALSE /\ stale' = FALSE

\* The deadline is extended if it is smaller, in 32-bit jiffies: not if the new one wraps.
Extend == ips_deny' \in {TRUE, ips_deny}

\* rtw_indicate_disconnect, for a station that does not roam. The deadline is replaced: by
\* one that wraps it is over.
IndicateDisconnect ==
    /\ fw' = fw \ {"linked", "linking"}
    /\ \/ ips_deny' = TRUE /\ UNCHANGED held
       \/ Release
    /\ split' = (split /\ connecting)
    /\ Enqueue("lps")

\* rtw_reset_drv_sw: a scan that loses its flag here still ends by its timer.
ResetDrvSw ==
    /\ fw' = fw \ {"survey", "linking"}
    /\ ended' = (ended \/ "survey" \in fw)

Goes(u, where) == pc' = [pc EXCEPT ![u] = where]

\* The call is over.
Returns(u) ==
    /\ Goes(u, "idle")
    /\ op' = [op EXCEPT ![u] = "none"]
    /\ held' = [held EXCEPT ![u] = FALSE]

-----------------------------------------------------------------------------
(* K: the commands, and rtw_ps_processor.                                   *)

\* The head of the queue is dropped if the hardware is down; a dropped join ends by its
\* timer.
TakeCmd ==
    /\ kpc = "idle" /\ queue # <<>>
    /\ queue' = Tail(queue)
    /\ IF hw_init_completed
       THEN /\ kpc' = IF Head(queue) = "ps" THEN "deny" ELSE "idle"
            /\ IF Head(queue) = "lps" THEN LPS_Leave ELSE UNCHANGED saving
            /\ joining' = (joining \/ Head(queue) = "join")
       ELSE UNCHANGED <<kpc, saving, joining>>
    /\ UNCHANGED <<radio, denial, ps_processing, fw, connecting, ended, split, caller,
                   suspend, timer>>

\* Mutant: the check that ends without a decision is not repeated.
PsExit_NoTimer ==
    /\ kpc' = "idle" /\ ps_processing' = FALSE /\ UNCHANGED timer

\* The end of the processor: the next check is set for 2 s later.
PsExit ==
    /\ kpc' = "idle" /\ ps_processing' = FALSE /\ timer' = TRUE

PsDeny ==
    /\ kpc = "deny" /\ lock = "nobody"
    /\ IF ps_deny # {} THEN PsExit
       ELSE kpc' = "suspend" /\ UNCHANGED <<ps_processing, timer>>
    /\ UNCHANGED <<radio, denial, saving, mlme, caller, suspend, queue>>

\* Mutant: K does not announce that it is about to decide.
PsSuspend_Unmarked ==
    /\ kpc = "suspend"
    /\ kpc' = IF bInSuspend THEN "idle" ELSE "defer"
    /\ UNCHANGED <<radio, denial, saving, ps_processing, mlme, caller, suspend, timer, queue>>

\* During a suspend the processor returns and does not set the timer.
PsSuspend ==
    /\ kpc = "suspend"
    /\ IF bInSuspend
       THEN kpc' = "idle" /\ UNCHANGED ps_processing
       ELSE kpc' = "defer" /\ ps_processing' = TRUE
    /\ UNCHANGED <<radio, denial, saving, mlme, caller, suspend, timer, queue>>

\* rtw_pwr_unassociated_idle, one read after the other.
PsDefer ==
    /\ kpc = "defer"
    /\ IF bpower_saving \/ ips_deny THEN PsExit
       ELSE kpc' = "linked" /\ UNCHANGED <<ps_processing, timer>>
    /\ UNCHANGED <<radio, denial, saving, mlme, caller, suspend, queue>>

\* Mutant: only a scan or a join keeps the radio on.
PsLinked_SurveyOnly ==
    /\ kpc = "linked"
    /\ IF "survey" \in fw
       THEN PsExit /\ UNCHANGED split
       ELSE /\ kpc' = "linking" /\ split' = (split \/ connecting)
            /\ UNCHANGED <<ps_processing, timer>>
    /\ UNCHANGED <<radio, denial, saving, fw, joining, connecting, ended, caller, suspend,
                   queue>>

PsLinked ==
    /\ kpc = "linked"
    /\ IF fw \cap {"linked", "survey"} # {}
       THEN PsExit /\ UNCHANGED split
       ELSE /\ kpc' = "linking" /\ split' = (split \/ connecting)
            /\ UNCHANGED <<ps_processing, timer>>
    /\ UNCHANGED <<radio, denial, saving, fw, joining, connecting, ended, caller, suspend,
                   queue>>

PsLinking ==
    /\ kpc = "linking"
    /\ IF "linking" \in fw \/ rf_pwrstate = "off" THEN PsExit
       ELSE kpc' = "enter" /\ UNCHANGED <<ps_processing, timer>>
    /\ UNCHANGED <<radio, denial, saving, mlme, caller, suspend, queue>>

\* ips_enter: the lock, rtw_ips_pwr_down, and the end.
IpsEnter ==
    /\ kpc = "enter" /\ lock = "nobody"
    /\ lock' = "K" /\ bips_processing' = TRUE /\ bpower_saving' = TRUE
    /\ kpc' = "down"
    /\ UNCHANGED <<rf_pwrstate, hw_init_completed, denial, stale, ps_processing, mlme, caller,
                   suspend, timer, queue>>

IpsDown ==
    /\ kpc = "down"
    /\ hw_init_completed' = FALSE /\ kpc' = "off"
    /\ UNCHANGED <<rf_pwrstate, bips_processing, lock, denial, saving, ps_processing, mlme,
                   caller, suspend, timer, queue>>

IpsOff ==
    /\ kpc = "off"
    /\ rf_pwrstate' = "off" /\ bips_processing' = FALSE /\ lock' = "nobody"
    /\ kpc' = "exit"
    /\ UNCHANGED <<hw_init_completed, denial, saving, ps_processing, mlme, caller, suspend,
                   timer, queue>>

PsEnd ==
    /\ kpc = "exit" /\ PsExit
    /\ UNCHANGED <<radio, denial, saving, mlme, caller, suspend, queue>>

\* LPS_Enter, from the watchdog's command (rtw_dynamic_chk_wk_hdl): PS_RDY_CHECK wants
\* no flag but "linked".
LPS_Enter ==
    /\ kpc = "idle" /\ hw_init_completed /\ ~bInSuspend
    /\ fw = {"linked"} /\ ~bpower_saving
    /\ bpower_saving' = TRUE
    /\ UNCHANGED <<radio, denial, stale, k, mlme, caller, suspend, timer, queue>>

\* The access point is lost: an event K handles.
LinkLost ==
    /\ kpc = "idle" /\ hw_init_completed
    /\ "linked" \in fw /\ ~connecting
    /\ IndicateDisconnect
    /\ UNCHANGED <<radio, ps_deny, saving, k, joining, connecting, ended, caller, suspend,
                   timer>>

KStep ==
    \/ TakeCmd
    \/ PsDeny \/ PsSuspend \/ PsDefer \/ PsLinked \/ PsLinking \/ PsEnd
    \/ IpsEnter \/ IpsDown \/ IpsOff

-----------------------------------------------------------------------------
(* Timers and the receive tasklet.                                          *)

\* pwr_state_check_handler.
TimerFires ==
    /\ timer /\ timer' = FALSE
    /\ Enqueue("ps")
    /\ UNCHANGED <<radio, denial, saving, k, mlme, caller, suspend>>

\* The deferral runs out.
DeferralEnds ==
    /\ ips_deny /\ Release
    /\ UNCHANGED <<radio, ps_deny, saving, k, mlme, caller, suspend, timer, queue>>

\* A scan ends (its timer, or its last channel) under mlmepriv.lock, and is reported
\* after it: rtw_indicate_scan_done ends the deferral and checks at once.
ScanEnds ==
    /\ "survey" \in fw /\ ~connecting
    /\ fw' = fw \ {"survey"} /\ ended' = TRUE
    /\ UNCHANGED <<radio, denial, saving, k, joining, connecting, split, caller, suspend, timer,
                   queue>>

IndicateScanDone ==
    /\ ended /\ ended' = FALSE
    /\ IF ~bInSuspend /\ fw \cap {"linked", "linking"} = {}
       THEN Release /\ timer' = TRUE
       ELSE UNCHANGED <<ips_deny, held, timer>>
    /\ UNCHANGED <<radio, ps_deny, saving, k, fw, joining, connecting, split, caller, suspend,
                   queue>>

\* A join succeeds: rtw_joinbss_update_network overwrites fw_state, and only then
\* rtw_indicate_connect sets "linked".
JoinUpdate ==
    /\ joining /\ "linking" \in fw /\ ~connecting /\ hw_init_completed
    /\ fw' = {} /\ ended' = (ended \/ "survey" \in fw)
    /\ joining' = FALSE /\ connecting' = TRUE
    /\ split' = (kpc \in {"linking", "enter", "down", "off"})
    /\ UNCHANGED <<radio, denial, saving, k, caller, suspend, timer, queue>>

JoinConnect ==
    /\ connecting /\ connecting' = FALSE
    /\ fw' = fw \cup {"linked"}
    /\ UNCHANGED <<radio, denial, saving, k, joining, ended, split, caller, suspend, timer, queue>>

\* A join fails, by its timer; its answer may still come.
JoinFails ==
    /\ "linking" \in fw /\ ~connecting
    /\ IndicateDisconnect
    /\ UNCHANGED <<radio, ps_deny, saving, k, joining, connecting, ended, caller, suspend,
                   timer>>

-----------------------------------------------------------------------------
(* A caller: a reason, rtw_pwr_wakeup, the request, the reason cancelled.   *)

Begins(u, o) ==
    /\ pc[u] = "idle" /\ ~bInSuspend /\ calls < MaxCalls
    /\ op' = [op EXCEPT ![u] = o] /\ calls' = calls + 1

\* rtw_ps_deny.
Deny(u, o) ==
    /\ Begins(u, o) /\ lock = "nobody"
    /\ ps_deny' = ps_deny \cup Reason(o)
    /\ Goes(u, "defer")
    /\ UNCHANGED <<radio, ips_deny, held, saving, k, mlme, suspend, timer, queue>>

\* cfg80211_rtw_disconnect: LPS is left, the link given up and reported, without
\* mlmepriv.lock, so that a join may be about to complete; then a wakeup.
Disconnect ==
    /\ Begins(Cfg, "disconnect")
    /\ IF "linked" \in fw THEN LPS_Leave ELSE UNCHANGED saving
    /\ IndicateDisconnect
    /\ Goes(Cfg, "defer")
    /\ UNCHANGED <<radio, ps_deny, k, joining, connecting, ended, suspend, timer>>

\* _rtw_pwr_wakeup: LeaveAllPowerSaveMode, and the deferral.
Defer(u) ==
    /\ pc[u] = "defer" /\ Goes(u, "wait")
    /\ IF "linked" \in fw THEN LPS_Leave ELSE UNCHANGED saving
    /\ Extend /\ held' = [held EXCEPT ![u] = ips_deny']
    /\ UNCHANGED <<radio, ps_deny, k, mlme, op, calls, suspend, timer, queue>>

\* The wait for K, which is given up after 3 s.
Wait(u) ==
    /\ pc[u] = "wait" /\ Goes(u, "look")
    /\ held' = [held EXCEPT ![u] = held[u] /\ ~ps_processing]
    /\ UNCHANGED <<radio, ps_deny, ips_deny, saving, k, mlme, op, calls, suspend, timer, queue>>

\* A wakeup succeeds, or fails; the deferral starts again. A disconnect is over with it.
WakeupReturns(u, woken) ==
    /\ Extend
    /\ IF op[u] = "disconnect" THEN Returns(u)
       ELSE /\ Goes(u, IF woken THEN "act" ELSE "cancel")
            /\ held' = [held EXCEPT ![u] = held[u] /\ woken /\ (pc[u] = "look" => ~split)]
            /\ UNCHANGED op

\* A connected station is taken to be awake.
LookLinked(u) ==
    /\ pc[u] = "look"
    /\ IF "linked" \in fw THEN WakeupReturns(u, TRUE)
       ELSE Goes(u, "rf") /\ UNCHANGED <<ips_deny, held, op>>
    /\ UNCHANGED <<radio, ps_deny, saving, k, mlme, calls, suspend, timer, queue>>

LookRf(u) ==
    /\ pc[u] = "rf"
    /\ Goes(u, IF rf_pwrstate = "off" THEN "leave" ELSE "hw")
    /\ UNCHANGED <<radio, denial, saving, k, mlme, op, calls, suspend, timer, queue>>

\* ips_leave under the lock. Another caller may have done it.
IpsLeave(u) ==
    /\ pc[u] = "leave" /\ lock = "nobody"
    /\ IF rf_pwrstate = "off" /\ ~bips_processing
       THEN /\ lock' = u /\ bips_processing' = TRUE
            /\ ResetDrvSw
            /\ Goes(u, "up")
       ELSE Goes(u, "hw") /\ UNCHANGED <<lock, bips_processing, fw, ended>>
    /\ UNCHANGED <<rf_pwrstate, hw_init_completed, denial, saving, k, joining, connecting, split,
                   op, calls, suspend, timer, queue>>

\* hal_init fails: the radio stays off, and everything else is as after a success.
IpsUpFails(u) ==
    /\ pc[u] = "up"
    /\ lock' = "nobody" /\ bips_processing' = FALSE /\ LPS_Leave
    /\ WakeupReturns(u, FALSE)
    /\ UNCHANGED <<rf_pwrstate, hw_init_completed, ps_deny, k, mlme, calls, suspend, timer, queue>>

\* hal_init sets rf_pwrstate first and is then complete; the timer is set.
IpsUp(u) ==
    /\ pc[u] = "up" /\ Goes(u, "init")
    /\ rf_pwrstate' = "on"
    /\ UNCHANGED <<hw_init_completed, bips_processing, lock, denial, saving, k, mlme, op, calls,
                   suspend, timer, queue>>

IpsUpEnds(u) ==
    /\ pc[u] = "init" /\ Goes(u, "hw")
    /\ hw_init_completed' = TRUE /\ timer' = TRUE
    /\ lock' = "nobody" /\ bips_processing' = FALSE /\ LPS_Leave
    /\ split' = FALSE
    /\ UNCHANGED <<rf_pwrstate, denial, k, fw, joining, connecting, ended, op, calls, suspend,
                   queue>>

LookHw(u) ==
    /\ pc[u] = "hw" /\ WakeupReturns(u, hw_init_completed)
    /\ UNCHANGED <<radio, ps_deny, saving, k, mlme, calls, suspend, timer, queue>>

\* The request, under mlmepriv.lock: refused if a scan or a join is on or the command is
\* refused. A connect first waits for a scan to end; one with SAE asks the supplicant and
\* returns without cancelling its reason.
Act(u) ==
    /\ pc[u] = "act" /\ ~connecting
    /\ op[u] # "scan" => "survey" \notin fw
    /\ LET fresh == fw \cap {"survey", "linking"} = {} /\ Accepts
           scans == op[u] = "scan" /\ fresh
           joins == op[u] = "connect" /\ fresh /\ "linked" \notin fw
       IN /\ fw' = fw \cup {f \in {"survey", "linking"} : \/ f = "survey" /\ scans
                                                          \/ f = "linking" /\ joins}
          /\ IF joins THEN Enqueue("join") ELSE UNCHANGED queue
    /\ IF op[u] = "sae" THEN Returns(u)
       ELSE Goes(u, "cancel") /\ held' = [held EXCEPT ![u] = FALSE] /\ UNCHANGED op
    /\ UNCHANGED <<radio, ps_deny, ips_deny, saving, k, joining, connecting, ended, split, calls,
                   suspend, timer>>

\* A connect whose parameters are refused; the group cipher without cancelling the reason.
ConnectRefused(u) ==
    /\ pc[u] = "act" /\ op[u] \in {"connect", "sae"}
    /\ \/ Returns(u)
       \/ Goes(u, "cancel") /\ held' = [held EXCEPT ![u] = FALSE] /\ UNCHANGED op
    /\ UNCHANGED <<radio, ps_deny, ips_deny, saving, k, mlme, calls, suspend, timer, queue>>

\* rtw_ps_deny_cancel.
Cancel(u) ==
    /\ pc[u] = "cancel" /\ lock = "nobody" /\ Returns(u)
    /\ ps_deny' = ps_deny \ Reason(op[u])
    /\ UNCHANGED <<radio, ips_deny, saving, k, mlme, calls, suspend, timer, queue>>

CallerStep(u) ==
    \/ Defer(u) \/ Wait(u) \/ LookLinked(u) \/ LookRf(u) \/ LookHw(u)
    \/ IpsLeave(u) \/ IpsUp(u) \/ IpsUpFails(u) \/ IpsUpEnds(u)
    \/ Act(u) \/ ConnectRefused(u) \/ Cancel(u)

-----------------------------------------------------------------------------
(* Suspend (rtw_suspend_common) and resume.                                 *)

SuspendBegins ==
    /\ sus = "no" /\ calls < MaxCalls
    /\ \A u \in Callers : pc[u] = "idle"
    /\ bInSuspend' = TRUE /\ sus' = "deny" /\ calls' = calls + 1
    /\ UNCHANGED <<radio, denial, saving, k, mlme, pc, op, timer, queue>>

\* Every timer is cancelled, LPS is left; IPS is not.
SuspendDenies ==
    /\ sus = "deny" /\ ~bips_processing /\ lock = "nobody"
    /\ ps_deny' = ps_deny \cup {"SUSPEND"} /\ timer' = FALSE
    /\ IF "linked" \in fw THEN LPS_Leave ELSE UNCHANGED saving
    /\ sus' = "stop"
    /\ UNCHANGED <<radio, ips_deny, held, k, mlme, caller, bInSuspend, queue>>

\* rtw_stop_cmd_thread waits for K's command and drops the others.
SuspendStops ==
    /\ sus = "stop" /\ kpc = "idle" /\ lock = "nobody"
    /\ kpc' = "stopped" /\ queue' = <<>>
    /\ ps_deny' = ps_deny \ {"SUSPEND"}
    /\ sus' = "unload"
    /\ UNCHANGED <<radio, ips_deny, held, saving, ps_processing, mlme, caller, bInSuspend,
                   timer>>

\* rtw_suspend_normal: the link is given up, the hardware and the timers stopped.
SuspendUnloads ==
    /\ sus = "unload" /\ ~connecting
    /\ fw' = {} /\ joining' = FALSE /\ ended' = FALSE /\ split' = FALSE
    /\ ips_deny' = (ips_deny \/ fw \cap {"linked", "linking"} # {})
    /\ hw_init_completed' = FALSE /\ timer' = FALSE
    /\ sus' = "down"
    /\ UNCHANGED <<rf_pwrstate, bips_processing, lock, ps_deny, held, saving, k, connecting,
                   caller, bInSuspend, queue>>

\* rtw_resume_process_normal leaves bpower_saving as it was.
Resume ==
    /\ sus = "down" /\ sus' = "no" /\ bInSuspend' = FALSE
    /\ rf_pwrstate' = "on" /\ hw_init_completed' = TRUE /\ bips_processing' = FALSE
    /\ kpc' = "idle" /\ timer' = TRUE
    /\ stale' = bpower_saving
    /\ UNCHANGED <<lock, denial, bpower_saving, ps_processing, mlme, caller, queue>>

SuspendStep == SuspendDenies \/ SuspendStops \/ SuspendUnloads

-----------------------------------------------------------------------------
Next ==
    \/ KStep \/ LPS_Enter \/ LinkLost
    \/ TimerFires \/ DeferralEnds \/ ScanEnds \/ IndicateScanDone
    \/ JoinUpdate \/ JoinConnect \/ JoinFails
    \/ Disconnect \/ \E o \in {"connect", "sae"} : Deny(Cfg, o)
    \/ \E u \in Callers : CallerStep(u) \/ Deny(u, "scan")
    \/ SuspendBegins \/ SuspendStep \/ Resume

(***************************************************************************)
(* K, the timers, the tasklet and the callers go on when they can, a scan  *)
(* and a join end (their timers see to it), and so does a deferral. No     *)
(* fairness on calls, suspends, resumes, LPS or the loss of a link.        *)
(***************************************************************************)
Fairness ==
    /\ WF_vars(KStep)
    /\ WF_vars(TimerFires) /\ WF_vars(DeferralEnds)
    /\ WF_vars(ScanEnds) /\ WF_vars(IndicateScanDone)
    /\ WF_vars(JoinConnect) /\ WF_vars(JoinFails)
    /\ \A u \in Callers : WF_vars(CallerStep(u))
    /\ WF_vars(SuspendStep)

Spec == Init /\ [][Next]_vars /\ Fairness

-----------------------------------------------------------------------------
(* Properties                                                               *)

FlagsOK ==
    /\ hw_init_completed \in BOOLEAN /\ bips_processing \in BOOLEAN /\ ips_deny \in BOOLEAN
    /\ bpower_saving \in BOOLEAN /\ stale \in BOOLEAN /\ ps_processing \in BOOLEAN
    /\ joining \in BOOLEAN /\ connecting \in BOOLEAN /\ ended \in BOOLEAN /\ split \in BOOLEAN
    /\ bInSuspend \in BOOLEAN /\ timer \in BOOLEAN
    /\ held \in [Callers -> BOOLEAN]

ValuesOK ==
    /\ rf_pwrstate \in {"on", "off"} /\ lock \in Callers \cup {"K", "nobody"}
    /\ ps_deny \subseteq {"SCAN", "JOIN", "SUSPEND"}
    /\ kpc \in {"idle", "deny", "suspend", "defer", "linked", "linking", "enter", "down", "off",
                "exit", "stopped"}
    /\ fw \subseteq {"linked", "linking", "survey"}
    /\ pc \in [Callers -> {"idle", "defer", "wait", "look", "rf", "leave", "up", "init", "hw",
                           "act", "cancel"}]
    /\ op \in [Callers -> Ops] /\ calls \in 0..MaxCalls
    /\ sus \in {"no", "deny", "stop", "unload", "down"}
    /\ queue \in Seq({"ps", "lps", "join"})

\* The types of the variables.
TypeOK == FlagsOK /\ ValuesOK

\* The radio works.
RadioOn == rf_pwrstate = "on" /\ hw_init_completed

\* K is past the check of the deferral and may turn the radio off.
Committed == kpc \in {"linked", "linking", "enter", "down", "off"}

\* rtw_pwr_wakeup keeps its promise ("the ms wiil prevent from falling into IPS after
\* wakeup"): while a caller uses the radio the wakeup gave it and the deferral lasts, the
\* radio is on and K is not on its way to turn it off. It rests on an order: a caller sets
\* the deadline and then reads ps_processing, K sets ps_processing and then reads the
\* deadline. Not promised, and so not held: that the deadline does not wrap, that it outlasts
\* the end of another scan, or that a wait given up after 3 s was long enough.
WakeupDefersIps ==
    \A u \in Callers : pc[u] = "act" /\ held[u] => RadioOn /\ ~Committed

\* A connected station has its radio, although K reads the flags one by one and without
\* mlmepriv.lock: unless the join completed while K was between these reads and its end
\* (split), where rtw_joinbss_update_network shows K a station with no flag at all.
LinkedHasRadio == "linked" \in fw => RadioOn \/ split

\* Nothing needs the radio.
Idle ==
    /\ fw = {} /\ ~connecting /\ ps_deny = {} /\ ~bInSuspend /\ ~stale
    /\ \A u \in Callers : pc[u] = "idle"

\* An idle station saves power: its radio is turned off after a while, so the chain of
\* timer, command and timer is never broken and LPS never leaves bpower_saving behind.
\* Excepted are a reason never cancelled (a connect with SAE) and a bpower_saving kept
\* over a suspend (stale).
IdleSleeps == Idle ~> (rf_pwrstate = "off" \/ ~Idle)

-----------------------------------------------------------------------------
=============================================================================
