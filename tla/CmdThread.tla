------------------------------ MODULE CmdThread ------------------------------
(***************************************************************************)
(* The command queue and its kernel thread (core/rtw_cmd.c), the contexts  *)
(* that submit commands and may wait for them with a submit_ctx            *)
(* (core/rtw_xmit.c), and the interface code that starts and stops the     *)
(* thread (os_dep/linux/os_intfs.c, os_dep/linux/usb_intf.c).              *)
(*                                                                         *)
(*   K     the thread, rtw_cmd_thread;                                     *)
(*   pc    the submitter of each command, from rtw_enqueue_cmd to the      *)
(*         return of the caller, whose stack holds the submit_ctx;         *)
(*   L     open, suspend and removal of the interface.                     *)
(* One command object is one member of Cmds, submitted once.               *)
(***************************************************************************)
EXTENDS Integers, Sequences

CONSTANTS Cmds,       \* the command objects
          WaitCmds,   \* those submitted with RTW_CMDF_WAIT_ACK
          NoIoCmds,   \* those allowed while the hardware is off (no_io)
          NoCmd,      \* not a command
          MaxOpen     \* bound: times the interface is opened

ASSUME CmdAssumption == /\ WaitCmds \subseteq Cmds
                        /\ NoIoCmds \subseteq Cmds
                        /\ NoCmd \notin Cmds
                        /\ MaxOpen \in Nat

VARIABLES cmd_queue, cmd_queue_sema, terminate_sema,
          cmdthd_running, stop_req,
          stopped,      \* RTW_CANNOT_RUN
          hw,           \* hw_init_completed
          kpc, kcur,    \* where the thread is, and its command
          pc,           \* where the submitter of each command is
          obj,          \* the command object: none, live, freed, drained
          sctx,         \* pcmd->sctx is not NULL
          status,       \* sctx.status
          lpc, opens

\* History: the thread left its loop without being asked by rtw_stop_cmd_thread.
VARIABLE selfBreak

qVars == <<cmd_queue, cmd_queue_sema>>
thrVars == <<cmdthd_running, stop_req, terminate_sema>>
kVars == <<kpc, kcur>>
objVars == <<obj, sctx, status>>
envVars == <<stopped, hw>>
lVars == <<lpc, opens>>
vars == <<qVars, thrVars, kVars, objVars, envVars, lVars, pc, selfBreak>>

Init ==
    /\ cmd_queue = << >> /\ cmd_queue_sema = 0 /\ terminate_sema = 0
    /\ cmdthd_running = FALSE /\ stop_req = FALSE
    /\ stopped = TRUE /\ hw = FALSE
    /\ kpc = "none" /\ kcur = NoCmd
    /\ pc = [c \in Cmds |-> "new"]
    /\ obj = [c \in Cmds |-> "none"]
    /\ sctx = [c \in Cmds |-> FALSE]
    /\ status = [c \in Cmds |-> "none"]
    /\ lpc = "closed" /\ opens = 0
    /\ selfBreak = FALSE

\* rtw_cmd_filter.
Allowed(c) == (hw \/ c \in NoIoCmds) /\ cmdthd_running

-----------------------------------------------------------------------------
(* A submitter: rtw_createbss_cmd and the others of its kind.               *)

\* rtw_enqueue_cmd: the filter. A command that is refused is freed.
Submit(c) ==
    /\ pc[c] = "new"
    /\ IF Allowed(c)
       THEN /\ pc' = [pc EXCEPT ![c] = "insert"]
            /\ obj' = [obj EXCEPT ![c] = "live"]
            /\ sctx' = [sctx EXCEPT ![c] = c \in WaitCmds]
            /\ status' = [status EXCEPT ![c] = "submitted"]
       ELSE /\ pc' = [pc EXCEPT ![c] = "returned"]
            /\ obj' = [obj EXCEPT ![c] = "freed"]
            /\ UNCHANGED <<sctx, status>>
    /\ UNCHANGED <<qVars, thrVars, kVars, envVars, lVars, selfBreak>>

\* _rtw_enqueue_cmd, under the lock of the queue.
Insert(c) ==
    /\ pc[c] = "insert"
    /\ cmd_queue' = Append(cmd_queue, c)
    /\ pc' = [pc EXCEPT ![c] = "up"]
    /\ UNCHANGED <<cmd_queue_sema, thrVars, kVars, objVars, envVars, lVars, selfBreak>>

WakeThread_Forgotten(c) ==
    /\ pc[c] = "up"
    /\ UNCHANGED cmd_queue_sema
    /\ pc' = [pc EXCEPT ![c] = IF c \in WaitCmds THEN "waiting" ELSE "returned"]
    /\ UNCHANGED <<cmd_queue, thrVars, kVars, objVars, envVars, lVars, selfBreak>>

WakeThread(c) ==
    /\ pc[c] = "up"
    /\ cmd_queue_sema' = cmd_queue_sema + 1
    /\ pc' = [pc EXCEPT ![c] = IF c \in WaitCmds THEN "waiting" ELSE "returned"]
    /\ UNCHANGED <<cmd_queue, thrVars, kVars, objVars, envVars, lVars, selfBreak>>

\* rtw_sctx_wait returns, completed or after its time-out, which leaves the status
\* as it is.
WaitEnds(c) ==
    /\ pc[c] = "waiting"
    /\ pc' = [pc EXCEPT ![c] = "woken"]
    /\ UNCHANGED <<qVars, thrVars, kVars, objVars, envVars, lVars, selfBreak>>

\* Under sctx_mutex: a command that is still submitted is cut loose from the
\* submit_ctx, which goes away with the caller's stack frame.
CutLoose_Skipped(c) ==
    /\ pc[c] = "woken"
    /\ UNCHANGED sctx
    /\ pc' = [pc EXCEPT ![c] = "returned"]
    /\ UNCHANGED <<qVars, thrVars, kVars, obj, status, envVars, lVars, selfBreak>>

CutLoose(c) ==
    /\ pc[c] = "woken"
    /\ sctx' = [sctx EXCEPT ![c] = sctx[c] /\ status[c] # "submitted"]
    /\ pc' = [pc EXCEPT ![c] = "returned"]
    /\ UNCHANGED <<qVars, thrVars, kVars, obj, status, envVars, lVars, selfBreak>>

-----------------------------------------------------------------------------
(* K: rtw_cmd_thread.                                                       *)

ThreadBoot ==
    /\ kpc = "boot"
    /\ stop_req' = FALSE /\ cmdthd_running' = TRUE
    /\ terminate_sema' = terminate_sema + 1
    /\ kpc' = "sleep"
    /\ UNCHANGED <<qVars, kcur, objVars, envVars, lVars, pc, selfBreak>>

\* The wait of the loop.
ThreadWakes_NotTaken ==
    /\ kpc = "sleep"
    /\ cmd_queue_sema' = cmd_queue_sema - 1
    /\ kpc' = "check"
    /\ UNCHANGED <<cmd_queue, thrVars, kcur, objVars, envVars, lVars, pc, selfBreak>>

ThreadWakes ==
    /\ kpc = "sleep"
    /\ cmd_queue_sema > 0 /\ cmd_queue_sema' = cmd_queue_sema - 1
    /\ kpc' = "check"
    /\ UNCHANGED <<cmd_queue, thrVars, kcur, objVars, envVars, lVars, pc, selfBreak>>

\* SIGTERM, which thread_enter allows, ends the wait and the loop.
ThreadInterrupted ==
    /\ kpc = "sleep"
    /\ kpc' = "exit"
    /\ selfBreak' = (selfBreak \/ ~stop_req)
    /\ UNCHANGED <<qVars, thrVars, kcur, objVars, envVars, lVars, pc>>

ThreadCheck ==
    /\ kpc = "check"
    /\ kpc' = IF stopped \/ stop_req THEN "exit"
              ELSE IF cmd_queue = << >> THEN "sleep" ELSE "next"
    /\ selfBreak' = (selfBreak \/ (stopped /\ ~stop_req))
    /\ UNCHANGED <<qVars, thrVars, kcur, objVars, envVars, lVars, pc>>

\* _next: the driver may have been stopped, or the queue emptied.
ThreadNextEnds ==
    /\ kpc = "next"
    /\ stopped \/ cmd_queue = << >>
    /\ kpc' = IF stopped THEN "exit" ELSE "sleep"
    /\ selfBreak' = (selfBreak \/ (stopped /\ ~stop_req))
    /\ UNCHANGED <<qVars, thrVars, kcur, objVars, envVars, lVars, pc>>

\* The command is filtered again: one that is refused now goes to post_process
\* with H2C_DROPPED.
ThreadDequeue ==
    /\ kpc = "next"
    /\ ~stopped /\ cmd_queue # << >>
    /\ kcur' = Head(cmd_queue)
    /\ cmd_queue' = Tail(cmd_queue)
    /\ kpc' = IF Allowed(Head(cmd_queue)) THEN "run" ELSE "dropped"
    /\ UNCHANGED <<cmd_queue_sema, thrVars, objVars, envVars, lVars, pc, selfBreak>>

\* The handler of the command.
ThreadRun(res) ==
    /\ kpc = "run"
    /\ kpc' = IF res = "success" THEN "post" ELSE "dropped"
    /\ UNCHANGED <<qVars, thrVars, kcur, objVars, envVars, lVars, pc, selfBreak>>

\* post_process, under sctx_mutex: rtw_sctx_done or rtw_sctx_done_err.
ThreadComplete ==
    /\ kpc \in {"post", "dropped"}
    /\ sctx' = [sctx EXCEPT ![kcur] = FALSE]
    /\ status' = IF sctx[kcur]
                 THEN [status EXCEPT ![kcur] = IF kpc = "post" THEN "success" ELSE "error"]
                 ELSE status
    /\ kpc' = "free"
    /\ UNCHANGED <<qVars, thrVars, kcur, obj, envVars, lVars, pc, selfBreak>>

\* The callback of the command, or the thread, frees the object.
ThreadFree_BeforeComplete ==
    /\ kpc \in {"post", "dropped"}
    /\ obj' = [obj EXCEPT ![kcur] = "freed"]
    /\ kcur' = NoCmd
    /\ kpc' = "next"
    /\ UNCHANGED <<qVars, thrVars, sctx, status, envVars, lVars, pc, selfBreak>>

ThreadFree ==
    /\ kpc = "free"
    /\ obj' = [obj EXCEPT ![kcur] = "freed"]
    /\ kcur' = NoCmd
    /\ kpc' = "next"
    /\ UNCHANGED <<qVars, thrVars, sctx, status, envVars, lVars, pc, selfBreak>>

ThreadExit ==
    /\ kpc = "exit"
    /\ cmdthd_running' = FALSE
    /\ kpc' = "drain"
    /\ UNCHANGED <<qVars, stop_req, terminate_sema, kcur, objVars, envVars, lVars, pc,
                   selfBreak>>

\* Commands left in the queue are freed; a submit_ctx is not completed.
ThreadDrain ==
    /\ kpc = "drain" /\ cmd_queue # << >>
    /\ cmd_queue' = Tail(cmd_queue)
    /\ obj' = [obj EXCEPT ![Head(cmd_queue)] = "drained"]
    /\ UNCHANGED <<cmd_queue_sema, thrVars, kVars, sctx, status, envVars, lVars, pc,
                   selfBreak>>

ThreadGone_EarlyUp ==
    /\ kpc = "exit"
    /\ terminate_sema' = terminate_sema + 1
    /\ kpc' = "drain"
    /\ UNCHANGED <<qVars, cmdthd_running, stop_req, kcur, objVars, envVars, lVars, pc,
                   selfBreak>>

ThreadGone ==
    /\ kpc = "drain" /\ cmd_queue = << >>
    /\ terminate_sema' = terminate_sema + 1
    /\ kpc' = "gone"
    /\ UNCHANGED <<qVars, cmdthd_running, stop_req, kcur, objVars, envVars, lVars, pc,
                   selfBreak>>

-----------------------------------------------------------------------------
(* L: the interface.                                                        *)

\* _netdev_open with bup FALSE: the flags are cleared, the hardware initialised and
\* the thread created (rtw_start_drv_threads) ...
Open ==
    /\ lpc = "closed" /\ kpc \in {"none", "gone"}
    /\ opens < MaxOpen /\ opens' = opens + 1
    /\ stopped' = FALSE /\ hw' = TRUE
    /\ kpc' = "boot"
    /\ lpc' = "starting"
    /\ UNCHANGED <<qVars, thrVars, kcur, objVars, pc, selfBreak>>

\* ... and L waits for it to run.
Opened ==
    /\ lpc = "starting"
    /\ terminate_sema > 0 /\ terminate_sema' = terminate_sema - 1
    /\ lpc' = "up"
    /\ UNCHANGED <<qVars, cmdthd_running, stop_req, kVars, objVars, envVars, opens, pc,
                   selfBreak>>

\* rtw_suspend_common goes on only when the driver can run.
Suspend ==
    /\ lpc = "up" /\ ~stopped
    /\ lpc' = "suspend"
    /\ UNCHANGED <<qVars, thrVars, kVars, objVars, envVars, opens, pc, selfBreak>>

\* rtw_dev_remove stops the driver first.
Remove ==
    /\ lpc = "up"
    /\ stopped' = TRUE
    /\ lpc' = "remove"
    /\ UNCHANGED <<qVars, thrVars, kVars, objVars, hw, opens, pc, selfBreak>>

StopWaits == [suspend |-> "suspendwait", remove |-> "removewait",
              unload |-> "unloadwait", rmunload |-> "rmunloadwait"]
StopEnds  == [suspendwait |-> "suspended", removewait |-> "removed",
              unloadwait |-> "unloaded", rmunloadwait |-> "off"]

\* rtw_stop_cmd_thread asks a thread that runs, once ...
StopAsk_NoWake ==
    /\ lpc \in DOMAIN StopWaits
    /\ cmdthd_running /\ ~stop_req
    /\ stop_req' = TRUE
    /\ lpc' = StopWaits[lpc]
    /\ UNCHANGED <<qVars, cmdthd_running, terminate_sema, kVars, objVars, envVars, opens, pc,
                   selfBreak>>

StopAsk ==
    /\ lpc \in DOMAIN StopWaits
    /\ cmdthd_running /\ ~stop_req
    /\ stop_req' = TRUE
    /\ cmd_queue_sema' = cmd_queue_sema + 1
    /\ lpc' = StopWaits[lpc]
    /\ UNCHANGED <<cmd_queue, cmdthd_running, terminate_sema, kVars, objVars, envVars, opens,
                   pc, selfBreak>>

\* ... or has nothing to do ...
StopSkip ==
    /\ lpc \in DOMAIN StopWaits
    /\ ~cmdthd_running \/ stop_req
    /\ lpc' = StopEnds[StopWaits[lpc]]
    /\ UNCHANGED <<qVars, thrVars, kVars, objVars, envVars, opens, pc, selfBreak>>

\* ... and waits for the thread to end.
StopDone ==
    /\ lpc \in DOMAIN StopEnds
    /\ terminate_sema > 0 /\ terminate_sema' = terminate_sema - 1
    /\ lpc' = StopEnds[lpc]
    /\ UNCHANGED <<qVars, cmdthd_running, stop_req, kVars, objVars, envVars, opens, pc,
                   selfBreak>>

\* rtw_dev_unload stops the driver, and asks the thread to stop once more; after a
\* removal the adapter is freed ...
Unload ==
    /\ lpc \in {"suspended", "removed"}
    /\ stopped' = TRUE
    /\ lpc' = IF lpc = "suspended" THEN "unload" ELSE "rmunload"
    /\ UNCHANGED <<qVars, thrVars, kVars, objVars, hw, opens, pc, selfBreak>>

\* ... and after a suspend the hardware is switched off, unless the device is gone.
HalDeinit ==
    /\ lpc = "unloaded"
    /\ hw' \in {FALSE, hw}
    /\ lpc' = "closed"
    /\ UNCHANGED <<qVars, thrVars, kVars, objVars, stopped, opens, pc, selfBreak>>

\* The completion of a URB finds the device gone and stops the driver.
UsbError ==
    /\ ~stopped
    /\ stopped' = TRUE
    /\ UNCHANGED <<qVars, thrVars, kVars, objVars, hw, lVars, pc, selfBreak>>

\* Inactive power save switches the hardware off and on (external here).
IpsToggle ==
    /\ lpc = "up"
    /\ hw' = ~hw
    /\ UNCHANGED <<qVars, thrVars, kVars, objVars, stopped, lVars, pc, selfBreak>>

-----------------------------------------------------------------------------
PStep(c) == Submit(c) \/ Insert(c) \/ WakeThread(c) \/ WaitEnds(c) \/ CutLoose(c)

KStep == \/ ThreadBoot \/ ThreadWakes \/ ThreadCheck \/ ThreadNextEnds \/ ThreadDequeue
         \/ ThreadRun("success") \/ ThreadRun("error")
         \/ ThreadComplete \/ ThreadFree
         \/ ThreadExit \/ ThreadDrain \/ ThreadGone

LStep == \/ Open \/ Opened \/ Suspend \/ Remove
         \/ StopAsk \/ StopSkip \/ StopDone \/ Unload \/ HalDeinit

Env == UsbError \/ IpsToggle \/ ThreadInterrupted

Next == (\E c \in Cmds : PStep(c)) \/ KStep \/ LStep \/ Env

Spec == Init /\ [][Next]_vars

\* The thread is scheduled; a submitter inside rtw_enqueue_cmd and the code that
\* opens or stops the interface go on. Nothing obliges anyone to submit or suspend.
Fairness == /\ WF_vars(KStep)
            /\ \A c \in Cmds : WF_vars(Insert(c) \/ WakeThread(c) \/ WaitEnds(c) \/ CutLoose(c))
            /\ WF_vars(Opened \/ StopAsk \/ StopSkip \/ StopDone \/ Unload \/ HalDeinit)

FairSpec == Spec /\ Fairness

-----------------------------------------------------------------------------
(* Properties.                                                              *)

TypeOK ==
    /\ cmd_queue \in Seq(Cmds)
    /\ cmd_queue_sema \in Nat /\ terminate_sema \in Nat /\ opens \in Nat
    /\ cmdthd_running \in BOOLEAN /\ stop_req \in BOOLEAN
    /\ stopped \in BOOLEAN /\ hw \in BOOLEAN /\ selfBreak \in BOOLEAN
    /\ kpc \in {"none", "boot", "sleep", "check", "next", "run", "post", "dropped", "free",
                "exit", "drain", "gone"}
    /\ kcur \in Cmds \cup {NoCmd}
    /\ pc \in [Cmds -> {"new", "insert", "up", "waiting", "woken", "returned"}]
    /\ obj \in [Cmds -> {"none", "live", "freed", "drained"}]
    /\ sctx \in [Cmds -> BOOLEAN]
    /\ status \in [Cmds -> {"none", "submitted", "success", "error"}]
    /\ lpc \in {"closed", "starting", "up", "suspend", "suspendwait", "suspended",
                "remove", "removewait", "removed", "unload", "unloadwait", "unloaded",
                "rmunload", "rmunloadwait", "off"}

\* The thread completes a submit_ctx only while the caller whose stack holds it has
\* not returned, whatever the order of the time-out and the end of the command.
CompletesLiveWaiter ==
    kpc \in {"post", "dropped"} /\ sctx[kcur] => pc[kcur] \in {"insert", "up", "waiting", "woken"}

\* A caller that cuts its command loose finds the object still allocated, unless the
\* thread ended and drained the queue.
WaiterFindsObject ==
    \A c \in Cmds : pc[c] = "woken" /\ status[c] = "submitted" => obj[c] \in {"live", "drained"}

\* When rtw_stop_cmd_thread has returned the thread is gone, unless it left its loop
\* of its own accord.
StopWaitsForThread ==
    lpc \in {"suspended", "removed", "unloaded", "closed", "off"} /\ ~selfBreak => kpc \in {"none", "gone"}

\* rtw_stop_cmd_thread returns.
StopReturns ==
    (lpc \in DOMAIN StopEnds) ~> (lpc \in {"suspended", "removed", "unloaded", "closed", "off"})

\* A command in the queue is taken out, or the thread ends.
QueuedCmdTaken ==
    \A c \in Cmds : (\E i \in 1 .. Len(cmd_queue) : cmd_queue[i] = c)
        ~> (~cmdthd_running \/ \A i \in 1 .. Len(cmd_queue) : cmd_queue[i] # c)
=============================================================================
