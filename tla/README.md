# A TLA+ model of the rtl8188fu driver

This directory holds TLA+ modules, TLC configurations and TLAPS proofs for the
Linux driver of the Realtek RTL8188FU USB Wi-Fi adapter in `src/`. The modules
are translated from the C code as it is compiled by the repository's Makefile
and `include/autoconf.h`: RTL8188F over USB, cfg80211, station and native access
point mode, 802.11n with software receive reordering, layer-2 roaming, inactive
(IPS) and leisure (LPS) power save, transmit acknowledgements. TDLS, Bluetooth
coexistence, WAPI, 802.11w, LPS_LCLK and concurrent mode are not compiled in and
are left out everywhere.

Run a check with `tlc -config <file>.cfg <module>` and a proof with
`tlapm <module>.tla`. `PROJECT.json` lists the runs, the properties each checks,
the mutated definitions each property must catch, the map from definitions to
source lines, the findings and the hazards.

## Inventory

| Component | Source | State | Operations | Hard behaviour |
|---|---|---|---|---|
| Receive reordering | `core/rtw_recv.c` | per (station, TID): `enable`, `indicate_seq`, the sorted pending queue, the timer and `bReorderWaiting`; the pool of receive frames | accept a frame, drain, time-out, ADDBA, DELBA, join | tasklet, timer and command thread share the block; two of them write it without the lock; numbers wrap |
| Command queue and thread | `core/rtw_cmd.c`, `core/rtw_xmit.c` (submit_ctx) | the queue, two semaphores, `cmdthd_running`, `stop_req`, one submit_ctx on the stack of each waiter | enqueue, dequeue, run, complete, stop | time-out against completion; stop against enqueue; one semaphore with two meanings |
| Interface life cycle | `os_dep/linux/os_intfs.c`, `usb_intf.c` | `bup`, `bDriverStopped`, `bSurpriseRemoved`, `hw_init_completed` | open, close, suspend, resume, removal, unload | surprise removal at any moment |
| Station MLME | `core/rtw_mlme.c`, `rtw_mlme_ext.c`, `rtw_ioctl_set.c`, `os_dep/linux/ioctl_cfg80211.c` | `fw_state` (survey, linking, linked), `to_join`, `to_roam`, `pmlmeinfo->state`, four timers, the channel scan, the outstanding cfg80211 requests | scan, connect, disconnect, authenticate, associate, roam, time-outs | process, command thread, tasklet and timers; lost and late responses; cfg80211 must get exactly one answer |
| WPA3-SAE external authentication | `os_dep/linux/ioctl_cfg80211.c`, `os_dep/linux/mlme_linux.c` | `wpa3_sae`, stored SSID and BSSID, a work item | deferred request, callback with the result, reset of the security settings | the request may be lost or doubled; the result may come after a disconnect or another connect; the flag outlives its connect |
| Power control | `core/rtw_pwrctrl.c`, `os_dep/linux/os_intfs.c` | `rf_pwrstate`, `bpower_saving`, `bips_processing`, `ps_processing`, `ps_deny`, `ips_deny_time`, a timer | IPS enter/leave, wake-up before I/O, LPS enter/leave, suspend, resume | most of it is read without a lock; a wake-up that meets a transition under way waits with a time limit; a chain of timers and commands must not break |
| Transmit path | `core/rtw_xmit.c`, `os_dep/linux/xmit_linux.c`, `hal/rtl8188f/usb/rtl8188fu_xmit.c` | frame and buffer pools, per-AC queues, stopped netdev queues, `ack_tx` | classify, queue, aggregate, complete, wake | queue stop against wake; buffers at their limit; a late acknowledgement |
| Access point mode | `core/rtw_ap.c` | association lists, sleeping stations, `tim_bitmap`, expiry counters | associate, sleep, wake, PS-Poll, expire | a station that sleeps, wakes or leaves while frames are queued for it |
| Station table | `core/rtw_sta_mgt.c` | free list, hash lists, macid bitmap | allocate, look up, free | a station freed while the tasklet or a timer holds it |
| USB register access | `hal/hal_hci/hal_usb.c`, `os_dep/linux/usb_ops_linux.c` | the continual error counter, `bSurpriseRemoved` | vendor request with retries | retries against removal |
| Security, P2P/WFD, LED, HAL/PHY tables, EFUSE, MP mode, NAT25 bridge, scripts | see `PROJECT.json` | | | not modelled, with the reason for each |

What makes each correct: reordering hands a session's frames up in order, loses
none and never holds one for ever; the command thread completes each waiter at
most once and only while it exists, and stopping it is synchronous; the MLME
answers each cfg80211 request, does not stay "linking" or "scanning" for ever
and agrees with cfg80211 about being connected; power control never lets a user
of the hardware go on while it is off; the transmit path loses no buffer and
wakes every queue it stopped; the access point keeps the TIM in step with the
queues of its sleeping stations.

## Plan

1. `RecvReorder` (done) - receive reordering of one (station, TID); proofs in
   `RecvReorderProofs` and, for the window, `RecvWindowProofs`.
2. `CmdThread` (done) - command queue, thread, waiters, life cycle; proofs in
   `CmdThreadProofs`.
3. `SiteSurvey` (done) - scanning; proofs in `SiteSurveyProofs`.
   `JoinBss` (done) - connect, authentication, association, disconnect and
   roaming; proofs in `JoinBssProofs`. `SaeJoin` (done) - WPA3-SAE through the
   supplicant, composed with `JoinBss`; proofs in `SaeJoinProofs`. Next: an abstract
   specification of what cfg80211 is promised and its refinement, and the composition
   with `CmdThread` (dropped disconnect commands).
4. `Xmit` and `TxContract` (done) - transmit path, flow control and sleeping
   stations, with the contract of a network driver as abstract specification and
   the refinement; proofs in `XmitProofs`. Next: broadcast buffering, transmit
   acknowledgements.
5. `PwrCtrl` (done) - IPS against the users of the radio, LPS, suspend and resume;
   proofs in `PwrCtrlProofs`. Next: switching IPS off, the other callers of
   `rtw_pwr_wakeup`.
6. `StaMgt` - station pool and hash lists, composed with the reorder buffer for
   the life cycle of a station.
7. `Defrag` - fragment reassembly and duplicate detection as pure operators.
8. `UsbIo` - vendor requests, retries and the continual error counter.
9. EFUSE header decoding, the P2P state machine and the NAT25 database, as far
   as they carry logic that a checker reaches.

Every invariant and action property that a passing run checks is also proved. Theorems
worth proving next: which steps may end a session or move its window back, what a
stopped driver leaves in the queues, and the refinement of the specification of cfg80211
named under 3.

## `RecvReorder`

Models `struct recv_reorder_ctrl` of one station and TID. The tasklet (R), the
timer handler (T) and the command thread (C) each have a program counter; R and
T exclude each other through `pending_recvframe_queue.lock`, which is held in
R's "locked" and "drain" and T's "drain". C takes no lock, in the model as in
the code. A frame carries the unbounded number its sender counted it with; the
code only sees that number modulo the sequence space (`SeqNum`).

| Definition | Code |
|---|---|
| `SN_LESS`, `BelowWindow`, `NextWindow` | `SN_LESS`, `check_indicate_seq` |
| `InsertPos`, `Duplicate`, `InsertFrame` | `enqueue_reorder_recvframe` |
| `Reorder*`, `RecvWait`, `RecvEmpty`, `RecvCancelTimer` | `recv_indicatepkt_reorder` |
| `HeadReady`, `IndicateHead` | the loop of `recv_indicatepkts_in_order` |
| `Timer*` | `rtw_reordering_ctrl_timeout_handler` and the forced branch of `recv_indicatepkts_in_order` |
| `AddBaReset`, `AddBaEnable`, `SendDelba`, `OnDelba`, `JoinReset` | `add_ba_rsp_hdl`, `_send_delba_sta_tid`, `OnAction_back`, `rtw_joinbss_update_stainfo` |

The peer (`PeerMaySend`) is external: it numbers frames in order, has at most a
window of them outstanding, and may lose, repeat and permute them. It skips at most a
quarter of the sequence space, and does not send a quarter of it within the 50 ms a
frame may be held (in the code that is 1024 frames, where a window has 64). A limit of
half the space for each, the range of a 12-bit comparison, is not enough: the
timer moves the window back to the frame held, and a skip counted from the newest
frame then adds to the age of that frame. The attempt to prove
`NewestAcceptedInSession` showed it, and TLC confirms it on a space of 8. The numbers
are counted where a frame comes to the window (`ReachesWindow`), so that one
dropped before, for want of room for a header, counts as lost by the peer.

Runs. `reorder_check` uses a space of 16, a window of 2 and numbers 14..17, so
that the space wraps inside a window, a pool of 4 frames, both kinds of frame, and two
control operations: enough for a session to be set up, torn down and set up again,
or for an operation to meet a receive step twice. `HeldFrameLeaves` has the premise
that frames eventually stop taking the path that bypasses the buffer: that
path writes `indicate_seq` without the lock, and TLC shows that an endless stream of
such frames can put the window back after each flush of the timer, so that a frame
of an ended session is held for as long as the stream lasts. `reorder_reset_race` shows
that without the condition "no receive step was under way" a new session can
start with a wrong window (see Findings).

Fairness: strong for the steps of R and of T, because both compete for one
queued spinlock, which is granted in order; weak for C. Frames and control
operations are never obliged to arrive.

## `CmdThread`

The queue with its counting semaphore, the thread K, one submitter for each
command, and the code L that opens, suspends and removes the interface. The
steps of the code that are separate critical sections are separate actions: the
filter (`Submit`), the insertion (`Insert`) and the up of the semaphore
(`WakeThread`); the end of a wait (`WaitEnds`, by completion or by time-out) and
the clearing of `pcmd->sctx` under the mutex (`CutLoose`); the completion
(`ThreadComplete`) and the freeing of the object (`ThreadFree`). The handler of
a command is one step with a result. `StopAsk`, `StopSkip` and `StopDone` are
`rtw_stop_cmd_thread`, used by the suspend, the removal and the unload, which
asks a second time. `UsbError` stops the driver at any moment, `IpsToggle`
switches `hw_init_completed` (who does so, and when, is in `PwrCtrl`), and
`ThreadInterrupted` is the SIGTERM that `thread_enter` allows.

Run `cmd_check`: two commands, one with a waiter and one that is allowed while the hardware
is off: the properties speak of one command and the thread, or of the thread and
L, and the second command is there so that the queue is not just one slot. Two
opens let a credit left by one life of the thread reach the next. One semaphore says
both "has started" and "has ended"; a thread that left its loop by itself ups it without
anyone to take the credit, and the next open or stop then returns too early.
`StopWaitsForThread` excepts that case. `QueuedCmdTaken` ends with the thread: the
filter reads `cmdthd_running` and the insertion comes later, so a command can enter the
queue after the drain, although the comment at `rtw_cmd.c:733` says otherwise.
`CHECK_DEADLOCK FALSE`: commands and opens are bounded, and a removed driver
stops for good.

Fairness: weak for the thread, for a submitter inside the enqueue and for an
open or stop under way. Nobody is obliged to submit, suspend or remove.

Not modelled: a signal that interrupts `_rtw_down_sema` in the process that
opens or stops; an open while a thread that broke its loop by itself is still
draining (`Open` waits for it to be gone); failures to allocate a command.

## `SiteSurvey`

A scan from the request of cfg80211 (`ScanRequest` ... `ScanStart`) or from a
join without a candidate (`JoinSurvey`) to the report (`IndicateScanDone`). The
scan itself is `sitesurvey_cmd_hdl`, run by the command thread once for each
channel and carried on by `survey_timer` (`SurveyStart`, `SurveyNext`,
`SurveyTimer`); it ends with a done event in the command queue (`DoneClear`,
`DoneCancel`, `DoneReport`, the three parts of `rtw_surveydone_event_callback`
between which the lock is free), with `scan_to_timer` (`ScanTimeout`,
`ScanTimeoutClear`, `ScanTimeoutReport`), or for the request only, with an abort
(`AbortBegins`, `AbortWaited`, `AbortEnds`). The queue holds only the commands of
the survey: the other commands do not touch this state, and what `CmdThread`
shows of the queue (first in first out, dropped when the filter says so) is
used here. A command may be dropped at any time (`SurveyDropped`, `DoneDropped`), and the
timer may fail to queue one (`SurveyTimerFails`). `cfgReq` is cfg80211's own idea of the outstanding request; it sees a
request end either by a report or by an error from `cfg80211_rtw_scan`. The
P2P listen states are entered only in a search started through the private P2P
ioctls of wireless extensions and are left out; the back-on-channel states are
not compiled in.

The type of the interface is seen as `monitor` (the Makefile builds with
`CONFIG_WIFI_MONITOR`). `ChangeIface` is `rtw_set_802_11_infrastructure_mode`, which
clears all of `fw_state`, survey and linking flags included, and stops no timer and no
command. In monitor mode `rtw_sitesurvey_cmd` returns success and does nothing
(`StartSurvey`), and `sitesurvey_cmd_hdl` takes a command and does nothing
(`SurveyIgnored`). What follows is written into the properties as exceptions, and TLC finds
each property violated without its exception:

- A scan whose last command was dropped, ignored in monitor mode or not queued by the
  timer stands where it is (`halted`) until a later survey takes it up, in the middle of
  its old channel list. `ScanGoesOn` excepts only that time.
- A request of cfg80211 accepted in monitor mode (`forsaken`) is answered by nobody in
  the driver; it ends when cfg80211 takes the interface down. Every other request is
  answered, whatever is lost: the only step that cancels the time-out of another survey
  (`DoneCancel`) goes on to report the request.
- A survey of a join whose time-out an earlier done event cancelled, and which then loses a
  command or its event, leaves the survey flag set: `lost` in `SurveyEnds`, until the next
  survey sets the time-out again.

A change of the interface type in the middle of a join is only here, as the clearing of
the flags: `JoinBss` keeps the station type.

Run `survey_check`: two requests and one survey of a join, so that a survey
meets the end of the one before it and its time-out; two channels, so that there
is a middle of a scan; the type of the interface may change any number of times. Fairness: weak for the process inside the driver, for the
command thread and for both timers, which the kernel fires.
`survey_stale_request` needs one channel only.

## `JoinBss`

Station mode from the connect of cfg80211 to the link and its end. The flags of
`fw_state` that matter (`linking`, `linked`, `survey`), `to_join`, `to_roam`,
`pmlmeinfo->state` as a set of flags, the retry counters, `assoc_timer` and
`link_timer`, the station entry of the access point (`sta`), and the command
queue as far as it concerns the link. Four contexts act: a process (U), the
command thread (K), the receive tasklet (R) and the handlers of the timers (T).

| Definition | Code |
|---|---|
| `DoJoin`, `Connect*` | `rtw_do_join`, `rtw_set_802_11_connect`, `cfg80211_rtw_connect` |
| `Disconnect*` | `cfg80211_rtw_disconnect`, without a lock as in the code: `to_roam`, then `disconnect_hdl`, then the report, then the clearing of `_FW_LINKED` are four steps |
| `JoinCmd`, `JoinCmdFails`, `JoinDropped`, `DiscCmd` | `join_cmd_hdl` and `start_clnt_join`, the drop callback, `disconnect_hdl` |
| `StaDel`, `TriesAfter`, `Roam` | `rtw_stadel_event_callback`, `_rtw_roaming` |
| `SurveyDone`, `Surveyed*` | the two locked parts of `rtw_surveydone_event_callback` |
| `OnBeacon` ... `AssocDone` | the frame handlers; each tests the state and changes it later, as the synchronous cancel of `link_timer` lies between |
| `ReportJoin`, `JoinIgnored`, `JoinConnected`, `JoinCancelsTimer`, `JoinFails` | `rtw_joinbss_event_prehandle` |
| `LinkTimer*`, `AssocTimer`, `JoinTimeout*`, `RoamNext` | `link_timer_hdl`, `_rtw_join_timeout_handler` |

Abstractions. Whether there is a candidate, and whether a command or a survey can
be queued, is a choice (`Outcome`). A roam's loop over failing `rtw_do_join` is one
step that ends with some number of tries left. Surveys are reduced to their done
event (`SiteSurvey` has the rest). `told` and `awaiting` are cfg80211's side: the
last report, and a connect without an answer. `overlap` remembers that an unlocked
step of a disconnect was taken while another context was inside the lock, or the
reverse; the safety properties except these executions, and the violation runs
show what happens in them. Left out: a disconnect command that is dropped, active
roaming (not in the default `roam_flags`), ad-hoc mode, WPS.

Runs. The properties of `JoinBss` are checked in the composition with `SaeJoin`
(`join_check`, below), whose behaviours include all of `JoinBss`. `join_unlocked_disconnect`
and `join_cancel_deadlock` are about `JoinBss` alone: three calls of cfg80211 (connect,
disconnect, scan) or losses of the access point, one try of roaming, one retry, and
`to_roam` modulo 3 so that a wrap passes the limit.

Fairness: weak for a process inside the driver, the command thread, a frame
handler that has begun, and both timers, which the kernel fires. No frame is
obliged to arrive.

## `SaeJoin`

WPA3-SAE composed with `JoinBss`, which it extends: a step of `JoinBss` is conjoined
with what it does to the variables of SAE, and the steps that are new act on both.

A connect whose security settings have `wpa3_sae` does not join. It schedules a work
item, which asks the supplicant (NL80211_CMD_EXTERNAL_AUTH) and sends the same request
again by multicast; the join begins when the supplicant answers. Between the two lie a
work queue, a socket and a process, and nothing links an answer to its request.

| Definition | Code |
|---|---|
| `SaeConnectOpen`, `SaeConnectKey`, `SaeConnectAsks`, `SaeConnectJoin`, `SaeConnectRefused` | `cfg80211_rtw_connect` around `rtw_set_802_11_connect`; the settings are written in two steps, since the command thread may reset them in between; `rtw_cfg80211_set_key_mgt` |
| `SaeWorkAsks`, `SaeWorkFails` | `rtw_sae_ext_auth_work`; 0, 1 or 2 of the requests arrive |
| `ExternalAuthFailed`, `ExternalAuthJoin`, `ExternalAuthLater`, `Answered` | `cfg80211_rtw_external_auth` and the `rtw_set_802_11_connect` it calls |
| `ResetSecurity`, `ResetQueued`, `ResetHdl`, `Refused` | `rtw_reset_securitypriv`, the command that `rtw_os_indicate_disconnect` queues for it, its handler, and the direct call after a refused join |

State. `wpa3_sae` and `dot1x` (`dot11AuthAlgrthm` is 802.1X, without which the reset
does not clear the flag; `dot1x` is kept only while it matters, that is FALSE when
`wpa3_sae` is). `key` is the key management of the connect in progress. `reset` says
that reset commands are queued: their number and their place among the other
commands are not kept, so the model has more behaviours than the code there (a reset may run
earlier or later than its turn). `asks` and `stale` are the requests the supplicant has not
answered, for the connect cfg80211 waits for and for those that are over. Beside the
code's state there is history: `auth` (the key management of the connect that waits
for the supplicant), `wanted` (cfg80211's last successful call was a connect) and `late`:
an answer or a failure of the work item was applied to a connect that is over, or a
loss was handled after the disconnect and the station began to roam. The code guards
against none of these, and no comment says it does; `LinkedIsReported` and
`ConnectedOnPurpose` except them, as they except `overlap`, and hold for everything else
that a disconnect may find under way: surveys for a join, queued commands, responses,
time-outs, roams that began before.

Runs. `join_check`: three events in any order, each a call of cfg80211, the loss of
the access point or a request that reaches the supplicant (at most two of these, so
that one connect can be answered twice, or one request be answered after a
disconnect). That is enough for a disconnect to meet every step of a join, for a
connect after it to find the station still linked, and for a roam to use up its
tries. `CHECK_DEADLOCK FALSE`, since calls are bounded. `sae_sticky` needs four
events: see Findings.

Fairness: as in `JoinBss`, and weak for the work item, which the kernel's work queue
runs. The supplicant need not answer, so `ConnectAnswered` speaks of connects that do
not wait for it, and rests on the time-outs. It excepts the deadlock that
`join_cancel_deadlock` exhibits.

`PS_DENY_JOIN`, which the SAE branch of connect never takes back, is in `PwrCtrl`.
Not modelled: the removal of the interface with a work item pending; the `auth` and `assoc` callbacks,
which are commented out of `cfg80211_ops`. The repository's README says that the
firmware of the chip cannot do WPA3 at all; the code above runs all the same.

## `Xmit` and `TxContract`

The transmit path of an access point interface, from `ndo_start_xmit` to the
bulk-out URB, with the buffering for stations that sleep. The contexts are: one
call of `rtw_xmit_entry` per subqueue (the stack holds `HARD_TX_LOCK`), the transmit
tasklet, the completion of URBs, the receive tasklet, and whoever ends a survey,
removes the device or frees a station. `pst[p]` says where packet `p` is: with the
stack, at a step of `rtw_xmit_entry`, in a transmit queue, in a sleep queue, or with
the tasklet; the `xmit_frame` goes with it. Every section under `xmitpriv.lock` is one
step; what happens between two such sections may be interrupted by all others.

| Definition | Code |
|---|---|
| `XmitEntry`, `StopSubqueue`, `RtwXmitFail` | `_rtw_xmit_entry`, `rtw_check_xmit_resource` (test and stop are two steps), the drop path |
| `GetsFrame`, `EnqueueForSleepingSta`, `RtwXmit` | `rtw_alloc_xmitframe`, `update_attrib`, `xmitframe_enqueue_for_sleeping_sta`, `rtw_xmit` |
| `MustQueue`, `PreXmit*`, `XmitDirect`, `WritePort` | `pre_xmitframe`, `xmitframe_direct`, `rtw_dump_xframe`, `usb_write_port` |
| `Tasklet*` | `rtl8188fu_xmit_tasklet`, `rtl8188fu_xmitframe_complete`, `rtw_dequeue_xframe` |
| `WritePortComplete` | `usb_write_port_complete` |
| `ScanStart`, `ScanEnd`, `ScanDone` | the scan state of `sitesurvey_cmd_hdl`, `rtw_os_xmit_schedule` in the done callback |
| `Associate`, `FreeStaUnlink`, `FreeStaFlush`, `WakeAtFree` | the WMM part of `OnAssocReq`, `rtw_free_stainfo`, `rtw_os_wake_queue_at_free_stainfo` |
| `StopStaXmit`, `WakeupStaToXmit`, `DeliverTriggered`, `PsPoll*` | `stop_sta_xmit`, `wakeup_sta_to_xmit`, `xmit_delivery_enabled_frames`, the PS-Poll branch of `validate_recv_ctrl_frame` |

`TxContract` is what a driver promises the Linux stack: it takes packets of
running subqueues only, gives each back once, stops a subqueue only while it holds a
packet of it, and a subqueue that stays stopped at a return still has one. `Xmit`
refines it (`ImplementsContract`) with `held` as the packets that are not with the
stack and `halted` as the stopped subqueues. Its definitions are external: they
describe how the code uses the network stack.

Abstractions. Queues are sets, since no property depends on the order of frames;
`accnt` and `qcnt` are then the sizes of these sets. A frame that `update_attrib`
refuses is taken from and returned to the pool in one step. `update_attrib` and the
sleep check are one step: only the freeing of the station can fall between them,
and its outcome is the same later. Coalescing fails exactly when the station's
entry is not the one the frame was made for. `rtw_dump_xframe` is one write of one buffer:
its loop takes a further buffer for each fragment (`rtl8188fu_xmit.c:290-333`), but there is
more than one only when `frag_len` is below the size of the packet. `Receives` looks the station up and acts in
one step; that a station is freed while the receive tasklet still works on it
is only modelled for the unlocked tail of a PS-Poll (the hazard at `rtw_sta_mgt.c:701`
is the general case). The lengths are unsigned and wrap at `LenMod`. The counters
`sleepq_ac_len`, `uapsd_*` and the TIM bit, which `rtw_free_stainfo` clears after the
lock, are cleared with the flush: the entry is out of the table by then.

Runs. `xmit_check`: two packets for one station in one subqueue, two frames (so that
the pool runs low, empties and refills, and the subqueue is stopped and woken), one buffer, as
many as there are subqueues, as in the driver (four of each), and a
station with no or with full U-APSD. A third packet or a second category multiplies
the states beyond the time limit; what depends on several subqueues, several
stations, `wifi_spec` and the WMM threshold is covered by the proofs, which are for all
constants. `CHECK_DEADLOCK FALSE`: a removed device stops.
`xmit_pspoll_race`: see Findings.

`pre_xmitframe` queues a frame without scheduling the tasklet, counting on the completion
of a URB or on the tasklet itself. With four buffers for four subqueues, as the driver is
built, that does not always come: a frame may be queued while the three other calls and the
tasklet hold all buffers, or left in its queue by the tasklet while four calls do, and
when all of them fail nobody runs the tasklet. The history variable `stranded` has the
frames that were queued, or left in their queue by the tasklet, while every buffer was with
a thread (`AllBufsHeld`), until the tasklet runs again. `KickPending` excepts
exactly the station's queue with such a frame: the next packets of the same station and
category are queued behind it, and only a survey or traffic of another queue runs the tasklet. The
code neither excludes nor mentions the case. TLC shows that it is real, and that the exception is
needed: with two packets of two subqueues and two buffers the claim without it is violated,
and with it holds (460,000 states; the run itself reaches the exception with the one buffer
that the tasklet or the call holds). `NoneStranded` proves that a fifth buffer would close it.

`PacketReturned` has the same exception, and asks that no packet of another station
or category stays in the driver: with as many buffers as subqueues, direct traffic
of another subqueue can take each buffer that is freed before the tasklet does, which
TLC shows with one buffer and two subqueues. With two buffers and two subqueues, no
survey and no sleeping station it holds too (23,600 states).

Fairness: weak for calls inside the driver, the tasklet, URB completions, the end of
a survey and the flush of a station; after a removal stations are unlinked; strong
for the dequeue of each packet, since the queues are FIFO and the stations of a category take
turns. `PacketReturned` excepts what may starve: a lasting survey, a station that
sleeps, a category served before.

Not modelled: broadcast and multicast buffering (the `bmc` station and its TIM bit),
the conversion of multicast to unicast, management frames and their acknowledgements,
the back-to-operation phase of a scan, the keep-alive TIM bit of `rtw_ap.c`.

## `PwrCtrl`

Inactive power save: a station that is not associated turns its radio off, and each
process that wants to use it turns it on again. The command thread K decides in
`rtw_ps_processor`, which a timer starts every two seconds through a command; a process
(a call of cfg80211, which the RTNL serialises, and any number of writers of proc's
`survey_info`) calls `rtw_pwr_wakeup`. The latter (`rtw_debug.c:1101`) exist only with
`CONFIG_PROC_DEBUG`, which `autoconf.h:318` leaves out: with `Procs` empty the model is this
build, and with others it covers more than the build, whoever else may call
`rtw_pwr_wakeup` beside cfg80211. Between them stand `ps_deny` (under the lock of
power control), `ips_deny_time`, `ps_processing`, `bpower_saving` and the flags of
`fw_state` (read by K without any lock), so each of K's reads and each step of the
wakeup is an action.

| Definition | Code |
|---|---|
| `TakeCmd`, `Enqueue`, `Accepts` | the command thread, `rtw_enqueue_cmd`, `rtw_cmd_filter` |
| `PsDeny`, `PsSuspend`, `PsEnd`, `PsExit` | `rtw_ps_processor` |
| `PsDefer`, `PsLinked`, `PsLinking` | `rtw_pwr_unassociated_idle`, read by read |
| `IpsEnter`, `IpsDown`, `IpsOff` | `ips_enter`, `rtw_ips_pwr_down` |
| `Deny`, `Cancel` | `rtw_ps_deny`, `rtw_ps_deny_cancel` |
| `Extend`, `Defer`, `Wait`, `LookLinked`, `LookRf`, `LookHw`, `WakeupReturns` | `_rtw_pwr_wakeup` |
| `IpsLeave`, `IpsUp`, `IpsUpFails`, `IpsUpEnds`, `ResetDrvSw` | `ips_leave`, `rtw_ips_pwr_up`, `rtw_hal_init`, `rtw_reset_drv_sw` |
| `Act`, `ConnectRefused` | the request itself: a survey, a join, or for SAE the question to the supplicant; a connect refused for its parameters |
| `Disconnect`, `IndicateDisconnect`, `LinkLost`, `JoinFails` | `cfg80211_rtw_disconnect`, `rtw_indicate_disconnect` and its other callers |
| `ScanEnds`, `IndicateScanDone`, `JoinUpdate`, `JoinConnect` | the end of a scan; the end of a join, which overwrites `fw_state` and sets the linked flag later |
| `LPS_Enter`, `LPS_Leave` | of the same name, as far as they write `bpower_saving` |
| `Suspend*`, `Resume` | `rtw_suspend_common`, `rtw_resume_common` |

Abstractions. `ips_deny_time` is the Boolean "not over yet". It is compared in 32-bit
jiffies (`rtw_pwrctrl.c:205`, 2375, 2504), so a deadline that wraps is not set by
`_rtw_pwr_wakeup` and is over at once when `rtw_indicate_disconnect` sets it: `Extend` and
`IndicateDisconnect` allow that at any time, and the caller's deferral is then not `held`.
That the wrap of the clock itself brings back an old deadline is left out: it keeps the
radio on until the next scan or disconnect sets a new one. A wait in the wakeup ends at
any time, as it has a limit. A scan and a join are only their flags and ends: `SiteSurvey`
and `JoinBss` have the rest. A disconnect does not wait for a scan (`rtw_scan_abort`
gives up after a while), `rtw_indicate_disconnect` is one step, and `Resume` is one step,
since processes are still frozen and the timer it sets runs for two seconds. Roaming
and the join that `external_auth` starts are left out, and so is the test of free transmit
buffers in `rtw_pwr_unassociated_idle`, which only keeps the radio on more often; `IdleSleeps`
takes the buffers to be free. `Disconnect` takes no `pmlmepriv->lock`, and may fall between
`JoinUpdate` and `JoinConnect`. `pwr_state_check_cnts` is never counted in this
build. The unlocked variables are taken to be sequentially consistent.

`held`, `split` and `stale` are history and mark what the code does not promise:
a deferral that the wrap, the end of another scan, or a wait of 3 s, cut short; a join that
completed between K's reads of `fw_state` and the end of `ips_enter`; a `bpower_saving`
that was TRUE over a suspend. They are exceptions of the properties, and needed: without
each of them, and without the exception for a reason that a connect with SAE, or one whose
group cipher is refused (`ioctl_cfg80211.c:3622`), leaves behind, TLC finds the property
violated. So a link can be made while K turns the radio off under it, and a station
suspended in IPS does not enter IPS again until the end of a link or of a failed join is
reported.

Run `pwr_check`: a process of cfg80211 and one of proc (not in the build, see above), three
calls or suspends together, two commands in the queue. Two callers are needed for one to find the other in
`ips_leave` and for the end of one's scan to cut the other's deferral; with three calls a
station can connect, lose its link and sleep, or suspend in IPS and be used again.
`CHECK_DEADLOCK FALSE`: calls are bounded, and a station that sleeps waits for one.

Fairness: weak for K, the timers, the callers inside the driver and the suspend; a scan
and a join end, since their timers see to it. No call, suspend, resume or loss
need happen.

Not modelled: `rtw_pm_set_ips`, which changes the mode or switches IPS off; the protocol
of LPS with the firmware; the other callers of `rtw_pwr_wakeup`; failures inside
`rtw_ips_pwr_down`; USB errors and removal.

## Findings

- `reorder_reset_race`: on the path with reordering off, the tasklet advances
  `indicate_seq` after the frame was handed up, without a lock. If an ADDBA resets
  it in between, the new session starts with the window at 0 instead of unset.
- `survey_stale_request`: a scan request turned down with `-EBUSY` stays in
  `scan_request` and is reported when a later survey ends.
- `join_unlocked_disconnect`: a disconnect of cfg80211 runs without
  `pmlmepriv->lock`; when it overlaps the end of a join, cfg80211 is told
  "connected" last while the driver is not linked.
- `join_cancel_deadlock`: the end of a join cancels `assoc_timer` synchronously with
  the lock held that the handler of the timer needs.
- `sae_sticky`: `wpa3_sae` is set by a connect with SAE and tested by every connect. When
  the work item or the supplicant fails, the failure is reported without the reset of
  the security settings, and the next connect, to a network without SAE, is handed to
  the supplicant and does not join.
- `xmit_pspoll_race`: a PS-Poll that finds no buffered frame resets `sleepq_len` and
  the TIM bit after it released the lock; a frame buffered in between is neither
  counted nor announced, and the length later wraps.

## What is proved

TLC checks the instances above; the following holds for every value of the
constants that satisfies the assumptions in the modules.

`RecvReorderProofs`, from `SpaceAssumption` and `FrameAssumption`:

- `TypeCorrect`: `Spec => []TypeOK`.
- `HeldFramesAreCovered`: `Spec => []HeldFrameHasTimer`. Not inductive by
  itself: `RecvWait` leaves the timer alone when `bReorderWaiting` is set, so the
  invariant must say that while the flag is set and the driver is not stopped the
  timer is pending or its handler has fired (`FlagIsTrue`), that the
  tasklet cancels only after it saw an empty queue and that no other context
  adds frames (`CancelOnEmpty`), and that R and T exclude each other
  (`LockExclusive`).
- `PoolIsConserved`: `Spec => []FramesAccounted`.

The inductive invariant is the conjunction of `TypeOK`, `LockExclusive`,
`FlagIsTrue`, `CancelOnEmpty`, `HeldFrameHasTimer` and `FramesAccounted`; one
lemma per action shows that it is preserved.

`RecvWindowProofs`, from the same assumptions (of which the window taking at most a
quarter of the sequence space is the one that matters). The code compares 12-bit
numbers, the properties speak of the sender's: `LessIsBehind` shows that `SN_LESS` of
two reduced numbers compares the numbers themselves when they are less than half the
space apart, and `NextWindowStart` what `check_indicate_seq` does in those numbers.

- `BufferIsBounded`: `Spec => []BufferWithinWindow`. A count of frames is not inductive;
  their numbers are (`WindowInv`). The buffer is sorted without repetition (`Apart`),
  less than a quarter of the space below the highest number (`Near`), and spans less
  than the window once the last frames, one for each control operation, are left out
  (`Spans`). While the tasklet drains, that is known only from the first frame the window
  is behind of (`DrainSpan`), and in addition with one more frame left out, which is
  what remains when the command thread unsets the window in the middle of the drain.
- `SessionIsInOrder`: `Spec => []InOrderWithinSession`. In a session `indicate_seq` stands
  for a number of the sender, at most one above the highest and less than a quarter of
  the space below it (`SessionWindow`); what went up is below that number and below
  everything held (`UpBelow`).
- `NewestIsAccepted`: `Spec => NewestAcceptedInSession`, an action property. A fresh frame
  at the window is above everything held (`FreshIsNewest`) and less than half the space
  above the window, so that neither test refuses it.

TLC checked `WindowInv` and `SessionInv` first, on spaces of 8 (numbers 0..9, three control
operations) and 12 (window 3, numbers 9..15), with the quantifier over `w` bounded.

`CmdThreadProofs`, from `CmdAssumption`:

- `TypeCorrect`: `Spec => []TypeOK`, which includes that no semaphore goes below
  zero.
- `CompletionIsSafe`: `Spec => []CompletesLiveWaiter`, and `CutLooseIsSafe`:
  `Spec => []WaiterFindsObject`. The invariant relates each command's place (queue,
  thread, nowhere) to its object and its submit_ctx: a set `pcmd->sctx` has a
  caller that has not returned (`SctxAlive`, `OnlyWaitersWait`), what is queued
  or being run was submitted and is allocated (`QueueSubmitted`,
  `ThreadHasCmd`, `ObjectKept`), and what is freed was answered before
  (`FreeIsAnswered`).
- `StopIsSynchronous`: `Spec => []StopWaitsForThread`, from an invariant on the
  terminate semaphore (`Handshake`): while the thread never left its loop by
  itself, the credit is there exactly between the up of the thread and the down
  of the one who waits.

`SiteSurveyProofs`, from `ScanAssumption`:

- `TypeCorrect`: `Spec => []TypeOK`; the bound on the channel index needs
  `IndexInRange` (a scan that goes on stands on one of its channels).
- `OnlyOutstandingReported`: `Spec => []ReportsOutstanding`, from
  `PointerIsCurrent`: unless a request was turned down, `scan_request` is NULL or
  the request cfg80211 has outstanding.
- `ScanIsCarriedOn`: `Spec => []ScanGoesOn`; inductive with the type invariant,
  since a survey command is taken away only by the handler that sets the timer again, or
  on one of the paths that `halted` records.

`JoinBssProofs`, from `JoinAssumption`:

- `TypeCorrect`: `Spec => []TypeOK`, in four parts (flags, program counters, counters, data).
- `LinkingIsTimed`: `Spec => []LinkingHasTimer`. The tasklet cancels the timer at the
  end of a join, so the invariant must say that no other join is under way then
  (`NoJoinAtCancel`), which holds because all that start one need the lock, and the
  tasklet and the time-out handler never both hold it (`OneHolder`).
- `RoamIsBounded`: `Spec => []RoamWithinLimit`, from `Tries`: where the handler is
  about to decrement `to_roam` it is still positive, so that it does not wrap.
- `ReportIsTrue`: `Spec => []ReportedIsLinked`. Not inductive: a join that finds no room for
  its station, and the end of a disconnect, clear the linked flag without a report. So
  `ToldInv` says of those places (a join under way, R in the lock, U about to clear)
  that the station roams, or the report is about to be taken back (`Leaving`).

`SaeJoinProofs`, from `JoinAssumption` and `SaeAssumption`. Every step of the composition
is a step of `JoinBss`, leaves its variables alone, or is one of five new ones
(`Composed`, `OwnStep`), so that the lemmas of `JoinBssProofs` carry over:

- `SaeLinkingIsTimed`: `SaeSpec => []LinkingHasTimer`, and `SaeRoamIsBounded`:
  `SaeSpec => []RoamWithinLimit`, with the same invariants.
- `SaeTypeCorrect`: `SaeSpec => []SaeTypeOK`. That no request is kept for a connect that
  is over needs `OneConnect`: inside connect, cfg80211 waits for no earlier one, and only
  connect makes it wait (`AwaitsConnect`).
- `SaeJoinTypeCorrect` and `SaeReportIsTrue`: `TypeOK` and `ReportedIsLinked` of `JoinBss` hold of
  the composition too.
- `LinkIsReported`: `SaeSpec => []LinkedIsReported`, from `LinkInv`: while the supplicant is
  asked or its request is out the station is not linked, and one that roams is not
  linked (`RoamsUnlinked`), so that the failures reported then leave no linked station.
- `ConnectsOnPurpose`: `SaeSpec => []ConnectedOnPurpose`, from `WantInv`: once cfg80211 has
  called disconnect, no roam and no survey for a join is left, and a join under way or a
  request to the supplicant only until the disconnect has made its report. What a step
  of `JoinBss` may begin is summarised once (`JoinsOnPurpose`, `LinksReported`) and cited
  for the composition.

`XmitProofs`, from `XmitAssumption`, for any packets, subqueues, stations and pools:

- `TypeCorrect`, `FramesConserved` and `BufsConserved`: `Spec => []TypeOK`,
  `[]FramesAccounted` and `[]BufsAccounted`, from one inductive invariant (`PoolInv`):
  a counter stays in its range only because it and what is outside its pool add up
  to the pool, and the tasklet's first frame is a packet in state "first"
  (`FirstInv`) or has already been returned.
- `StoppedSubqueuesWake`: `Spec => []StoppedHasPacket`, and `KeepsContract`:
  `Spec => ImplementsContract`. Each action is shown to be a step of `TxContract` or a
  stutter; a return that does not wake happens only with `wifi_spec`, when enough
  packets of the category are still queued.
- `QueuedIsKicked`: `Spec => []KickPending`, for any number of buffers. A frame is queued
  when its station's queue has one already, when a survey is on, or when no buffer is free;
  then a URB is in flight, or the frame is stranded from there on. What ends a kick is
  the tasklet, which leaves a kick behind or strands what is queued (`KickKept`, `KickStep`).
- `NoneStranded`: `NrXmitBuf > Cardinality(Queue)` implies `Spec => [](stranded = {})`. Each
  subqueue has at most one call inside the driver (`OneThread`), so with that many buffers
  one is in flight when none is free (`BusyMeansUrb`).
- `SleepersHoldSleepqs`, `UnpolledAreTold`, `UnpolledAreCounted`: from `SleeperInv`, which
  adds that the tail of a PS-Poll works for a station that may poll (`RxInv`) and
  that a station that is not in the table has lengths 0 (`NoneInv`).

`PwrCtrlProofs`, from `PwrAssumption`, for any callers:

- `TypeCorrect`: `Spec => []TypeOK`.
- `LinkedKeepsRadio`: `Spec => []LinkedHasRadio`. Not inductive: a link about to be
  reported must have its radio too, with K not past its reads (`LinkInv`). That needs
  that initialised hardware has its radio on and that nobody turns it on while K turns
  it off (`HwInv`), and so who holds the lock (`LockInv`).
- `WakeupIsKept`: `Spec => []WakeupDefersIps`. The invariant says that K's flag is set
  from the check of the deadline on (`MarkInv`), and that a deferral that is held is in
  force and, once the caller has looked at the flag, finds K not committed (`HeldInv`);
  `SuspendInv` keeps the suspend apart from the callers.

The inductive invariant `Inv` is the conjunction of these and `TypeOK`; TLC checks it
on the instance of `pwr_check`.

Only model-checked: the liveness properties (`HeldFrameLeaves`, `RecvReturns`, `StopReturns`,
`QueuedCmdTaken`, `SurveyEnds`, `RequestAnswered`, `ConnectAnswered`, `PacketReturned`,
`IdleSleeps`), since fairness and ENABLED are outside what TLAPS 1.4.5 handles, and the
counterexamples of the runs under Findings.

## What is not modelled

`PROJECT.json` lists every component with its status. Out of reach or without
logic to check: the ciphers, the PHY and RF tables and calibration (`hal/phydm`,
`hal/rtl8188f`), MP mode, LED patterns, information-element construction and
parsing. The parts with logic of their own that are left are
the station table, fragment reassembly and USB register access: see the plan above.

The modelled files hold the driver's own protocol logic. Most of the repository is
tables and code for other chips and buses (Bluetooth coexistence for a dozen chips,
phydm, the HAL of the PHY), ioctl front ends that copy parameters, and
construction of frames; none of it keeps state that several actors share.
