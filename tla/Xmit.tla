-------------------------------- MODULE Xmit --------------------------------
(***************************************************************************)
(* The transmit path of an access point interface: the ndo_start_xmit      *)
(* calls of the stack (one at a time per subqueue, several subqueues at    *)
(* once), the transmit tasklet, the bulk-out URBs and the flow control     *)
(* towards the stack (core/rtw_xmit.c, os_dep/linux/xmit_linux.c,          *)
(* hal/rtl8188f/usb/rtl8188fu_xmit.c, usb_ops.c, usb_ops_linux.c), and the *)
(* buffering for stations that sleep: the receive tasklet moves frames     *)
(* between the queues of a station and its sleep queue while the stack     *)
(* adds to both (core/rtw_xmit.c, core/rtw_recv.c, core/rtw_sta_mgt.c).    *)
(*                                                                         *)
(* A packet carries its xmit_frame with it: pst says which step of which   *)
(* thread has it, or in which queue it is.  Queues are sets, no property   *)
(* depends on the order of frames.  accnt and qcnt are the sizes of those  *)
(* sets.  A section under xmitpriv.lock is one step.                       *)
(***************************************************************************)
EXTENDS Integers, FiniteSets

CONSTANTS
    Pkt, Queue,         \* packets and subqueues (access categories)
    PktQueue, PktSta,   \* the subqueue and the receiver of a packet
    Rank,               \* order in which the categories are served
    Sta,                \* stations that may associate
    BE,                 \* the access category of priority 0
    UapsdChoices,       \* sets of U-APSD categories a station may ask for
    NrXmitFrame,        \* NR_XMITFRAME
    wifi_spec,          \* registrypriv.wifi_spec
    FrameLow,           \* rtw_os_need_stop_queue: 4
    WmmThreshold,       \* WMM_XMIT_THRESHOLD
    NrXmitBuf,          \* NR_XMITBUFF
    LenMod,             \* unsigned int wraps: 2^32
    None                \* NULL

ASSUME XmitAssumption ==
    /\ IsFiniteSet(Pkt) /\ IsFiniteSet(Queue) /\ BE \in Queue
    /\ PktQueue \in [Pkt -> Queue] /\ PktSta \in [Pkt -> Sta]
    /\ Rank \in [Queue -> Nat]
    /\ UapsdChoices \subseteq SUBSET Queue
    /\ NrXmitFrame \in Nat \ {0} /\ FrameLow \in Nat
    /\ wifi_spec \in BOOLEAN
    /\ WmmThreshold \in Nat \ {0} /\ NrXmitBuf \in Nat \ {0}
    /\ LenMod \in Nat /\ NrXmitFrame < LenMod /\ None \notin Pkt \cup Sta

VARIABLES
    pst,        \* where each packet is, see PktStates
    psta,       \* its attrib.psta is the station's current entry
    stopped,    \* subqueues of the net device that are stopped
    free_xmitframe_cnt, free_xmitbuf_cnt,
    urb,        \* bulk-out URBs in flight, one buffer each
    sched,      \* xmit_tasklet is scheduled
    tpc, tp,    \* the tasklet: its step, and its first frame
    scan,       \* "off"; "on": channels are visited; "done": callback due
    cannotTx,   \* RTW_CANNOT_TX
    sta,        \* entry of the station table: "none", "linked", "freeing"
    dz,         \* WIFI_SLEEP_STATE and the sta_dz_bitmap bit, set together
    uapsd,      \* U-APSD categories: uapsd_vo, _vi, _be and _bk
    sleepq_len, sleepq_ac_len,
    tim,        \* bit of tim_bitmap
    rx,         \* station whose PS-Poll found no frame, lock released
    stranded    \* history: packets queued, or left in their queue by the
                \* tasklet, while every buffer was with some thread, since
                \* the tasklet last started

txVars   == <<pst, psta, stopped, free_xmitframe_cnt>>
bufVars  == <<free_xmitbuf_cnt, urb>>
taskVars == <<sched, tpc, tp>>
devVars  == <<scan, cannotTx, stranded>>
slpVars  == <<dz, sleepq_len, sleepq_ac_len, tim>>
staVars  == <<sta, uapsd, rx, slpVars>>
vars     == <<txVars, bufVars, taskVars, devVars, staVars>>

\* The steps of rtw_xmit_entry that hold a packet, in program order.
ThreadStates == {"stop", "alloc", "pre", "direct"}
FrameStates  == {"pre", "direct", "queue", "sleep", "first"}
PktStates    == {"stack"} \cup ThreadStates \cup FrameStates

-----------------------------------------------------------------------------
(***************************************************************************)
(* Helpers.                                                                *)
(***************************************************************************)
In(state) == {p \in Pkt : pst[p] = state}

Queued(q)       == {p \in In("queue") : PktQueue[p] = q}
Pending(s, q)   == {p \in Queued(q) : PktSta[p] = s}     \* tx_servq
Sleeping(s)     == {p \in In("sleep") : PktSta[p] = s}   \* sleep_q
accnt(q)        == Cardinality(Queued(q))

has_legacy_ac(s) == uapsd[s] # Queue

\* The delivery-enabled packets among P (wmmps_ac).
Delivery(s, P) == {p \in P : PktQueue[p] \in uapsd[s]}

\* rtw_get_stainfo finds the entry the frame's attributes were made from.
Current(p) == psta[p] /\ sta[PktSta[p]] = "linked"

\* Mutant: the length is a signed number.
Minus_Signed(n, k) == n - k

Minus(n, k) == (n - k) % LenMod
Plus(n, k)  == (n + k) % LenMod

rtw_os_need_stop_queue(q) ==
    IF wifi_spec THEN accnt(q) > WmmThreshold
                 ELSE free_xmitframe_cnt <= FrameLow

\* With n frames counted for the queue of a returned packet.
rtw_os_need_wake_queue(n) == wifi_spec => n < WmmThreshold

\* rtw_os_pkt_complete for a packet of queue q.
Wake(q, n) == IF rtw_os_need_wake_queue(n) THEN stopped \ {q} ELSE stopped

Move(P, state) == [p \in Pkt |-> IF p \in P THEN state ELSE pst[p]]

\* The packets R go back to the stack, and the attributes of their frames go.
ToStack(R) ==
    /\ pst' = Move(R, "stack")
    /\ psta' = [p \in Pkt |-> psta[p] /\ p \notin R]

\* No packet of the subqueue is inside rtw_xmit_entry (HARD_TX_LOCK).
ThreadIdle(q) == \A p \in Pkt : PktQueue[p] = q => pst[p] \notin ThreadStates

-----------------------------------------------------------------------------
(***************************************************************************)
(* ndo_start_xmit.                                                         *)
(***************************************************************************)
\* The stack passes a packet of a running subqueue; the driver looks
\* whether it is short of frames.  When the interface is not up the packet
\* is completed at once, and nothing changes.
XmitEntry(p) ==
    LET q == PktQueue[p] IN
    /\ pst[p] = "stack" /\ q \notin stopped /\ ThreadIdle(q) /\ ~cannotTx
    /\ pst' = Move({p}, IF rtw_os_need_stop_queue(q) THEN "stop" ELSE "alloc")
    /\ stranded' = stranded \ {p}
    /\ UNCHANGED <<psta, stopped, free_xmitframe_cnt, bufVars, taskVars,
                   scan, cannotTx, staVars>>

\* rtw_check_xmit_resource stops the subqueue and goes on with the packet.
StopSubqueue(p) ==
    /\ pst[p] = "stop"
    /\ pst' = Move({p}, "alloc")
    /\ stopped' = stopped \cup {PktQueue[p]}
    /\ UNCHANGED <<psta, free_xmitframe_cnt, bufVars, taskVars, devVars,
                   staVars>>

\* Mutant: drop_packet frees the skb and forgets rtw_os_pkt_complete.
RtwXmitFail_NoWake(p) ==
    /\ pst[p] = "alloc"
    /\ ToStack({p})
    /\ UNCHANGED <<stopped, free_xmitframe_cnt, bufVars, taskVars, devVars,
                   staVars>>

\* rtw_xmit: no frame, or update_attrib refuses the packet and the frame goes
\* back to the pool; drop_packet completes the packet.
RtwXmitFail(p) ==
    /\ pst[p] = "alloc"
    /\ ToStack({p})
    /\ stopped' = Wake(PktQueue[p], accnt(PktQueue[p]))
    /\ UNCHANGED <<free_xmitframe_cnt, bufVars, taskVars, devVars, staVars>>

\* rtw_alloc_xmitframe and update_attrib succeed; the lock is taken next.
\* Nothing another thread does in between shows, except that the station may
\* be freed, which has the same outcome after the lock is released.
GetsFrame(p) ==
    /\ pst[p] = "alloc"
    /\ free_xmitframe_cnt > 0 /\ sta[PktSta[p]] = "linked"
    /\ psta' = [psta EXCEPT ![p] = TRUE]
    /\ free_xmitframe_cnt' = free_xmitframe_cnt - 1

\* Mutant: the TIM bit is set only for frames that are not delivery-enabled.
Buffer_DeliveryNotTold(s, P) ==
    LET d == Delivery(s, P) IN
    /\ sleepq_len' = [sleepq_len EXCEPT ![s] = Plus(@, Cardinality(P))]
    /\ sleepq_ac_len' = [sleepq_ac_len EXCEPT ![s] = Plus(@, Cardinality(d))]
    /\ tim' = [tim EXCEPT ![s] = @ \/ P \ d # {}]

\* The packets P join the sleep queue of s: counters and TIM bit.
Buffer(s, P) ==
    LET d == Delivery(s, P) IN
    /\ sleepq_len' = [sleepq_len EXCEPT ![s] = Plus(@, Cardinality(P))]
    /\ sleepq_ac_len' = [sleepq_ac_len EXCEPT ![s] = Plus(@, Cardinality(d))]
    /\ tim' = [tim EXCEPT ![s] =
                 @ \/ (IF has_legacy_ac(s) THEN P \ d # {} ELSE d # {})]

\* xmitframe_enqueue_for_sleeping_sta, under the lock.
EnqueueForSleepingSta(p) ==
    LET s == PktSta[p] IN
    /\ GetsFrame(p) /\ dz[s]
    /\ pst' = Move({p}, "sleep")
    /\ Buffer(s, {p})
    /\ UNCHANGED <<stopped, bufVars, taskVars, devVars, sta, uapsd, rx, dz>>

\* The station is awake; the lock is released before rtw_hal_xmit.
RtwXmit(p) ==
    /\ GetsFrame(p) /\ ~dz[PktSta[p]]
    /\ pst' = Move({p}, "pre")
    /\ UNCHANGED <<stopped, bufVars, taskVars, devVars, staVars>>

\* pre_xmitframe must queue: frames of the station and category wait,
\* a scan is on, or every transmit buffer is in use.
MustQueue(p) ==
    \/ Current(p) /\ Pending(PktSta[p], PktQueue[p]) # {}
    \/ scan = "on"
    \/ free_xmitbuf_cnt = 0

\* Every buffer is with a thread: none is free, and none is in flight, so that no
\* completion will schedule the tasklet.
AllBufsHeld == free_xmitbuf_cnt = 0 /\ urb = 0

\* rtw_xmitframe_enqueue; the tasklet is not scheduled.
PreXmitQueue(p) ==
    /\ pst[p] = "pre" /\ MustQueue(p) /\ Current(p)
    /\ pst' = Move({p}, "queue")
    /\ stranded' = IF AllBufsHeld THEN stranded \cup {p} ELSE stranded
    /\ UNCHANGED <<psta, stopped, free_xmitframe_cnt, bufVars, taskVars,
                   scan, cannotTx, staVars>>

\* rtw_free_xmitframe: frame to the pool, packet to the stack.
FreeXmitframe(p) ==
    /\ ToStack({p})
    /\ free_xmitframe_cnt' = free_xmitframe_cnt + 1
    /\ stopped' = Wake(PktQueue[p], accnt(PktQueue[p]))

\* rtw_xmit_classifier refuses: the station went away meanwhile.
PreXmitRefused(p) ==
    /\ pst[p] = "pre" /\ MustQueue(p) /\ ~Current(p)
    /\ FreeXmitframe(p)
    /\ UNCHANGED <<bufVars, taskVars, devVars, staVars>>

\* A buffer is taken, and the frame will be sent by this thread.
PreXmitDirect(p) ==
    /\ pst[p] = "pre" /\ ~MustQueue(p)
    /\ pst' = Move({p}, "direct")
    /\ free_xmitbuf_cnt' = free_xmitbuf_cnt - 1
    /\ UNCHANGED <<psta, stopped, free_xmitframe_cnt, urb, taskVars, devVars,
                   staVars>>

\* Mutant: a failed submission does not free the buffer.
WritePort_Leak(sent) ==
    /\ sent => ~cannotTx
    /\ urb' = IF sent THEN urb + 1 ELSE urb
    /\ UNCHANGED free_xmitbuf_cnt

\* usb_write_port: the URB is submitted, or the buffer is freed, and nobody
\* schedules the tasklet for it.
WritePort(sent) ==
    /\ sent => ~cannotTx
    /\ urb' = IF sent THEN urb + 1 ELSE urb
    /\ free_xmitbuf_cnt' = IF sent THEN free_xmitbuf_cnt ELSE free_xmitbuf_cnt + 1

\* xmitframe_direct: coalesce fails when the station is gone, and then the
\* buffer is freed; otherwise rtw_dump_xframe writes the port.  Either way
\* the frame is freed after it.
XmitDirect(p, sent) ==
    /\ pst[p] = "direct"
    /\ sent => Current(p)
    /\ WritePort(sent)
    /\ FreeXmitframe(p)
    /\ UNCHANGED <<taskVars, devVars, staVars>>

-----------------------------------------------------------------------------
(***************************************************************************)
(* The transmit tasklet.                                                   *)
(***************************************************************************)
TaskletStart ==
    /\ tpc = "idle" /\ sched
    /\ tpc' = "loop" /\ sched' = FALSE
    /\ stranded' = {}
    /\ UNCHANGED <<txVars, bufVars, tp, scan, cannotTx, staVars>>

\* The loop ends: the device is gone, a scan is on, or no buffer is free.
TaskletEnd ==
    /\ tpc = "loop" /\ (cannotTx \/ scan = "on" \/ free_xmitbuf_cnt = 0)
    /\ tpc' = "idle"
    /\ stranded' = IF AllBufsHeld THEN stranded \cup In("queue") ELSE stranded
    /\ UNCHANGED <<txVars, bufVars, sched, tp, scan, cannotTx, staVars>>

TaskletAllocBuf ==
    /\ tpc = "loop" /\ ~cannotTx /\ scan # "on" /\ free_xmitbuf_cnt > 0
    /\ tpc' = "pick"
    /\ free_xmitbuf_cnt' = free_xmitbuf_cnt - 1
    /\ UNCHANGED <<txVars, urb, sched, tp, devVars, staVars>>

\* rtw_dequeue_xframe, under the lock: a frame of the first category that
\* has any.
TaskletDequeue(p) ==
    /\ tpc = "pick" /\ pst[p] = "queue"
    /\ \A o \in In("queue") : Rank[PktQueue[p]] <= Rank[PktQueue[o]]
    /\ tpc' = "coalesce" /\ tp' = p
    /\ pst' = Move({p}, "first")
    /\ UNCHANGED <<psta, stopped, free_xmitframe_cnt, bufVars, sched, devVars,
                   staVars>>

\* No frame is queued; the buffer is still to be freed.
TaskletNoFrame ==
    /\ tpc = "pick" /\ In("queue") = {}
    /\ tpc' = "empty"
    /\ UNCHANGED <<txVars, bufVars, sched, tp, devVars, staVars>>

TaskletFreeBuf ==
    /\ tpc = "empty"
    /\ tpc' = "idle"
    /\ free_xmitbuf_cnt' = free_xmitbuf_cnt + 1
    /\ UNCHANGED <<txVars, urb, sched, tp, devVars, staVars>>

\* Mutant: a frame that cannot be coalesced is not freed.
TaskletCoalesce_Leak ==
    /\ tpc = "coalesce"
    /\ ToStack({tp})
    /\ stopped' = Wake(PktQueue[tp], accnt(PktQueue[tp]))
    /\ IF Current(tp) THEN tpc' = "aggregate" /\ UNCHANGED tp
                      ELSE tpc' = "pick" /\ tp' = None
    /\ UNCHANGED <<free_xmitframe_cnt, bufVars, sched, devVars, staVars>>

\* Mutant: such a frame is queued again, to be tried later.
TaskletCoalesce_Retry ==
    /\ tpc = "coalesce"
    /\ IF Current(tp)
       THEN /\ ToStack({tp})
            /\ stopped' = Wake(PktQueue[tp], accnt(PktQueue[tp]))
            /\ tpc' = "aggregate" /\ UNCHANGED tp
       ELSE /\ pst' = Move({tp}, "queue") /\ UNCHANGED <<psta, stopped>>
            /\ tpc' = "pick" /\ tp' = None
    /\ UNCHANGED <<free_xmitframe_cnt, bufVars, sched, devVars, staVars>>

\* Coalesce of the first frame.  When it fails the frame is freed and the
\* next one is picked; otherwise the packet returns, the frame stays.
TaskletCoalesce ==
    /\ tpc = "coalesce"
    /\ ToStack({tp})
    /\ stopped' = Wake(PktQueue[tp], accnt(PktQueue[tp]))
    /\ IF Current(tp)
       THEN tpc' = "aggregate" /\ UNCHANGED <<free_xmitframe_cnt, tp>>
       ELSE /\ tpc' = "pick" /\ tp' = None
            /\ free_xmitframe_cnt' = free_xmitframe_cnt + 1
    /\ UNCHANGED <<bufVars, sched, devVars, staVars>>

\* Frames of the same station and category join the buffer, under the lock;
\* each is freed and its packet returned, whether it could be coalesced or
\* not.  Then rtw_write_port, and the first frame goes back to the pool.
TaskletAggregate(A, sent) ==
    LET q == PktQueue[tp] IN
    /\ tpc = "aggregate" /\ A \subseteq Pending(PktSta[tp], q)
    /\ tpc' = "loop" /\ tp' = None
    /\ ToStack(A)
    /\ free_xmitframe_cnt' = free_xmitframe_cnt + Cardinality(A) + 1
    /\ stopped' = IF A = {} THEN stopped
                  ELSE Wake(q, Cardinality(Queued(q) \ A))
    /\ WritePort(sent)
    /\ UNCHANGED <<sched, devVars, staVars>>

\* usb_write_port_complete; gone: a status that marks the device removed.
WritePortComplete(gone) ==
    /\ urb > 0
    /\ urb' = urb - 1
    /\ free_xmitbuf_cnt' = free_xmitbuf_cnt + 1
    /\ sched' = TRUE
    /\ cannotTx' = (cannotTx \/ gone)
    /\ UNCHANGED <<txVars, tpc, tp, scan, stranded, staVars>>

-----------------------------------------------------------------------------
(***************************************************************************)
(* The survey and the removal of the device.                               *)
(***************************************************************************)
ScanStart ==
    /\ scan = "off" /\ ~cannotTx
    /\ scan' = "on"
    /\ UNCHANGED <<txVars, bufVars, taskVars, cannotTx, stranded, staVars>>

\* The scan state is disabled, the survey-done event is on its way.
ScanEnd ==
    /\ scan = "on"
    /\ scan' = "done"
    /\ UNCHANGED <<txVars, bufVars, taskVars, cannotTx, stranded, staVars>>

\* Mutant: nobody runs the tasklet after the survey.
ScanDone_NoSchedule ==
    /\ scan = "done"
    /\ scan' = "off"
    /\ UNCHANGED <<txVars, bufVars, taskVars, cannotTx, stranded, staVars>>

\* rtw_surveydone_event_callback calls rtw_os_xmit_schedule.
ScanDone ==
    /\ scan = "done"
    /\ scan' = "off"
    /\ sched' = (sched \/ In("queue") # {})
    /\ UNCHANGED <<txVars, bufVars, tpc, tp, cannotTx, stranded, staVars>>

SurpriseRemoved ==
    /\ ~cannotTx
    /\ cannotTx' = TRUE
    /\ UNCHANGED <<txVars, bufVars, taskVars, scan, stranded, staVars>>

-----------------------------------------------------------------------------
(***************************************************************************)
(* The station table and the stations that sleep.                          *)
(***************************************************************************)
Associate(s, u) ==
    /\ sta[s] = "none" /\ ~cannotTx
    /\ sta' = [sta EXCEPT ![s] = "linked"]
    /\ uapsd' = [uapsd EXCEPT ![s] = u]
    /\ UNCHANGED <<txVars, bufVars, taskVars, devVars, rx, slpVars>>

\* rtw_free_stainfo takes the entry out of the table and unlinks it.
FreeStaUnlink(s) ==
    /\ sta[s] = "linked"
    /\ sta' = [sta EXCEPT ![s] = "freeing"]
    /\ UNCHANGED <<txVars, bufVars, taskVars, devVars, uapsd, rx, slpVars>>

\* Mutant: qcnt_freed is not looked at, every subqueue is woken.
WakeAtFree_Always(R) ==
    {q \in Queue : rtw_os_need_wake_queue(Cardinality(Queued(q) \ R))}

\* rtw_os_pkt_complete of the packets R of a freed station while accnt still
\* counts them, then rtw_os_wake_queue_at_free_stainfo.
WakeAtFree(R) ==
    {q \in Queue :
       \/ \E p \in R : PktQueue[p] = q /\ rtw_os_need_wake_queue(accnt(q))
       \/ /\ Queued(q) \cap R # {}
          /\ rtw_os_need_wake_queue(Cardinality(Queued(q) \ R))}

\* Mutant: the sleep queue is not flushed.
FreeStaFlush_KeepsSleepq(s) ==
    LET R == {p \in In("queue") : PktSta[p] = s} IN
    /\ sta[s] = "freeing"
    /\ sta' = [sta EXCEPT ![s] = "none"]
    /\ pst' = Move(R, "stack")
    /\ free_xmitframe_cnt' = free_xmitframe_cnt + Cardinality(R)
    /\ stopped' = stopped \ WakeAtFree(R)
    /\ psta' = [p \in Pkt |-> psta[p] /\ PktSta[p] # s]
    /\ uapsd' = [uapsd EXCEPT ![s] = {}]
    /\ dz' = [dz EXCEPT ![s] = FALSE]
    /\ tim' = [tim EXCEPT ![s] = FALSE]
    /\ sleepq_len' = [sleepq_len EXCEPT ![s] = 0]
    /\ sleepq_ac_len' = [sleepq_ac_len EXCEPT ![s] = 0]
    /\ rx' = IF rx = s THEN None ELSE rx
    /\ UNCHANGED <<bufVars, taskVars, devVars>>

\* Its queues are flushed under the lock.  What is left of a PS-Poll handler
\* works on the freed entry, whose aid is 0.
FreeStaFlush(s) ==
    LET R == {p \in In("queue") \cup In("sleep") : PktSta[p] = s} IN
    /\ sta[s] = "freeing"
    /\ sta' = [sta EXCEPT ![s] = "none"]
    /\ pst' = Move(R, "stack")
    /\ free_xmitframe_cnt' = free_xmitframe_cnt + Cardinality(R)
    /\ stopped' = stopped \ WakeAtFree(R)
    /\ psta' = [p \in Pkt |-> psta[p] /\ PktSta[p] # s]
    /\ uapsd' = [uapsd EXCEPT ![s] = {}]
    /\ dz' = [dz EXCEPT ![s] = FALSE]
    /\ tim' = [tim EXCEPT ![s] = FALSE]
    /\ sleepq_len' = [sleepq_len EXCEPT ![s] = 0]
    /\ sleepq_ac_len' = [sleepq_ac_len EXCEPT ![s] = 0]
    /\ rx' = IF rx = s THEN None ELSE rx
    /\ UNCHANGED <<bufVars, taskVars, devVars>>

\* The receive tasklet takes a frame of the station.
Receives(s) == sta[s] = "linked" /\ rx = None /\ ~cannotTx

\* A frame with the power management bit: stop_sta_xmit.
StopStaXmit(s) ==
    /\ Receives(s) /\ ~dz[s]
    /\ LET P == {p \in In("queue") : PktSta[p] = s} IN
       /\ pst' = Move(P, "sleep")
       /\ Buffer(s, P)
    /\ dz' = [dz EXCEPT ![s] = TRUE]
    /\ UNCHANGED <<psta, stopped, free_xmitframe_cnt, bufVars, taskVars,
                   devVars, sta, uapsd, rx>>

\* The packets P leave the sleep queue of s for its transmit queues
\* (rtw_hal_xmitframe_enqueue); d of them were counted as delivery-enabled.
Release(s, P, d) ==
    /\ pst' = Move(P, "queue")
    /\ sleepq_len' = [sleepq_len EXCEPT ![s] = Minus(@, Cardinality(P))]
    /\ sleepq_ac_len' = [sleepq_ac_len EXCEPT ![s] = Minus(@, Cardinality(d))]
    /\ sched' = (sched \/ P # {})

\* A frame without the bit, or a sleep queue the aging found too long:
\* wakeup_sta_to_xmit.
WakeupStaToXmit(s) ==
    /\ Receives(s) /\ dz[s]
    /\ Release(s, Sleeping(s), Delivery(s, Sleeping(s)))
    /\ LET last == sleepq_len'[s] = 0 IN
       /\ tim' = [tim EXCEPT ![s] = @ /\ ~last]
       /\ dz' = [dz EXCEPT ![s] = ~last]
    /\ UNCHANGED <<psta, stopped, free_xmitframe_cnt, bufVars, tpc, tp,
                   devVars, sta, uapsd, rx>>

\* Mutant: the released frames are not taken off sleepq_ac_len.
DeliverTriggered_NotCounted(s) ==
    LET d == Delivery(s, Sleeping(s)) IN
    /\ Receives(s) /\ dz[s] /\ sleepq_ac_len[s] > 0
    /\ Release(s, d, {})
    /\ tim' = [tim EXCEPT ![s] =
                 @ /\ ~(d # {} /\ sleepq_ac_len'[s] = 0 /\ ~has_legacy_ac(s))]
    /\ UNCHANGED <<psta, stopped, free_xmitframe_cnt, bufVars, tpc, tp,
                   devVars, sta, uapsd, rx, dz>>

\* A U-APSD trigger frame: xmit_delivery_enabled_frames.
DeliverTriggered(s) ==
    LET d == Delivery(s, Sleeping(s)) IN
    /\ Receives(s) /\ dz[s] /\ sleepq_ac_len[s] > 0
    /\ Release(s, d, d)
    /\ tim' = [tim EXCEPT ![s] =
                 @ /\ ~(d # {} /\ sleepq_ac_len'[s] = 0 /\ ~has_legacy_ac(s))]
    /\ UNCHANGED <<psta, stopped, free_xmitframe_cnt, bufVars, tpc, tp,
                   devVars, sta, uapsd, rx, dz>>

\* A PS-Poll releases one frame.
PsPoll(p) ==
    LET s == PktSta[p] IN
    /\ Receives(s) /\ dz[s] /\ BE \notin uapsd[s]
    /\ pst[p] = "sleep"
    /\ Release(s, {p}, {})
    /\ tim' = [tim EXCEPT ![s] = @ /\ sleepq_len'[s] # 0]
    /\ UNCHANGED <<psta, stopped, free_xmitframe_cnt, bufVars, tpc, tp,
                   devVars, sta, uapsd, rx, dz>>

\* A PS-Poll finds the sleep queue empty and drops the lock.
PsPollEmpty(s) ==
    /\ Receives(s) /\ dz[s] /\ BE \notin uapsd[s]
    /\ Sleeping(s) = {}
    /\ rx' = s
    /\ UNCHANGED <<txVars, bufVars, taskVars, devVars, sta, uapsd, slpVars>>

\* Without the lock: if the TIM bit is set, a length that is not 0 is
\* overwritten and the bit is cleared.
PsPollClearTim ==
    /\ rx # None
    /\ sleepq_len' = [sleepq_len EXCEPT ![rx] = IF tim[rx] THEN 0 ELSE @]
    /\ tim' = [tim EXCEPT ![rx] = FALSE]
    /\ rx' = None
    /\ UNCHANGED <<txVars, bufVars, taskVars, devVars, sta, uapsd, dz,
                   sleepq_ac_len>>

-----------------------------------------------------------------------------
Init ==
    /\ pst = [p \in Pkt |-> "stack"] /\ psta = [p \in Pkt |-> FALSE]
    /\ stopped = {}
    /\ free_xmitframe_cnt = NrXmitFrame /\ free_xmitbuf_cnt = NrXmitBuf
    /\ urb = 0 /\ sched = FALSE /\ tpc = "idle" /\ tp = None
    /\ scan = "off" /\ cannotTx = FALSE
    /\ sta = [s \in Sta |-> "none"] /\ dz = [s \in Sta |-> FALSE]
    /\ uapsd = [s \in Sta |-> {}] /\ tim = [s \in Sta |-> FALSE]
    /\ sleepq_len = [s \in Sta |-> 0] /\ sleepq_ac_len = [s \in Sta |-> 0]
    /\ rx = None /\ stranded = {}

\* One call of rtw_xmit_entry, step by step.
XmitThread(p) ==
    \/ StopSubqueue(p) \/ RtwXmitFail(p) \/ RtwXmit(p)
    \/ EnqueueForSleepingSta(p) \/ PreXmitQueue(p) \/ PreXmitRefused(p)
    \/ PreXmitDirect(p)
    \/ \E sent \in BOOLEAN : XmitDirect(p, sent)

Tasklet ==
    \/ TaskletStart \/ TaskletEnd \/ TaskletAllocBuf \/ TaskletNoFrame
    \/ TaskletFreeBuf \/ TaskletCoalesce
    \/ \E p \in Pkt : TaskletDequeue(p)
    \/ \E A \in SUBSET Pkt, sent \in BOOLEAN : TaskletAggregate(A, sent)

Next ==
    \/ \E p \in Pkt : XmitEntry(p) \/ XmitThread(p) \/ PsPoll(p)
    \/ Tasklet
    \/ \E gone \in BOOLEAN : WritePortComplete(gone)
    \/ ScanStart \/ ScanEnd \/ ScanDone \/ SurpriseRemoved
    \/ \E s \in Sta :
         \/ \E u \in UapsdChoices : Associate(s, u)
         \/ FreeStaUnlink(s) \/ FreeStaFlush(s)
         \/ StopStaXmit(s) \/ WakeupStaToXmit(s) \/ DeliverTriggered(s)
         \/ PsPollEmpty(s)
    \/ PsPollClearTim

Spec == Init /\ [][Next]_vars

\* Threads, tasklets and the USB core run on; a queued frame that is first in
\* line again and again is taken (the queues are FIFO and the stations of a
\* category take turns); a survey ends; after a removal the stations are
\* freed.
Fairness ==
    /\ \A p \in Pkt : WF_vars(XmitThread(p)) /\ SF_vars(TaskletDequeue(p))
    /\ WF_vars(Tasklet)
    /\ WF_vars(\E gone \in BOOLEAN : WritePortComplete(gone))
    /\ WF_vars(ScanEnd) /\ WF_vars(ScanDone) /\ WF_vars(PsPollClearTim)
    /\ \A s \in Sta : WF_vars(FreeStaFlush(s))
    /\ \A s \in Sta : WF_vars(cannotTx /\ FreeStaUnlink(s))

FairSpec == Spec /\ Fairness

-----------------------------------------------------------------------------
(***************************************************************************)
(* Properties.                                                             *)
(***************************************************************************)
\* Every variable of the transmit path has a value of its type; the counters
\* of frames and buffers stay between 0 and the size of their pool.
TypeOK ==
    /\ pst \in [Pkt -> PktStates] /\ psta \in [Pkt -> BOOLEAN]
    /\ stopped \subseteq Queue
    /\ free_xmitframe_cnt \in 0..NrXmitFrame
    /\ free_xmitbuf_cnt \in 0..NrXmitBuf /\ urb \in 0..NrXmitBuf
    /\ sched \in BOOLEAN /\ tp \in Pkt \cup {None}
    /\ tpc \in {"idle", "loop", "pick", "empty", "coalesce", "aggregate"}
    /\ tpc \in {"coalesce", "aggregate"} => tp \in Pkt
    /\ scan \in {"off", "on", "done"}
    /\ cannotTx \in BOOLEAN
    /\ sta \in [Sta -> {"none", "linked", "freeing"}]
    /\ dz \in [Sta -> BOOLEAN] /\ tim \in [Sta -> BOOLEAN]
    /\ uapsd \in [Sta -> SUBSET Queue]
    /\ sleepq_len \in [Sta -> 0..LenMod - 1]
    /\ sleepq_ac_len \in [Sta -> 0..LenMod - 1]
    /\ rx \in Sta \cup {None} /\ stranded \subseteq Pkt

\* The frames that are not in the pool: one per packet past rtw_alloc_xmitframe
\* and the first frame of an aggregate, whose packet has been returned.
FramesOut ==
    Cardinality({p \in Pkt : pst[p] \in FrameStates})
      + (IF tpc = "aggregate" THEN 1 ELSE 0)

\* No path of rtw_xmit, of the tasklet, of rtw_free_stainfo or of the sleep
\* queues loses an xmit_frame or puts it into the pool twice.
FramesAccounted == free_xmitframe_cnt + FramesOut = NrXmitFrame

\* The tasklet holds a buffer from rtw_alloc_xmitbuf to rtw_write_port.
TaskletBuf == IF tpc \in {"idle", "loop"} THEN 0 ELSE 1

\* A transmit buffer is free, in flight, or with one thread that will free or
\* submit it: no error path of pre_xmitframe, xmitframe_complete or
\* usb_write_port leaks one or frees it twice.
BufsAccounted ==
    free_xmitbuf_cnt + urb + Cardinality(In("direct")) + TaskletBuf = NrXmitBuf

\* A stopped subqueue still has a packet inside the driver, whose return will
\* wake it, whichever of rtw_check_xmit_resource, the tasklet, the drop paths
\* and rtw_free_stainfo comes first.
StoppedHasPacket ==
    \A q \in stopped : \E p \in Pkt : PktQueue[p] = q /\ pst[p] # "stack"

\* What will run the tasklet: it runs or is scheduled, a URB will complete, a
\* survey will end.  After a removal the stations are freed with their queues.
Kick == \/ cannotTx \/ scan # "off" \/ sched \/ urb > 0
        \/ tpc \notin {"idle", "empty"}

\* The packet waits in its transmit queue together with a stranded one.
Stranded(p) == Pending(PktSta[p], PktQueue[p]) \cap stranded # {}

\* A queued frame is never forgotten: pre_xmitframe queues without scheduling
\* the tasklet, so something that will run the tasklet must be on its way. The
\* exception is a station's queue with a frame that met every buffer in the hands
\* of some thread: these may all be freed by error paths, which schedule nothing.
KickPending == \A p \in In("queue") : Kick \/ Stranded(p)

\* A frame waits in a sleep queue only while its station sleeps: no order of
\* stop_sta_xmit, wakeup_sta_to_xmit, PS-Poll and the stack's own enqueue
\* leaves a frame behind for a station that is awake or gone.
SleepqHasSleeper ==
    \A p \in In("sleep") : dz[PktSta[p]] /\ sta[PktSta[p]] # "none"

\* A station whose best-effort category is delivery-enabled may not use
\* PS-Poll; for such a station ...
NotPolled(s) == sta[s] = "linked" /\ BE \in uapsd[s]

\* ... the two lengths are exact, so that the trigger handler sends frames
\* when there are any and the end of the service period otherwise, ...
NotPolledCounted ==
    \A s \in Sta : NotPolled(s) =>
        /\ sleepq_len[s] = Cardinality(Sleeping(s))
        /\ sleepq_ac_len[s] = Cardinality(Delivery(s, Sleeping(s)))

\* ... and the beacon announces the frames that the station has to be told of.
NotPolledTold ==
    \A s \in Sta : LET d == Delivery(s, Sleeping(s)) IN
        /\ NotPolled(s)
        /\ IF has_legacy_ac(s) THEN Sleeping(s) \ d # {} ELSE d # {}
        => tim[s]

\* The handler of a PS-Poll treats an empty sleep queue with a length that is
\* not 0 as an error: the length counts the frames of the queue.
SleepqLenCounts ==
    \A s \in Sta : sleepq_len[s] = Cardinality(Sleeping(s))

Contract == INSTANCE TxContract WITH
    held <- {p \in Pkt : pst[p] # "stack"}, halted <- stopped

\* The transmit path keeps the promises of a driver to the network stack.
ImplementsContract == Contract!ContractSpec

\* Once no survey runs, the receiver stays awake and no packet of another station
\* or category is in the driver (such packets may take each buffer that is freed
\* before the tasklet does), every packet of the stack is returned, unless it
\* stays behind a stranded frame for ever.
PacketReturned ==
    \A p \in Pkt :
        /\ <>[](/\ scan = "off" /\ ~dz[PktSta[p]]
                /\ \A o \in Pkt :
                     <<PktQueue[o], PktSta[o]>> # <<PktQueue[p], PktSta[p]>>
                       => pst[o] = "stack")
        /\ []<>(~Stranded(p))
        => (pst[p] # "stack" ~> pst[p] = "stack")
=============================================================================
