----------------------------- MODULE RecvReorder -----------------------------
(***************************************************************************)
(* A-MPDU receive reordering of one (station, TID): struct                 *)
(* recv_reorder_ctrl of include/rtw_recv.h and the code of                 *)
(* core/rtw_recv.c that works on it.                                       *)
(*                                                                         *)
(* Three contexts run concurrently:                                        *)
(*   R  the receive tasklet: recv_indicatepkt_reorder, and OnAction_back   *)
(*      for a DELBA of the peer;                                           *)
(*   T  the softirq timer: rtw_reordering_ctrl_timeout_handler;            *)
(*   C  the command thread: add_ba_rsp_hdl, _send_delba_sta_tid and        *)
(*      rtw_joinbss_update_stainfo, which write the control block without  *)
(*      the lock of the pending queue.                                     *)
(* R and T serialise on pending_recvframe_queue.lock, which rpc and tpc    *)
(* show: R holds it in "locked" and "drain", T in "drain".                 *)
(*                                                                         *)
(* A frame carries n, the number its sender counted it with; the code only *)
(* sees SeqNum(f), n modulo the sequence space.                            *)
(***************************************************************************)
EXTENDS Integers, Sequences

CONSTANTS SN,            \* size of the sequence space: 4096 in the code
          WSIZE,         \* wsize_b: 64 in the code
          NR_RECVFRAME,  \* frames in the receive pool: 256 in the code
          FrameKinds,    \* the kinds of QoS frame the peer sends
          FirstSeq,      \* bound: first number the peer uses
          LastSeq,       \* bound: last number the peer uses
          MaxCtrl        \* bound: control operations (ADDBA, DELBA, join)

ASSUME SpaceAssumption == /\ SN \in Nat /\ WSIZE \in Nat /\ NR_RECVFRAME \in Nat
                          /\ WSIZE >= 2
                          /\ 4 * WSIZE <= SN
                          /\ SN % 2 = 0
ASSUME FrameAssumption == /\ FrameKinds \subseteq {"msdu", "amsdu"}
                          /\ FirstSeq \in Nat /\ LastSeq \in Nat
                          /\ MaxCtrl \in Nat

VARIABLES enable,             \* reordering is on for this TID
          indicate_seq,       \* next number to hand up, or Unset
          queue,              \* pending_recvframe_queue, head first
          bReorderWaiting,
          timer,              \* reordering_ctrl_timer is pending
          free_recvframe_cnt,
          stopped,            \* RTW_CANNOT_RUN
          rpc, rframe,        \* where R is, and the frame it works on
          tpc, cpc            \* where T and C are

(***************************************************************************)
(* History the code does not keep: frames no list holds any more (lost);   *)
(* the highest number that got as far as the window (hiRx) and whether the *)
(* frame R works on was above all the earlier ones (fresh); whether a      *)
(* session is running that started from an unset window with no receive    *)
(* step under way (session), and the numbers handed up in it, in order     *)
(* (up); control operations so far (ctrl).                                 *)
(***************************************************************************)
VARIABLES lost, hiRx, fresh, session, up, ctrl

ctlVars  == <<enable, indicate_seq, queue, bReorderWaiting, timer>>
poolVars == <<free_recvframe_cnt, lost>>
histVars == <<hiRx, fresh>>
sessVars == <<session, up>>
vars == <<ctlVars, poolVars, histVars, sessVars, stopped, rpc, rframe, tpc, cpc, ctrl>>

Unset  == 16 * SN - 1           \* 0xFFFF
SeqSpace == 0 .. SN - 1

Frame   == [n : Nat, kind : {"msdu", "amsdu", "nonqos"}]
NoFrame == [n |-> 0, kind |-> "nonqos"]

SeqNum(f) == f.n % SN

\* ((a - b) & 0x800) != 0
SN_LESS_Plain(a, b) == a < b
SN_LESS(a, b) == (a - b) % SN >= SN \div 2

-----------------------------------------------------------------------------
(* The window: check_indicate_seq and enqueue_reorder_recvframe.            *)

\* A received number below the window is dropped.
BelowWindow(ind, seq) == ind # Unset /\ SN_LESS(seq, ind)

\* The window after seq was accepted: it moves by one when seq is its start, and
\* so that seq is its last number when seq lies beyond its end. An unset window
\* starts at seq.
NextWindow(ind, seq) ==
    LET wend == (ind + WSIZE - 1) % SN
    IN  IF ind = Unset \/ seq = ind THEN (seq + 1) % SN
        ELSE IF SN_LESS(wend, seq)
             THEN IF seq >= WSIZE - 1 THEN seq + 1 - WSIZE
                  ELSE (SN - 1) - (WSIZE - (seq + 1)) + 1
        ELSE ind

\* Where the sorted insertion stops: before the first entry that is not less.
InsertPos(seq) ==
    CHOOSE p \in 1 .. Len(queue) + 1 :
        /\ \A i \in 1 .. p - 1 : SN_LESS(SeqNum(queue[i]), seq)
        /\ p <= Len(queue) => ~SN_LESS(SeqNum(queue[p]), seq)

Duplicate(seq) ==
    LET p == InsertPos(seq) IN p <= Len(queue) /\ SeqNum(queue[p]) = seq

InsertFrame_Append(f) == Append(queue, f)
InsertFrame(f) ==
    LET p == InsertPos(SeqNum(f))
    IN  SubSeq(queue, 1, p - 1) \o <<f>> \o SubSeq(queue, p, Len(queue))

-----------------------------------------------------------------------------
LockFree == rpc \notin {"locked", "drain"} /\ tpc # "drain"

\* No step is under way that read the control block and will write it again.
NoStepUnderWay == rpc \notin {"bypass", "drain"} /\ tpc # "drain"

\* R takes its frame to the window. A frame dropped before that counts as one
\* the peer lost.
ReachesWindow ==
    /\ fresh' = (rframe.n > hiRx)
    /\ hiRx' = IF rframe.n > hiRx THEN rframe.n ELSE hiRx

HandedUp(f) == up' = IF session THEN Append(up, f.n) ELSE up

Init ==
    /\ enable = FALSE /\ indicate_seq = Unset /\ queue = << >>
    /\ bReorderWaiting = FALSE /\ timer = FALSE
    /\ free_recvframe_cnt = NR_RECVFRAME /\ lost = 0
    /\ stopped = FALSE
    /\ rpc = "idle" /\ rframe = NoFrame /\ tpc = "idle" /\ cpc = "idle"
    /\ hiRx = FirstSeq - 1 /\ fresh = FALSE
    /\ session = FALSE /\ up = << >>
    /\ ctrl = 0

-----------------------------------------------------------------------------
(* R: the receive tasklet.                                                  *)

(***************************************************************************)
(* The peer (external) numbers its frames in order, has at most WSIZE of   *)
(* them outstanding, repeats them, loses them, and so presents them in any *)
(* order within a window. It never skips more than a quarter of the        *)
(* sequence space, and does not send a quarter of it during the 50 ms a    *)
(* frame may be held: the timer can move the window back to a held frame,  *)
(* so that only both together stay below the half that SN_LESS tells apart *)
(* from a number that is behind.                                           *)
(***************************************************************************)
PeerMaySend(n) ==
    /\ n > hiRx - WSIZE
    /\ n <= hiRx + SN \div 4
    /\ \A i \in 1 .. Len(queue) : n - queue[i].n < SN \div 4

\* usb_recv_tasklet takes a frame from the pool; with an empty pool the received
\* packet is dropped and nothing changes here.
RecvFrame(n, kind) ==
    /\ rpc = "idle" /\ ~stopped
    /\ free_recvframe_cnt > 0
    /\ PeerMaySend(n)
    /\ free_recvframe_cnt' = free_recvframe_cnt - 1
    /\ rframe' = [n |-> n, kind |-> kind]
    /\ rpc' = "enter"
    /\ UNCHANGED <<ctlVars, lost, histVars, sessVars, stopped, tpc, cpc, ctrl>>

\* A data frame without a QoS header has no place in the session's numbering.
RecvNonQos ==
    /\ rpc = "idle" /\ ~stopped
    /\ free_recvframe_cnt > 0
    /\ free_recvframe_cnt' = free_recvframe_cnt - 1
    /\ rframe' = NoFrame
    /\ rpc' = "enter"
    /\ UNCHANGED <<ctlVars, lost, histVars, sessVars, stopped, tpc, cpc, ctrl>>

\* process_recv_indicatepkts reports the failure, and recv_func_posthandle frees
\* the frame, only while the driver runs.
GiveBackOnFail_Never == lost' = lost + 1 /\ UNCHANGED free_recvframe_cnt
GiveBackOnFail ==
    IF stopped THEN lost' = lost + 1 /\ UNCHANGED free_recvframe_cnt
    ELSE free_recvframe_cnt' = free_recvframe_cnt + 1 /\ UNCHANGED lost

\* wlanhdr_to_ethhdr finds no room for the Ethernet header.
ReorderBadHeader ==
    /\ rpc = "enter" /\ rframe.kind # "amsdu"
    /\ GiveBackOnFail
    /\ rpc' = "idle"
    /\ UNCHANGED <<ctlVars, histVars, sessVars, stopped, rframe, tpc, cpc, ctrl>>

ReorderNonQos ==
    /\ rpc = "enter" /\ rframe.kind = "nonqos"
    /\ GiveBackOnFail     \* rtw_recv_indicatepkt gives the frame back as well
    /\ rpc' = "idle"
    /\ UNCHANGED <<ctlVars, histVars, sessVars, stopped, rframe, tpc, cpc, ctrl>>

\* Reordering is off: the frame goes up at once, without the lock ...
ReorderBypass ==
    /\ rpc = "enter" /\ rframe.kind # "nonqos"
    /\ ~enable
    /\ indicate_seq' = SeqNum(rframe)
    /\ free_recvframe_cnt' = free_recvframe_cnt + 1
    /\ ReachesWindow
    /\ rpc' = "bypass"
    /\ UNCHANGED <<enable, queue, bReorderWaiting, timer, lost, sessVars, stopped,
                   rframe, tpc, cpc, ctrl>>

\* ... and then indicate_seq is read again and advanced.
ReorderBypassEnd_NoModulo ==
    /\ rpc = "bypass"
    /\ indicate_seq' = indicate_seq + 1
    /\ rpc' = "idle"
    /\ UNCHANGED <<enable, queue, bReorderWaiting, timer, poolVars, histVars, sessVars,
                   stopped, rframe, tpc, cpc, ctrl>>

ReorderBypassEnd ==
    /\ rpc = "bypass"
    /\ indicate_seq' = (indicate_seq + 1) % SN
    /\ rpc' = "idle"
    /\ UNCHANGED <<enable, queue, bReorderWaiting, timer, poolVars, histVars, sessVars,
                   stopped, rframe, tpc, cpc, ctrl>>

ReorderLock ==
    /\ rpc = "enter" /\ rframe.kind # "nonqos"
    /\ enable
    /\ LockFree
    /\ ReachesWindow
    /\ rpc' = "locked"
    /\ UNCHANGED <<ctlVars, poolVars, sessVars, stopped, rframe, tpc, cpc, ctrl>>

\* check_indicate_seq refuses the frame (s2).
ReorderDropOld ==
    /\ rpc = "locked"
    /\ BelowWindow(indicate_seq, SeqNum(rframe))
    /\ GiveBackOnFail
    /\ rpc' = "idle"
    /\ UNCHANGED <<ctlVars, histVars, sessVars, stopped, rframe, tpc, cpc, ctrl>>

\* The window has moved, but the queue holds the number already (s3).
ReorderDropDuplicate ==
    /\ rpc = "locked"
    /\ ~BelowWindow(indicate_seq, SeqNum(rframe))
    /\ indicate_seq' = NextWindow(indicate_seq, SeqNum(rframe))
    /\ Duplicate(SeqNum(rframe))
    /\ GiveBackOnFail
    /\ rpc' = "idle"
    /\ UNCHANGED <<enable, queue, bReorderWaiting, timer, histVars, sessVars,
                   stopped, rframe, tpc, cpc, ctrl>>

ReorderEnqueue ==
    /\ rpc = "locked"
    /\ ~BelowWindow(indicate_seq, SeqNum(rframe))
    /\ indicate_seq' = NextWindow(indicate_seq, SeqNum(rframe))
    /\ ~Duplicate(SeqNum(rframe))
    /\ queue' = InsertFrame(rframe)
    /\ rpc' = "drain"
    /\ UNCHANGED <<enable, bReorderWaiting, timer, poolVars, histVars, sessVars,
                   stopped, rframe, tpc, cpc, ctrl>>

\* Mutant: only the frame the window starts with leaves the buffer.
HeadReady_Equal == queue # << >> /\ indicate_seq = SeqNum(Head(queue))

\* The test of the loop of recv_indicatepkts_in_order.
HeadReady == queue # << >> /\ ~SN_LESS(indicate_seq, SeqNum(Head(queue)))

\* Its body: the head is unlinked and handed up. A plain MSDU is neither handed
\* up nor given back to the pool when the driver has been stopped.
IndicateHead ==
    LET f == Head(queue)
    IN  /\ HeadReady
        /\ queue' = Tail(queue)
        /\ indicate_seq' = IF indicate_seq = SeqNum(f)
                           THEN (indicate_seq + 1) % SN ELSE indicate_seq
        /\ IF stopped /\ f.kind # "amsdu"
           THEN lost' = lost + 1 /\ UNCHANGED <<free_recvframe_cnt, up>>
           ELSE free_recvframe_cnt' = free_recvframe_cnt + 1 /\ HandedUp(f)
                /\ UNCHANGED lost

RecvIndicate ==
    /\ rpc = "drain"
    /\ IndicateHead
    /\ UNCHANGED <<enable, bReorderWaiting, timer, histVars, session, stopped,
                   rpc, rframe, tpc, cpc, ctrl>>

\* Frames stay in the buffer: make sure the timer runs.
RecvWait_FlagInverted ==
    /\ rpc = "drain" /\ queue # << >> /\ ~HeadReady
    /\ bReorderWaiting' = TRUE
    /\ timer' = (timer \/ bReorderWaiting)
    /\ rpc' = "idle"
    /\ UNCHANGED <<enable, indicate_seq, queue, poolVars, histVars, sessVars,
                   stopped, rframe, tpc, cpc, ctrl>>

RecvWait ==
    /\ rpc = "drain" /\ queue # << >> /\ ~HeadReady
    /\ bReorderWaiting' = TRUE
    /\ timer' = (timer \/ ~bReorderWaiting)
    /\ rpc' = "idle"
    /\ UNCHANGED <<enable, indicate_seq, queue, poolVars, histVars, sessVars,
                   stopped, rframe, tpc, cpc, ctrl>>

\* The buffer is empty: the lock is released, and the timer is cancelled after.
RecvEmpty_CancelInLock ==
    /\ rpc = "drain" /\ queue = << >>
    /\ tpc = "idle"
    /\ bReorderWaiting' = FALSE /\ timer' = FALSE
    /\ rpc' = "idle"
    /\ UNCHANGED <<enable, indicate_seq, queue, poolVars, histVars, sessVars,
                   stopped, rframe, tpc, cpc, ctrl>>

RecvEmpty ==
    /\ rpc = "drain" /\ queue = << >>
    /\ bReorderWaiting' = FALSE
    /\ rpc' = "cancel"
    /\ UNCHANGED <<enable, indicate_seq, queue, timer, poolVars, histVars, sessVars,
                   stopped, rframe, tpc, cpc, ctrl>>

\* timer_delete_sync also waits for a handler that is running.
RecvCancelTimer ==
    /\ rpc = "cancel"
    /\ tpc = "idle"
    /\ timer' = FALSE
    /\ rpc' = "idle"
    /\ UNCHANGED <<enable, indicate_seq, queue, bReorderWaiting, poolVars, histVars,
                   sessVars, stopped, rframe, tpc, cpc, ctrl>>

\* OnAction_back, a DELBA in which the peer is the originator. The frames the
\* queue holds stay there.
OnDelba ==
    /\ rpc = "idle" /\ ~stopped
    /\ ctrl < MaxCtrl /\ ctrl' = ctrl + 1
    /\ enable' = FALSE /\ session' = FALSE
    /\ UNCHANGED <<indicate_seq, queue, bReorderWaiting, timer, poolVars, histVars, up,
                   stopped, rpc, rframe, tpc, cpc>>

-----------------------------------------------------------------------------
(* T: rtw_reordering_ctrl_timeout_handler.                                  *)

TimerFires ==
    /\ timer /\ tpc = "idle"
    /\ timer' = FALSE
    /\ tpc' = "fired"
    /\ UNCHANGED <<enable, indicate_seq, queue, bReorderWaiting, poolVars, histVars,
                   sessVars, stopped, rpc, rframe, cpc, ctrl>>

TimerStopped ==
    /\ tpc = "fired" /\ stopped
    /\ tpc' = "idle"
    /\ UNCHANGED <<ctlVars, poolVars, histVars, sessVars, stopped, rpc, rframe, cpc, ctrl>>

\* Nothing to force: recv_indicatepkts_in_order answers TRUE all the same, and
\* the timer is set again.
TimerNothing ==
    /\ tpc = "fired" /\ ~stopped /\ LockFree
    /\ queue = << >>
    /\ bReorderWaiting' = FALSE
    /\ timer' = TRUE
    /\ tpc' = "idle"
    /\ UNCHANGED <<enable, indicate_seq, queue, poolVars, histVars, sessVars,
                   stopped, rpc, rframe, cpc, ctrl>>

\* Mutant: the window does not jump to the frame.
TimerForce_NoJump ==
    /\ tpc = "fired" /\ ~stopped /\ LockFree
    /\ queue # << >>
    /\ bReorderWaiting' = FALSE
    /\ tpc' = "drain"
    /\ UNCHANGED <<enable, indicate_seq, queue, timer, poolVars, histVars,
                   sessVars, stopped, rpc, rframe, cpc, ctrl>>

\* The window jumps to the first frame held.
TimerForce ==
    /\ tpc = "fired" /\ ~stopped /\ LockFree
    /\ queue # << >>
    /\ bReorderWaiting' = FALSE
    /\ indicate_seq' = SeqNum(Head(queue))
    /\ tpc' = "drain"
    /\ UNCHANGED <<enable, queue, timer, poolVars, histVars, sessVars,
                   stopped, rpc, rframe, cpc, ctrl>>

TimerIndicate ==
    /\ tpc = "drain"
    /\ IndicateHead
    /\ UNCHANGED <<enable, bReorderWaiting, timer, histVars, session, stopped,
                   rpc, rframe, tpc, cpc, ctrl>>

TimerDone ==
    /\ tpc = "drain" /\ ~HeadReady
    /\ timer' = (timer \/ queue # << >>)
    /\ tpc' = "idle"
    /\ UNCHANGED <<enable, indicate_seq, queue, bReorderWaiting, poolVars, histVars,
                   sessVars, stopped, rpc, rframe, cpc, ctrl>>

-----------------------------------------------------------------------------
(* C: the command thread. Its writes take no lock.                          *)

\* add_ba_rsp_hdl, after the response was sent: the window is unset ...
AddBaReset ==
    /\ cpc = "idle"
    /\ ctrl < MaxCtrl /\ ctrl' = ctrl + 1
    /\ indicate_seq' = Unset
    /\ session' = FALSE
    /\ cpc' = "addba"
    /\ UNCHANGED <<enable, queue, bReorderWaiting, timer, poolVars, histVars, up,
                   stopped, rpc, rframe, tpc>>

\* ... and then reordering is switched on (status 0) or off (status 37).
AddBaEnable(status) ==
    /\ cpc = "addba"
    /\ enable' = (status = 0)
    /\ session' = (status = 0 /\ indicate_seq = Unset /\ NoStepUnderWay)
    /\ up' = << >>
    /\ cpc' = "idle"
    /\ UNCHANGED <<indicate_seq, queue, bReorderWaiting, timer, poolVars, histVars,
                   stopped, rpc, rframe, tpc, ctrl>>

\* _send_delba_sta_tid and rtw_delba_check, as the recipient.
SendDelba ==
    /\ cpc = "idle" /\ enable
    /\ ctrl < MaxCtrl /\ ctrl' = ctrl + 1
    /\ enable' = FALSE /\ session' = FALSE
    /\ UNCHANGED <<indicate_seq, queue, bReorderWaiting, timer, poolVars, histVars, up,
                   stopped, rpc, rframe, tpc, cpc>>

\* rtw_joinbss_update_stainfo.
JoinReset ==
    /\ cpc = "idle"
    /\ ctrl < MaxCtrl /\ ctrl' = ctrl + 1
    /\ enable' = FALSE /\ session' = FALSE
    /\ indicate_seq' = Unset
    /\ UNCHANGED <<queue, bReorderWaiting, timer, poolVars, histVars, up,
                   stopped, rpc, rframe, tpc, cpc>>

\* The device is unplugged or the driver stopped.
Stop ==
    /\ ~stopped /\ stopped' = TRUE
    /\ UNCHANGED <<ctlVars, poolVars, histVars, sessVars, rpc, rframe, tpc, cpc, ctrl>>

-----------------------------------------------------------------------------
RStep == \/ ReorderBadHeader \/ ReorderNonQos
         \/ ReorderBypass \/ ReorderBypassEnd
         \/ ReorderLock \/ ReorderDropOld \/ ReorderDropDuplicate \/ ReorderEnqueue
         \/ RecvIndicate \/ RecvWait \/ RecvEmpty \/ RecvCancelTimer

TStep == \/ TimerFires \/ TimerStopped \/ TimerNothing \/ TimerForce
         \/ TimerIndicate \/ TimerDone

CStep == AddBaEnable(0) \/ AddBaEnable(37)

Arrival == \/ \E n \in FirstSeq .. LastSeq, k \in FrameKinds : RecvFrame(n, k)
           \/ RecvNonQos \/ OnDelba

Control == AddBaReset \/ SendDelba \/ JoinReset

Next == RStep \/ TStep \/ CStep \/ Arrival \/ Control \/ Stop

Spec == Init /\ [][Next]_vars

\* A tasklet that was entered runs to its end, a timer that is set fires and its
\* handler runs to its end, and so does a command. Strong fairness: the queued
\* spinlock of the kernel is granted in the order it was asked for.
Fairness == SF_vars(RStep) /\ SF_vars(TStep) /\ WF_vars(CStep)

FairSpec == Spec /\ Fairness

-----------------------------------------------------------------------------
(* Properties.                                                              *)

\* The window start is a sequence number or unset, and the buffer, the flags
\* and the steps of the three threads have values of their types.
TypeOK ==
    /\ enable \in BOOLEAN /\ bReorderWaiting \in BOOLEAN /\ timer \in BOOLEAN
    /\ indicate_seq \in SeqSpace \cup {Unset}
    /\ queue \in Seq(Frame)
    /\ free_recvframe_cnt \in Nat /\ lost \in Nat
    /\ stopped \in BOOLEAN /\ session \in BOOLEAN /\ fresh \in BOOLEAN
    /\ rpc \in {"idle", "enter", "bypass", "locked", "drain", "cancel"}
    /\ tpc \in {"idle", "fired", "drain"}
    /\ cpc \in {"idle", "addba"}
    /\ rframe \in Frame
    /\ hiRx \in Int /\ up \in Seq(Nat) /\ ctrl \in Nat

\* While the driver runs, a frame held in the buffer always has something that
\* will take it out: the timer is pending or its handler runs, or the tasklet is
\* still inside the lock.
HeldFrameHasTimer ==
    queue # << >> /\ ~stopped => timer \/ tpc # "idle" \/ rpc = "drain"

\* Frames of the pool that the tasklet has in hand.
InHand == IF rpc \in {"enter", "locked"} THEN 1 ELSE 0

\* Every frame of the pool is free, held, in hand or lost, and none is lost
\* before the driver is stopped.
FramesAccounted ==
    /\ free_recvframe_cnt + Len(queue) + InHand + lost = NR_RECVFRAME
    /\ lost > 0 => stopped

\* Outside the lock the buffer holds fewer frames than the window is wide, plus at
\* most one for each control operation: an unset of the window between the check
\* of a frame and the drain leaves that frame held as well.
BufferWithinWindow ==
    LockFree => Len(queue) < WSIZE + ctrl

\* Within a session frames go up in the order the peer numbered them, and no
\* number goes up twice.
InOrderWithinSession ==
    \A i, j \in 1 .. Len(up) : i < j => up[i] < up[j]

\* In a session that started from an unset window with no receive step under
\* way, a frame numbered above all the frames that came to the window before it
\* is never refused.
NewestAcceptedInSession ==
    [][rpc = "locked" /\ rpc' = "idle" /\ session => ~fresh]_vars

\* The same without the condition on how the session started.
NewestAccepted ==
    [][rpc = "locked" /\ rpc' = "idle" => ~fresh]_vars

\* A frame that was held leaves the buffer, unless the driver is stopped or
\* frames keep arriving with reordering off: that path writes indicate_seq
\* without the lock and may spoil each flush of the timer.
HeldFrameLeaves ==
    \A n \in FirstSeq .. LastSeq :
        <>[](rpc # "bypass") =>
            ((\E i \in 1 .. Len(queue) : queue[i].n = n)
                ~> (stopped \/ \A i \in 1 .. Len(queue) : queue[i].n # n))

\* The tasklet always gets to its end: cancelling the timer does not wait for a
\* handler that waits for the tasklet.
RecvReturns == (rpc # "idle") ~> (rpc = "idle")
=============================================================================
