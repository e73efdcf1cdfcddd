-------------------------- MODULE RecvReorderProofs --------------------------
(***************************************************************************)
(* Proofs about RecvReorder, for every window, pool and frame set.         *)
(***************************************************************************)
EXTENDS RecvReorder, SequenceTheorems, WellFoundedInduction, TLAPS

\* A sequence number the code reads from a frame lies in the sequence space.
LEMMA SeqNumInSpace ==
    ASSUME NEW f \in Frame
    PROVE  SeqNum(f) \in SeqSpace
  BY SpaceAssumption DEF SeqNum, Frame, SeqSpace

\* check_indicate_seq leaves a number of the sequence space in indicate_seq, also
\* when the new start of the window wraps below zero.
LEMMA NextWindowInSpace ==
    ASSUME NEW ind \in SeqSpace \cup {Unset}, NEW seq \in SeqSpace
    PROVE  NextWindow(ind, seq) \in SeqSpace \cup {Unset}
<1>1. (seq + 1) % SN \in SeqSpace
  BY SpaceAssumption DEF SeqSpace
<1>2. CASE seq >= WSIZE - 1
  BY <1>1, <1>2, SpaceAssumption DEF NextWindow, SeqSpace
<1>3. CASE seq < WSIZE - 1
  BY <1>1, <1>3, SpaceAssumption DEF NextWindow, SeqSpace
<1> QED
  BY <1>2, <1>3, SpaceAssumption DEF SeqSpace

\* enqueue_reorder_recvframe finds a place for every number: behind entries that
\* are all less, and before one that is not.
LEMMA InsertPosFound ==
    ASSUME queue \in Seq(Frame), NEW seq
    PROVE  /\ InsertPos(seq) \in 1 .. Len(queue) + 1
           /\ \A i \in 1 .. InsertPos(seq) - 1 : SN_LESS(SeqNum(queue[i]), seq)
           /\ InsertPos(seq) <= Len(queue) => ~SN_LESS(SeqNum(queue[InsertPos(seq)]), seq)
<1> DEFINE ok(p) == /\ \A i \in 1 .. p - 1 : SN_LESS(SeqNum(queue[i]), seq)
                    /\ p <= Len(queue) => ~SN_LESS(SeqNum(queue[p]), seq)
           T == {i \in 1 .. Len(queue) : ~SN_LESS(SeqNum(queue[i]), seq)}
<1>1. Len(queue) \in Nat
  OBVIOUS
<1>2. \E p \in 1 .. Len(queue) + 1 : ok(p)
  <2>1. CASE T = {}
    <3>1. ok(Len(queue) + 1)
      BY <1>1, <2>1
    <3> QED
      BY <1>1, <3>1
  <2>2. CASE T # {}
    <3>1. PICK x \in T : \A y \in T : ~ (<<y, x>> \in OpToRel(<, Nat))
      <4>1. T \subseteq Nat
        BY <1>1
      <4> QED
        BY <2>2, <4>1, WFMin, NatLessThanWellFounded
    <3>2. \A y \in T : ~(y < x)
      <4>1. SUFFICES ASSUME NEW y \in T, y < x PROVE FALSE
        OBVIOUS
      <4>2. x \in Nat /\ y \in Nat
        BY <1>1
      <4>3. <<y, x>> \in {ss \in Nat \X Nat : ss[1] < ss[2]}
        BY <4>1, <4>2
      <4> QED
        BY <3>1, <4>1, <4>3 DEF OpToRel
    <3>3. ok(x)
      BY <3>2, <1>1
    <3> QED
      BY <1>1, <3>3
  <2> QED
    BY <2>1, <2>2
<1> QED
  BY <1>2 DEF InsertPos

\* The insertion adds one frame, at the place found, and moves the ones behind it.
LEMMA InsertFrameAdds ==
    ASSUME queue \in Seq(Frame), NEW f \in Frame
    PROVE  /\ InsertFrame(f) \in Seq(Frame)
           /\ Len(InsertFrame(f)) = Len(queue) + 1
           /\ \A i \in 1 .. Len(queue) + 1 :
                 InsertFrame(f)[i] = IF i < InsertPos(SeqNum(f)) THEN queue[i]
                                     ELSE IF i = InsertPos(SeqNum(f)) THEN f
                                     ELSE queue[i - 1]
<1> DEFINE p == InsertPos(SeqNum(f))
           left == SubSeq(queue, 1, p - 1)
           right == SubSeq(queue, p, Len(queue))
<1>1. p \in 1 .. Len(queue) + 1
  BY InsertPosFound
<1>2. Len(queue) \in Nat /\ \A i \in 1 .. Len(queue) : queue[i] \in Frame
  OBVIOUS
<1> HIDE DEF p
<1>3. /\ left \in Seq(Frame) /\ Len(left) = p - 1
      /\ \A i \in 1 .. p - 1 : left[i] = queue[i]
  BY <1>1, <1>2, SubSeqProperties
<1>4. /\ right \in Seq(Frame) /\ Len(right) = Len(queue) + 1 - p
      /\ \A i \in 1 .. Len(queue) + 1 - p : right[i] = queue[p + i - 1]
  BY <1>1, <1>2, SubSeqProperties
<1> HIDE DEF left, right
<1>5. <<f>> \in Seq(Frame) /\ Len(<<f>>) = 1 /\ <<f>>[1] = f
  OBVIOUS
<1> DEFINE front == left \o <<f>>
<1>6. /\ front \in Seq(Frame) /\ Len(front) = Len(left) + 1
      /\ \A i \in 1 .. Len(left) + 1 :
            front[i] = IF i <= Len(left) THEN left[i] ELSE <<f>>[i - Len(left)]
  BY <1>3, <1>5, ConcatProperties
<1> HIDE DEF front
<1>7. /\ front \in Seq(Frame) /\ Len(front) = p
      /\ \A i \in 1 .. p : front[i] = IF i < p THEN queue[i] ELSE f
  <2>1. Len(front) = p
    BY <1>1, <1>3, <1>6
  <2>2. ASSUME NEW i \in 1 .. p - 1 PROVE front[i] = queue[i]
    <3>1. i \in 1 .. Len(left) + 1 /\ i <= Len(left)
      BY <1>1, <1>2, <1>3
    <3>2. front[i] = left[i]
      BY <3>1, <1>6
    <3> QED
      BY <3>2, <1>3
  <2>3. front[p] = f
    <3>1. p \in 1 .. Len(left) + 1 /\ ~(p <= Len(left)) /\ p - Len(left) = 1
      BY <1>1, <1>2, <1>3
    <3> QED
      BY <3>1, <1>5, <1>6
  <2> QED
    BY <2>1, <2>2, <2>3, <1>1, <1>2, <1>6
<1>8. /\ (front \o right) \in Seq(Frame) /\ Len(front \o right) = Len(front) + Len(right)
      /\ \A i \in 1 .. Len(front) + Len(right) :
            (front \o right)[i] = IF i <= Len(front) THEN front[i] ELSE right[i - Len(front)]
  BY <1>4, <1>7, ConcatProperties
<1> DEFINE all == front \o right
<1> HIDE DEF all
<1>9. /\ all \in Seq(Frame) /\ Len(all) = Len(queue) + 1
      /\ \A i \in 1 .. Len(queue) + 1 :
            all[i] = IF i <= p THEN front[i] ELSE right[i - p]
  BY <1>1, <1>2, <1>4, <1>7, <1>8 DEF all
<1>10. ASSUME NEW i \in 1 .. Len(queue) + 1
       PROVE  all[i] = IF i < p THEN queue[i] ELSE IF i = p THEN f ELSE queue[i - 1]
  <2>1. CASE i <= p
    BY <2>1, <1>1, <1>2, <1>7, <1>9
  <2>2. CASE i > p
    <3>1. i - p \in 1 .. Len(queue) + 1 - p /\ p + (i - p) - 1 = i - 1
      BY <2>2, <1>1, <1>2
    <3>2. right[i - p] = queue[i - 1]
      BY <3>1, <1>4
    <3> QED
      BY <2>2, <3>2, <1>1, <1>2, <1>9
  <2> QED
    BY <2>1, <2>2, <1>1, <1>2
<1>11. InsertFrame(f) = all
  BY DEF InsertFrame, all, front, left, right, p
<1> QED
  BY <1>9, <1>10, <1>11 DEF p

-----------------------------------------------------------------------------
(***************************************************************************)
(* The inductive invariant. HeldFrameHasTimer is not inductive: RecvWait   *)
(* does not set the timer when bReorderWaiting says it was set before, and *)
(* RecvCancelTimer switches it off. It needs that the flag tells the truth *)
(* while the driver runs, that the buffer stays empty until the timer is   *)
(* cancelled, and that the lock excludes the timer handler.                *)
(***************************************************************************)
LockExclusive == ~(rpc \in {"locked", "drain"} /\ tpc = "drain")

FlagIsTrue == bReorderWaiting /\ ~stopped => timer \/ tpc = "fired"

\* The tasklet cancels the timer only after it found the buffer empty.
CancelOnEmpty == rpc = "cancel" => queue = << >> /\ ~bReorderWaiting

IndInv == /\ TypeOK /\ LockExclusive /\ FlagIsTrue /\ CancelOnEmpty
          /\ HeldFrameHasTimer /\ FramesAccounted

\* A freshly set up control block satisfies the inductive invariant.
LEMMA InitInv == Init => IndInv
<1> SUFFICES ASSUME Init PROVE IndInv
  OBVIOUS
<1>1. queue = << >> /\ queue \in Seq(Frame) /\ Len(queue) = 0
  BY DEF Init
<1>2. TypeOK
  <2>1. rframe \in Frame
    BY DEF Init, NoFrame, Frame
  <2>2. hiRx \in Int /\ free_recvframe_cnt \in Nat /\ lost \in Nat /\ ctrl \in Nat
    BY SpaceAssumption, FrameAssumption DEF Init
  <2>3. up \in Seq(Nat)
    BY DEF Init
  <2> QED
    BY <1>1, <2>1, <2>2, <2>3 DEF Init, TypeOK
<1>3. FramesAccounted
  <2>1. InHand = 0 /\ lost = 0 /\ free_recvframe_cnt = NR_RECVFRAME
    BY DEF Init, InHand
  <2> QED
    BY <1>1, <2>1, SpaceAssumption DEF FramesAccounted
<1> QED
  BY <1>1, <1>2, <1>3
  DEF Init, IndInv, LockExclusive, FlagIsTrue, CancelOnEmpty, HeldFrameHasTimer

\* One turn of the drain loop takes one frame out of the buffer and accounts for it.
LEMMA IndicateHeadStep ==
    ASSUME TypeOK, IndicateHead, UNCHANGED <<session, stopped>>
    PROVE  /\ queue # << >>
           /\ queue' \in Seq(Frame) /\ Len(queue') = Len(queue) - 1
           /\ indicate_seq' \in SeqSpace \cup {Unset}
           /\ free_recvframe_cnt' \in Nat /\ lost' \in Nat /\ up' \in Seq(Nat)
           /\ free_recvframe_cnt' + lost' = free_recvframe_cnt + lost + 1
           /\ lost' > lost => stopped
<1>1. queue # << >> /\ queue \in Seq(Frame) /\ queue' = Tail(queue)
  BY DEF IndicateHead, HeadReady, TypeOK
<1>2. Head(queue) \in Frame /\ Tail(queue) \in Seq(Frame) /\ Len(Tail(queue)) = Len(queue) - 1
  BY <1>1, HeadTailProperties
<1>3. Head(queue).n \in Nat
  BY <1>2 DEF Frame
<1>4. indicate_seq' \in SeqSpace \cup {Unset}
  <2>1. (indicate_seq + 1) % SN \in SeqSpace
    BY SpaceAssumption DEF TypeOK, SeqSpace, Unset
  <2> QED
    BY <2>1 DEF IndicateHead, TypeOK
<1>5. /\ free_recvframe_cnt \in Nat /\ lost \in Nat /\ up \in Seq(Nat)
  BY DEF TypeOK
<1>6. CASE stopped /\ Head(queue).kind # "amsdu"
  <2>1. lost' = lost + 1 /\ free_recvframe_cnt' = free_recvframe_cnt /\ up' = up
    BY <1>6 DEF IndicateHead
  <2> QED
    BY <1>1, <1>2, <1>4, <1>5, <1>6, <2>1
<1>7. CASE ~(stopped /\ Head(queue).kind # "amsdu")
  <2>1. /\ lost' = lost /\ free_recvframe_cnt' = free_recvframe_cnt + 1
        /\ up' = IF session THEN Append(up, Head(queue).n) ELSE up
    BY <1>7 DEF IndicateHead, HandedUp
  <2>2. up' \in Seq(Nat)
    <3>1. Append(up, Head(queue).n) \in Seq(Nat)
      BY <1>3, <1>5
    <3> QED
      BY <1>5, <2>1, <3>1
  <2> QED
    BY <1>1, <1>2, <1>4, <1>5, <2>1, <2>2
<1> QED
  BY <1>6, <1>7

\* The history of the numbers that came to the window stays well typed.
LEMMA ReachesWindowTypes ==
    ASSUME rframe \in Frame, hiRx \in Int, ReachesWindow
    PROVE  hiRx' \in Int /\ fresh' \in BOOLEAN
<1>1. rframe.n \in Nat
  BY DEF Frame
<1>2. hiRx' \in Int
  BY <1>1 DEF ReachesWindow
<1>3. fresh' = TRUE \/ fresh' = FALSE
  BY DEF ReachesWindow
<1> QED
  BY <1>2, <1>3

\* Every action preserves the invariant.
LEMMA StepInv == IndInv /\ [Next]_vars => IndInv'
<1> SUFFICES ASSUME IndInv, [Next]_vars PROVE IndInv'
  OBVIOUS
<1> USE DEF IndInv, ctlVars, poolVars, histVars, sessVars
<1>ty. /\ queue \in Seq(Frame) /\ Len(queue) \in Nat
       /\ free_recvframe_cnt \in Nat /\ lost \in Nat /\ NR_RECVFRAME \in Nat
       /\ indicate_seq \in SeqSpace \cup {Unset} /\ rframe \in Frame
       /\ SeqNum(rframe) \in SeqSpace
       /\ \A x \in SeqSpace \cup {Unset} : (x + 1) % SN \in SeqSpace
  BY SpaceAssumption, SeqNumInSpace DEF TypeOK, SeqSpace, Unset
<1>sum. free_recvframe_cnt + Len(queue) + InHand + lost = NR_RECVFRAME
  BY DEF FramesAccounted
<1>1. CASE \E n \in FirstSeq .. LastSeq, k \in FrameKinds : RecvFrame(n, k)
  <2>1. TypeOK'
    BY <1>1, <1>ty, FrameAssumption DEF TypeOK, RecvFrame, Frame
  <2>2. LockExclusive' /\ FlagIsTrue' /\ CancelOnEmpty' /\ HeldFrameHasTimer'
    BY <1>1
    DEF TypeOK, LockExclusive, FlagIsTrue, CancelOnEmpty, HeldFrameHasTimer, LockFree, RecvFrame
  <2>3. FramesAccounted'
    <3>1. InHand = 0 /\ InHand' = 1
      BY <1>1 DEF InHand, RecvFrame
    <3>2. /\ free_recvframe_cnt' = free_recvframe_cnt - 1 /\ lost' = lost
          /\ queue' = queue /\ stopped' = stopped
      BY <1>1 DEF RecvFrame
    <3> QED
      BY <1>ty, <3>1, <3>2 DEF FramesAccounted
  <2> QED
    BY <2>1, <2>2, <2>3
<1>2. CASE RecvNonQos
  <2>1. TypeOK'
    BY <1>2, <1>ty DEF TypeOK, RecvNonQos, NoFrame, Frame
  <2>2. LockExclusive' /\ FlagIsTrue' /\ CancelOnEmpty' /\ HeldFrameHasTimer'
    BY <1>2
    DEF TypeOK, LockExclusive, FlagIsTrue, CancelOnEmpty, HeldFrameHasTimer, LockFree,
        RecvNonQos
  <2>3. FramesAccounted'
    <3>1. InHand = 0 /\ InHand' = 1
      BY <1>2 DEF InHand, RecvNonQos
    <3>2. /\ free_recvframe_cnt' = free_recvframe_cnt - 1 /\ lost' = lost
          /\ queue' = queue /\ stopped' = stopped
      BY <1>2 DEF RecvNonQos
    <3> QED
      BY <1>ty, <3>1, <3>2 DEF FramesAccounted
  <2> QED
    BY <2>1, <2>2, <2>3
<1>3. CASE ReorderBadHeader
  <2>1. TypeOK'
    BY <1>3, <1>ty DEF TypeOK, ReorderBadHeader, GiveBackOnFail
  <2>2. LockExclusive' /\ FlagIsTrue' /\ CancelOnEmpty' /\ HeldFrameHasTimer'
    BY <1>3
    DEF TypeOK, LockExclusive, FlagIsTrue, CancelOnEmpty, HeldFrameHasTimer, LockFree,
        ReorderBadHeader, GiveBackOnFail
  <2>3. FramesAccounted'
    <3>1. InHand = 1 /\ InHand' = 0
      BY <1>3 DEF InHand, ReorderBadHeader, GiveBackOnFail
    <3>2. /\ queue' = queue /\ stopped' = stopped
          /\ \/ stopped /\ lost' = lost + 1 /\ free_recvframe_cnt' = free_recvframe_cnt
             \/ lost' = lost /\ free_recvframe_cnt' = free_recvframe_cnt + 1
      BY <1>3 DEF ReorderBadHeader, GiveBackOnFail
    <3> QED
      BY <1>ty, <3>1, <3>2 DEF FramesAccounted
  <2> QED
    BY <2>1, <2>2, <2>3
<1>4. CASE ReorderNonQos
  <2>1. TypeOK'
    BY <1>4, <1>ty DEF TypeOK, ReorderNonQos, GiveBackOnFail
  <2>2. LockExclusive' /\ FlagIsTrue' /\ CancelOnEmpty' /\ HeldFrameHasTimer'
    BY <1>4
    DEF TypeOK, LockExclusive, FlagIsTrue, CancelOnEmpty, HeldFrameHasTimer, LockFree,
        ReorderNonQos, GiveBackOnFail
  <2>3. FramesAccounted'
    <3>1. InHand = 1 /\ InHand' = 0
      BY <1>4 DEF InHand, ReorderNonQos, GiveBackOnFail
    <3>2. /\ queue' = queue /\ stopped' = stopped
          /\ \/ stopped /\ lost' = lost + 1 /\ free_recvframe_cnt' = free_recvframe_cnt
             \/ lost' = lost /\ free_recvframe_cnt' = free_recvframe_cnt + 1
      BY <1>4 DEF ReorderNonQos, GiveBackOnFail
    <3> QED
      BY <1>ty, <3>1, <3>2 DEF FramesAccounted
  <2> QED
    BY <2>1, <2>2, <2>3
<1>5. CASE ReorderDropOld
  <2>1. TypeOK'
    BY <1>5, <1>ty DEF TypeOK, ReorderDropOld, GiveBackOnFail
  <2>2. LockExclusive' /\ FlagIsTrue' /\ CancelOnEmpty' /\ HeldFrameHasTimer'
    BY <1>5
    DEF TypeOK, LockExclusive, FlagIsTrue, CancelOnEmpty, HeldFrameHasTimer, LockFree,
        ReorderDropOld, GiveBackOnFail
  <2>3. FramesAccounted'
    <3>1. InHand = 1 /\ InHand' = 0
      BY <1>5 DEF InHand, ReorderDropOld, GiveBackOnFail
    <3>2. /\ queue' = queue /\ stopped' = stopped
          /\ \/ stopped /\ lost' = lost + 1 /\ free_recvframe_cnt' = free_recvframe_cnt
             \/ lost' = lost /\ free_recvframe_cnt' = free_recvframe_cnt + 1
      BY <1>5 DEF ReorderDropOld, GiveBackOnFail
    <3> QED
      BY <1>ty, <3>1, <3>2 DEF FramesAccounted
  <2> QED
    BY <2>1, <2>2, <2>3
<1>6. CASE ReorderDropDuplicate
  <2>1. TypeOK'
    BY <1>6, <1>ty, NextWindowInSpace DEF TypeOK, ReorderDropDuplicate, GiveBackOnFail
  <2>2. LockExclusive' /\ FlagIsTrue' /\ CancelOnEmpty' /\ HeldFrameHasTimer'
    BY <1>6
    DEF TypeOK, LockExclusive, FlagIsTrue, CancelOnEmpty, HeldFrameHasTimer, LockFree,
        ReorderDropDuplicate, GiveBackOnFail
  <2>3. FramesAccounted'
    <3>1. InHand = 1 /\ InHand' = 0
      BY <1>6 DEF InHand, ReorderDropDuplicate, GiveBackOnFail
    <3>2. /\ queue' = queue /\ stopped' = stopped
          /\ \/ stopped /\ lost' = lost + 1 /\ free_recvframe_cnt' = free_recvframe_cnt
             \/ lost' = lost /\ free_recvframe_cnt' = free_recvframe_cnt + 1
      BY <1>6 DEF ReorderDropDuplicate, GiveBackOnFail
    <3> QED
      BY <1>ty, <3>1, <3>2 DEF FramesAccounted
  <2> QED
    BY <2>1, <2>2, <2>3
<1>7. CASE ReorderBypass
  <2>0. hiRx' \in Int /\ fresh' \in BOOLEAN
    BY <1>7, <1>ty, ReachesWindowTypes DEF TypeOK, ReorderBypass
  <2>1. TypeOK'
    BY <1>7, <1>ty, <2>0 DEF TypeOK, ReorderBypass
  <2>2. LockExclusive' /\ FlagIsTrue' /\ CancelOnEmpty' /\ HeldFrameHasTimer'
    BY <1>7
    DEF TypeOK, LockExclusive, FlagIsTrue, CancelOnEmpty, HeldFrameHasTimer, LockFree,
        ReorderBypass
  <2>3. FramesAccounted'
    <3>1. InHand = 1 /\ InHand' = 0
      BY <1>7 DEF InHand, ReorderBypass
    <3>2. /\ free_recvframe_cnt' = free_recvframe_cnt + 1 /\ lost' = lost
          /\ queue' = queue /\ stopped' = stopped
      BY <1>7 DEF ReorderBypass
    <3> QED
      BY <1>ty, <3>1, <3>2 DEF FramesAccounted
  <2> QED
    BY <2>1, <2>2, <2>3
<1>8. CASE ReorderBypassEnd
  <2>1. TypeOK'
    BY <1>8, <1>ty DEF TypeOK, ReorderBypassEnd
  <2>2. LockExclusive' /\ FlagIsTrue' /\ CancelOnEmpty' /\ HeldFrameHasTimer'
    BY <1>8
    DEF TypeOK, LockExclusive, FlagIsTrue, CancelOnEmpty, HeldFrameHasTimer, LockFree,
        ReorderBypassEnd
  <2>3. FramesAccounted'
    <3>1. InHand = 0 /\ InHand' = 0
      BY <1>8 DEF InHand, ReorderBypassEnd
    <3>2. /\ free_recvframe_cnt' = free_recvframe_cnt /\ lost' = lost
          /\ queue' = queue /\ stopped' = stopped
      BY <1>8 DEF ReorderBypassEnd
    <3> QED
      BY <1>ty, <3>1, <3>2 DEF FramesAccounted
  <2> QED
    BY <2>1, <2>2, <2>3
<1>9. CASE ReorderLock
  <2>0. hiRx' \in Int /\ fresh' \in BOOLEAN
    BY <1>9, <1>ty, ReachesWindowTypes DEF TypeOK, ReorderLock
  <2>1. TypeOK'
    BY <1>9, <1>ty, <2>0 DEF TypeOK, ReorderLock
  <2>2. LockExclusive' /\ FlagIsTrue' /\ CancelOnEmpty' /\ HeldFrameHasTimer'
    BY <1>9
    DEF TypeOK, LockExclusive, FlagIsTrue, CancelOnEmpty, HeldFrameHasTimer, LockFree,
        ReorderLock
  <2>3. FramesAccounted'
    <3>1. InHand = 1 /\ InHand' = 1
      BY <1>9 DEF InHand, ReorderLock
    <3>2. /\ free_recvframe_cnt' = free_recvframe_cnt /\ lost' = lost
          /\ queue' = queue /\ stopped' = stopped
      BY <1>9 DEF ReorderLock
    <3> QED
      BY <1>ty, <3>1, <3>2 DEF FramesAccounted
  <2> QED
    BY <2>1, <2>2, <2>3
<1>10. CASE ReorderEnqueue
  <2>0. queue' \in Seq(Frame) /\ Len(queue') = Len(queue) + 1
    BY <1>10, <1>ty, InsertFrameAdds DEF ReorderEnqueue
  <2>1. TypeOK'
    BY <1>10, <1>ty, <2>0, NextWindowInSpace DEF TypeOK, ReorderEnqueue
  <2>2. LockExclusive' /\ FlagIsTrue' /\ CancelOnEmpty' /\ HeldFrameHasTimer'
    BY <1>10 DEF TypeOK, LockExclusive, FlagIsTrue, CancelOnEmpty, HeldFrameHasTimer, ReorderEnqueue
  <2>3. FramesAccounted'
    <3>1. InHand = 1 /\ InHand' = 0
      BY <1>10 DEF InHand, ReorderEnqueue
    <3>2. free_recvframe_cnt' = free_recvframe_cnt /\ lost' = lost /\ stopped' = stopped
      BY <1>10 DEF ReorderEnqueue
    <3> QED
      BY <1>ty, <2>0, <3>1, <3>2 DEF FramesAccounted
  <2> QED
    BY <2>1, <2>2, <2>3
<1>11. CASE RecvIndicate
  <2>0. /\ queue # << >>
        /\ queue' \in Seq(Frame) /\ Len(queue') = Len(queue) - 1
        /\ indicate_seq' \in SeqSpace \cup {Unset}
        /\ free_recvframe_cnt' \in Nat /\ lost' \in Nat /\ up' \in Seq(Nat)
        /\ free_recvframe_cnt' + lost' = free_recvframe_cnt + lost + 1
        /\ lost' > lost => stopped
    BY <1>11, IndicateHeadStep DEF RecvIndicate
  <2>1. TypeOK'
    BY <1>11, <1>ty, <2>0 DEF TypeOK, RecvIndicate
  <2>2. LockExclusive' /\ FlagIsTrue' /\ CancelOnEmpty' /\ HeldFrameHasTimer'
    BY <1>11, <2>0
    DEF TypeOK, LockExclusive, FlagIsTrue, CancelOnEmpty, HeldFrameHasTimer, RecvIndicate
  <2>3. FramesAccounted'
    <3>1. InHand' = InHand /\ InHand \in Nat /\ stopped' = stopped
      BY <1>11 DEF InHand, RecvIndicate
    <3>2. free_recvframe_cnt' + Len(queue') + InHand' + lost' = NR_RECVFRAME
      <4>1. InHand' = InHand /\ InHand \in Nat
        BY <3>1
      <4>2. /\ Len(queue') = Len(queue) - 1 /\ free_recvframe_cnt' \in Nat /\ lost' \in Nat
            /\ free_recvframe_cnt' + lost' = free_recvframe_cnt + lost + 1
        BY <2>0
      <4>3. Len(queue) \in Nat /\ free_recvframe_cnt \in Nat /\ lost \in Nat /\ NR_RECVFRAME \in Nat
        BY <1>ty
      <4>4. free_recvframe_cnt' + lost' + Len(queue') + InHand
               = free_recvframe_cnt + lost + 1 + (Len(queue) - 1) + InHand
        BY <4>1, <4>2, <4>3
      <4>5. free_recvframe_cnt' + lost' + Len(queue') + InHand' = NR_RECVFRAME
        BY <1>sum, <4>1, <4>3, <4>4
      <4> QED
        BY <4>1, <4>2, <4>3, <4>5
    <3>3. ASSUME lost' > 0 PROVE stopped
      <4>1. lost > 0 \/ lost' > lost
        BY <1>ty, <2>0, <3>3
      <4> QED
        BY <2>0, <4>1 DEF FramesAccounted
    <3> QED
      BY <3>1, <3>2, <3>3 DEF FramesAccounted
  <2> QED
    BY <2>1, <2>2, <2>3
<1>12. CASE TimerIndicate
  <2>0. /\ queue # << >>
        /\ queue' \in Seq(Frame) /\ Len(queue') = Len(queue) - 1
        /\ indicate_seq' \in SeqSpace \cup {Unset}
        /\ free_recvframe_cnt' \in Nat /\ lost' \in Nat /\ up' \in Seq(Nat)
        /\ free_recvframe_cnt' + lost' = free_recvframe_cnt + lost + 1
        /\ lost' > lost => stopped
    BY <1>12, IndicateHeadStep DEF TimerIndicate
  <2>1. TypeOK'
    BY <1>12, <1>ty, <2>0 DEF TypeOK, TimerIndicate
  <2>2. LockExclusive' /\ FlagIsTrue' /\ CancelOnEmpty' /\ HeldFrameHasTimer'
    BY <1>12, <2>0
    DEF TypeOK, LockExclusive, FlagIsTrue, CancelOnEmpty, HeldFrameHasTimer, TimerIndicate
  <2>3. FramesAccounted'
    <3>1. InHand' = InHand /\ InHand \in Nat /\ stopped' = stopped
      BY <1>12 DEF InHand, TimerIndicate
    <3>2. free_recvframe_cnt' + Len(queue') + InHand' + lost' = NR_RECVFRAME
      <4>1. InHand' = InHand /\ InHand \in Nat
        BY <3>1
      <4>2. /\ Len(queue') = Len(queue) - 1 /\ free_recvframe_cnt' \in Nat /\ lost' \in Nat
            /\ free_recvframe_cnt' + lost' = free_recvframe_cnt + lost + 1
        BY <2>0
      <4>3. Len(queue) \in Nat /\ free_recvframe_cnt \in Nat /\ lost \in Nat /\ NR_RECVFRAME \in Nat
        BY <1>ty
      <4>4. free_recvframe_cnt' + lost' + Len(queue') + InHand
               = free_recvframe_cnt + lost + 1 + (Len(queue) - 1) + InHand
        BY <4>1, <4>2, <4>3
      <4>5. free_recvframe_cnt' + lost' + Len(queue') + InHand' = NR_RECVFRAME
        BY <1>sum, <4>1, <4>3, <4>4
      <4> QED
        BY <4>1, <4>2, <4>3, <4>5
    <3>3. ASSUME lost' > 0 PROVE stopped
      <4>1. lost > 0 \/ lost' > lost
        BY <1>ty, <2>0, <3>3
      <4> QED
        BY <2>0, <4>1 DEF FramesAccounted
    <3> QED
      BY <3>1, <3>2, <3>3 DEF FramesAccounted
  <2> QED
    BY <2>1, <2>2, <2>3
<1>13. CASE RecvWait
  <2>1. TypeOK'
    BY <1>13, <1>ty DEF TypeOK, RecvWait
  <2>2. LockExclusive' /\ FlagIsTrue' /\ CancelOnEmpty' /\ HeldFrameHasTimer'
    BY <1>13
    DEF TypeOK, LockExclusive, FlagIsTrue, CancelOnEmpty, HeldFrameHasTimer, LockFree, RecvWait
  <2>3. FramesAccounted'
    <3>1. InHand = 0 /\ InHand' = 0
      BY <1>13 DEF InHand, RecvWait
    <3>2. /\ free_recvframe_cnt' = free_recvframe_cnt /\ lost' = lost
          /\ queue' = queue /\ stopped' = stopped
      BY <1>13 DEF RecvWait
    <3> QED
      BY <1>ty, <3>1, <3>2 DEF FramesAccounted
  <2> QED
    BY <2>1, <2>2, <2>3
<1>14. CASE RecvEmpty
  <2>1. TypeOK'
    BY <1>14, <1>ty DEF TypeOK, RecvEmpty
  <2>2. LockExclusive' /\ FlagIsTrue' /\ CancelOnEmpty' /\ HeldFrameHasTimer'
    BY <1>14
    DEF TypeOK, LockExclusive, FlagIsTrue, CancelOnEmpty, HeldFrameHasTimer, LockFree, RecvEmpty
  <2>3. FramesAccounted'
    <3>1. InHand = 0 /\ InHand' = 0
      BY <1>14 DEF InHand, RecvEmpty
    <3>2. /\ free_recvframe_cnt' = free_recvframe_cnt /\ lost' = lost
          /\ queue' = queue /\ stopped' = stopped
      BY <1>14 DEF RecvEmpty
    <3> QED
      BY <1>ty, <3>1, <3>2 DEF FramesAccounted
  <2> QED
    BY <2>1, <2>2, <2>3
<1>15. CASE RecvCancelTimer
  <2>1. TypeOK'
    BY <1>15, <1>ty DEF TypeOK, RecvCancelTimer
  <2>2. LockExclusive' /\ FlagIsTrue' /\ CancelOnEmpty' /\ HeldFrameHasTimer'
    BY <1>15
    DEF TypeOK, LockExclusive, FlagIsTrue, CancelOnEmpty, HeldFrameHasTimer, LockFree,
        RecvCancelTimer
  <2>3. FramesAccounted'
    <3>1. InHand = 0 /\ InHand' = 0
      BY <1>15 DEF InHand, RecvCancelTimer
    <3>2. /\ free_recvframe_cnt' = free_recvframe_cnt /\ lost' = lost
          /\ queue' = queue /\ stopped' = stopped
      BY <1>15 DEF RecvCancelTimer
    <3> QED
      BY <1>ty, <3>1, <3>2 DEF FramesAccounted
  <2> QED
    BY <2>1, <2>2, <2>3
<1>16. CASE OnDelba
  <2>0. ctrl' \in Nat
    BY <1>16 DEF TypeOK, OnDelba
  <2>1. TypeOK'
    BY <1>16, <1>ty, <2>0 DEF TypeOK, OnDelba
  <2>2. LockExclusive' /\ FlagIsTrue' /\ CancelOnEmpty' /\ HeldFrameHasTimer'
    BY <1>16
    DEF TypeOK, LockExclusive, FlagIsTrue, CancelOnEmpty, HeldFrameHasTimer, LockFree, OnDelba
  <2>3. FramesAccounted'
    <3>1. InHand' = InHand /\ InHand \in Nat
      BY <1>16 DEF InHand, OnDelba
    <3>2. /\ free_recvframe_cnt' = free_recvframe_cnt /\ lost' = lost
          /\ queue' = queue /\ stopped' = stopped
      BY <1>16 DEF OnDelba
    <3> QED
      BY <1>ty, <3>1, <3>2 DEF FramesAccounted
  <2> QED
    BY <2>1, <2>2, <2>3
<1>17. CASE TimerFires
  <2>1. TypeOK'
    BY <1>17, <1>ty DEF TypeOK, TimerFires
  <2>2. LockExclusive' /\ FlagIsTrue' /\ CancelOnEmpty' /\ HeldFrameHasTimer'
    BY <1>17
    DEF TypeOK, LockExclusive, FlagIsTrue, CancelOnEmpty, HeldFrameHasTimer, LockFree,
        TimerFires
  <2>3. FramesAccounted'
    <3>1. InHand' = InHand /\ InHand \in Nat
      BY <1>17 DEF InHand, TimerFires
    <3>2. /\ free_recvframe_cnt' = free_recvframe_cnt /\ lost' = lost
          /\ queue' = queue /\ stopped' = stopped
      BY <1>17 DEF TimerFires
    <3> QED
      BY <1>ty, <3>1, <3>2 DEF FramesAccounted
  <2> QED
    BY <2>1, <2>2, <2>3
<1>18. CASE TimerStopped
  <2>1. TypeOK'
    BY <1>18, <1>ty DEF TypeOK, TimerStopped
  <2>2. LockExclusive' /\ FlagIsTrue' /\ CancelOnEmpty' /\ HeldFrameHasTimer'
    BY <1>18
    DEF TypeOK, LockExclusive, FlagIsTrue, CancelOnEmpty, HeldFrameHasTimer, LockFree,
        TimerStopped
  <2>3. FramesAccounted'
    <3>1. InHand' = InHand /\ InHand \in Nat
      BY <1>18 DEF InHand, TimerStopped
    <3>2. /\ free_recvframe_cnt' = free_recvframe_cnt /\ lost' = lost
          /\ queue' = queue /\ stopped' = stopped
      BY <1>18 DEF TimerStopped
    <3> QED
      BY <1>ty, <3>1, <3>2 DEF FramesAccounted
  <2> QED
    BY <2>1, <2>2, <2>3
<1>19. CASE TimerNothing
  <2>1. TypeOK'
    BY <1>19, <1>ty DEF TypeOK, TimerNothing
  <2>2. LockExclusive' /\ FlagIsTrue' /\ CancelOnEmpty' /\ HeldFrameHasTimer'
    BY <1>19
    DEF TypeOK, LockExclusive, FlagIsTrue, CancelOnEmpty, HeldFrameHasTimer, LockFree,
        TimerNothing
  <2>3. FramesAccounted'
    <3>1. InHand' = InHand /\ InHand \in Nat
      BY <1>19 DEF InHand, TimerNothing
    <3>2. /\ free_recvframe_cnt' = free_recvframe_cnt /\ lost' = lost
          /\ queue' = queue /\ stopped' = stopped
      BY <1>19 DEF TimerNothing
    <3> QED
      BY <1>ty, <3>1, <3>2 DEF FramesAccounted
  <2> QED
    BY <2>1, <2>2, <2>3
<1>20. CASE TimerForce
  <2>0. indicate_seq' \in SeqSpace
    BY <1>20, <1>ty, HeadTailProperties, SeqNumInSpace DEF TimerForce
  <2>1. TypeOK'
    BY <1>20, <1>ty, <2>0 DEF TypeOK, TimerForce
  <2>2. LockExclusive' /\ FlagIsTrue' /\ CancelOnEmpty' /\ HeldFrameHasTimer'
    BY <1>20
    DEF TypeOK, LockExclusive, FlagIsTrue, CancelOnEmpty, HeldFrameHasTimer, LockFree,
        TimerForce
  <2>3. FramesAccounted'
    <3>1. InHand' = InHand /\ InHand \in Nat
      BY <1>20 DEF InHand, TimerForce
    <3>2. /\ free_recvframe_cnt' = free_recvframe_cnt /\ lost' = lost
          /\ queue' = queue /\ stopped' = stopped
      BY <1>20 DEF TimerForce
    <3> QED
      BY <1>ty, <3>1, <3>2 DEF FramesAccounted
  <2> QED
    BY <2>1, <2>2, <2>3
<1>21. CASE TimerDone
  <2>1. TypeOK'
    BY <1>21, <1>ty DEF TypeOK, TimerDone
  <2>2. LockExclusive' /\ FlagIsTrue' /\ CancelOnEmpty' /\ HeldFrameHasTimer'
    BY <1>21
    DEF TypeOK, LockExclusive, FlagIsTrue, CancelOnEmpty, HeldFrameHasTimer, LockFree, TimerDone
  <2>3. FramesAccounted'
    <3>1. InHand' = InHand /\ InHand \in Nat
      BY <1>21 DEF InHand, TimerDone
    <3>2. /\ free_recvframe_cnt' = free_recvframe_cnt /\ lost' = lost
          /\ queue' = queue /\ stopped' = stopped
      BY <1>21 DEF TimerDone
    <3> QED
      BY <1>ty, <3>1, <3>2 DEF FramesAccounted
  <2> QED
    BY <2>1, <2>2, <2>3
<1>22. CASE AddBaReset
  <2>0. ctrl' \in Nat
    BY <1>22 DEF TypeOK, AddBaReset
  <2>1. TypeOK'
    BY <1>22, <1>ty, <2>0 DEF TypeOK, AddBaReset
  <2>2. LockExclusive' /\ FlagIsTrue' /\ CancelOnEmpty' /\ HeldFrameHasTimer'
    BY <1>22
    DEF TypeOK, LockExclusive, FlagIsTrue, CancelOnEmpty, HeldFrameHasTimer, LockFree,
        AddBaReset
  <2>3. FramesAccounted'
    <3>1. InHand' = InHand /\ InHand \in Nat
      BY <1>22 DEF InHand, AddBaReset
    <3>2. /\ free_recvframe_cnt' = free_recvframe_cnt /\ lost' = lost
          /\ queue' = queue /\ stopped' = stopped
      BY <1>22 DEF AddBaReset
    <3> QED
      BY <1>ty, <3>1, <3>2 DEF FramesAccounted
  <2> QED
    BY <2>1, <2>2, <2>3
<1>23. CASE AddBaEnable(0) \/ AddBaEnable(37)
  <2>0. /\ enable' \in BOOLEAN /\ session' \in BOOLEAN
        /\ up' = << >> /\ up' \in Seq(Nat)
    <3>1. ASSUME NEW st, AddBaEnable(st)
          PROVE  enable' \in BOOLEAN /\ session' \in BOOLEAN /\ up' = << >>
      BY <3>1, Zenon DEF AddBaEnable
    <3>2. /\ enable' \in BOOLEAN /\ session' \in BOOLEAN /\ up' = << >>
      BY <1>23, <3>1
    <3> QED
      BY <3>2
  <2>1. TypeOK'
    BY <1>23, <1>ty, <2>0 DEF TypeOK, AddBaEnable
  <2>2. LockExclusive' /\ FlagIsTrue' /\ CancelOnEmpty' /\ HeldFrameHasTimer'
    BY <1>23
    DEF TypeOK, LockExclusive, FlagIsTrue, CancelOnEmpty, HeldFrameHasTimer, LockFree,
        AddBaEnable
  <2>3. FramesAccounted'
    <3>1. InHand' = InHand /\ InHand \in Nat
      BY <1>23 DEF InHand, AddBaEnable
    <3>2. /\ free_recvframe_cnt' = free_recvframe_cnt /\ lost' = lost
          /\ queue' = queue /\ stopped' = stopped
      BY <1>23 DEF AddBaEnable
    <3> QED
      BY <1>ty, <3>1, <3>2 DEF FramesAccounted
  <2> QED
    BY <2>1, <2>2, <2>3
<1>24. CASE SendDelba
  <2>0. ctrl' \in Nat
    BY <1>24 DEF TypeOK, SendDelba
  <2>1. TypeOK'
    BY <1>24, <1>ty, <2>0 DEF TypeOK, SendDelba
  <2>2. LockExclusive' /\ FlagIsTrue' /\ CancelOnEmpty' /\ HeldFrameHasTimer'
    BY <1>24
    DEF TypeOK, LockExclusive, FlagIsTrue, CancelOnEmpty, HeldFrameHasTimer, LockFree, SendDelba
  <2>3. FramesAccounted'
    <3>1. InHand' = InHand /\ InHand \in Nat
      BY <1>24 DEF InHand, SendDelba
    <3>2. /\ free_recvframe_cnt' = free_recvframe_cnt /\ lost' = lost
          /\ queue' = queue /\ stopped' = stopped
      BY <1>24 DEF SendDelba
    <3> QED
      BY <1>ty, <3>1, <3>2 DEF FramesAccounted
  <2> QED
    BY <2>1, <2>2, <2>3
<1>25. CASE JoinReset
  <2>0. ctrl' \in Nat
    BY <1>25 DEF TypeOK, JoinReset
  <2>1. TypeOK'
    BY <1>25, <1>ty, <2>0 DEF TypeOK, JoinReset
  <2>2. LockExclusive' /\ FlagIsTrue' /\ CancelOnEmpty' /\ HeldFrameHasTimer'
    BY <1>25
    DEF TypeOK, LockExclusive, FlagIsTrue, CancelOnEmpty, HeldFrameHasTimer, LockFree, JoinReset
  <2>3. FramesAccounted'
    <3>1. InHand' = InHand /\ InHand \in Nat
      BY <1>25 DEF InHand, JoinReset
    <3>2. /\ free_recvframe_cnt' = free_recvframe_cnt /\ lost' = lost
          /\ queue' = queue /\ stopped' = stopped
      BY <1>25 DEF JoinReset
    <3> QED
      BY <1>ty, <3>1, <3>2 DEF FramesAccounted
  <2> QED
    BY <2>1, <2>2, <2>3
<1>26. CASE Stop
  <2>1. TypeOK'
    BY <1>26, <1>ty DEF TypeOK, Stop
  <2>2. LockExclusive' /\ FlagIsTrue' /\ CancelOnEmpty' /\ HeldFrameHasTimer'
    BY <1>26 DEF TypeOK, LockExclusive, FlagIsTrue, CancelOnEmpty, HeldFrameHasTimer, Stop
  <2>3. FramesAccounted'
    BY <1>26 DEF FramesAccounted, InHand, Stop
  <2> QED
    BY <2>1, <2>2, <2>3
<1>27. CASE UNCHANGED vars
  BY <1>27
  DEF vars, TypeOK, LockExclusive, FlagIsTrue, CancelOnEmpty, HeldFrameHasTimer, FramesAccounted,
      InHand
<1> QED
  BY <1>1, <1>2, <1>3, <1>4, <1>5, <1>6, <1>7, <1>8, <1>9, <1>10, <1>11,
     <1>12, <1>13, <1>14, <1>15, <1>16, <1>17, <1>18, <1>19, <1>20, <1>21,
     <1>22, <1>23, <1>24, <1>25, <1>26, <1>27
  DEF Next, RStep, TStep, CStep, Arrival, Control

\* Type correctness of the reordering state, for every window and pool size.
THEOREM TypeCorrect == Spec => []TypeOK
<1>1. IndInv => TypeOK
  BY DEF IndInv
<1> QED
  BY <1>1, InitInv, StepInv, PTL DEF Spec

\* While the driver runs, a frame held by recv_indicatepkt_reorder always has the
\* timer, its handler or the tasklet that will take it out.
THEOREM HeldFramesAreCovered == Spec => []HeldFrameHasTimer
<1>1. IndInv => HeldFrameHasTimer
  BY DEF IndInv
<1> QED
  BY <1>1, InitInv, StepInv, PTL DEF Spec

\* No frame of the receive pool is lost or counted twice while the driver runs.
THEOREM PoolIsConserved == Spec => []FramesAccounted
<1>1. IndInv => FramesAccounted
  BY DEF IndInv
<1> QED
  BY <1>1, InitInv, StepInv, PTL DEF Spec
=============================================================================
