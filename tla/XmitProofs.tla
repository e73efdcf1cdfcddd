----------------------------- MODULE XmitProofs -----------------------------
(***************************************************************************)
(* TLAPS proofs about Xmit, for every set of packets, subqueues and        *)
(* stations and every size of the two pools: the pools are conserved, the  *)
(* contract with the network stack is kept, sleep queues belong to         *)
(* stations that sleep and their counters are exact, and queued frames are *)
(* not forgotten.                                                          *)
(***************************************************************************)
EXTENDS Xmit, FiniteSetTheorems, TLAPS

USE XmitAssumption

\* TypeOK without the upper bounds of the counters, which do not follow from the
\* types alone: they need the conservation of the pools.
TypeNat ==
    /\ pst \in [Pkt -> PktStates] /\ psta \in [Pkt -> BOOLEAN]
    /\ stopped \subseteq Queue
    /\ free_xmitframe_cnt \in Nat /\ free_xmitbuf_cnt \in Nat /\ urb \in Nat
    /\ sched \in BOOLEAN /\ tp \in Pkt \cup {None}
    /\ tpc \in {"idle", "loop", "pick", "empty", "coalesce", "aggregate"}
    /\ scan \in {"off", "on", "done"} /\ cannotTx \in BOOLEAN
    /\ sta \in [Sta -> {"none", "linked", "freeing"}]
    /\ dz \in [Sta -> BOOLEAN] /\ tim \in [Sta -> BOOLEAN]
    /\ uapsd \in [Sta -> SUBSET Queue]
    /\ sleepq_len \in [Sta -> 0..LenMod - 1]
    /\ sleepq_ac_len \in [Sta -> 0..LenMod - 1]
    /\ rx \in Sta \cup {None} /\ stranded \subseteq Pkt
    /\ tpc \in {"coalesce", "aggregate"} => tp \in Pkt

\* The lengths wrap into their range.
LEMMA PlusType == \A n, k \in Nat : Plus(n, k) \in 0..LenMod - 1
BY DEF Plus

\* A length of the code's width stays in its range.
LEMMA MinusType == \A n, k \in Nat : Minus(n, k) \in 0..LenMod - 1
BY DEF Minus

\* Sets of packets are finite.
LEMMA PktSets ==
    ASSUME NEW P \in SUBSET Pkt
    PROVE  IsFiniteSet(P) /\ Cardinality(P) \in Nat
BY FS_Subset, FS_CardinalityType

\* A length below the modulus is not changed by it.
LEMMA ModSmall == \A n \in 0..LenMod - 1 : n % LenMod = n
OBVIOUS

\* What the helpers of the actions return.
LEMMA MoveType ==
    ASSUME TypeNat, NEW P, NEW st \in PktStates
    PROVE  Move(P, st) \in [Pkt -> PktStates]
BY DEF Move, TypeNat

\* A packet returned to the network stack leaves well-typed states.
LEMMA ToStackType ==
    ASSUME TypeNat, NEW R, ToStack(R)
    PROVE  pst' \in [Pkt -> PktStates] /\ psta' \in [Pkt -> BOOLEAN]
<1>1. pst' \in [Pkt -> PktStates]
  BY MoveType DEF ToStack, PktStates
<1>2. psta' \in [Pkt -> BOOLEAN]
  BY DEF ToStack
<1> QED BY <1>1, <1>2

\* Waking subqueues leaves a set of subqueues.
LEMMA WakeType ==
    ASSUME TypeNat, NEW q, NEW n
    PROVE  Wake(q, n) \subseteq stopped /\ Wake(q, n) \subseteq Queue
BY DEF Wake, TypeNat

\* Boolean values, for the provers.
LEMMA BoolExcept ==
    ASSUME NEW f \in [Sta -> BOOLEAN], NEW s, NEW b \in BOOLEAN
    PROVE  [f EXCEPT ![s] = b] \in [Sta -> BOOLEAN]
OBVIOUS

\* A disjunction is Boolean.
LEMMA OrType == \A a, b : (a \/ b) \in BOOLEAN
BY Zenon

\* A conjunction is Boolean.
LEMMA AndType == \A a, b : (a /\ b) \in BOOLEAN
BY Zenon

\* What Buffer and Release leave in the lengths and the TIM bit.
LEMMA BufferType ==
    ASSUME TypeNat, NEW s \in Sta, NEW P \in SUBSET Pkt, Buffer(s, P)
    PROVE  /\ sleepq_len' \in [Sta -> 0..LenMod - 1]
           /\ sleepq_ac_len' \in [Sta -> 0..LenMod - 1]
           /\ tim' \in [Sta -> BOOLEAN]
<1>1. Delivery(s, P) \in SUBSET Pkt
  BY DEF Delivery
<1>2. /\ Plus(sleepq_len[s], Cardinality(P)) \in 0..LenMod - 1
      /\ Plus(sleepq_ac_len[s], Cardinality(Delivery(s, P))) \in 0..LenMod - 1
  <2>1. Cardinality(P) \in Nat /\ Cardinality(Delivery(s, P)) \in Nat
    BY <1>1, PktSets
  <2>2. sleepq_len[s] \in Nat /\ sleepq_ac_len[s] \in Nat
    BY DEF TypeNat
  <2> QED BY <2>1, <2>2, PlusType
<1>3. sleepq_len' \in [Sta -> 0..LenMod - 1] /\ sleepq_ac_len' \in [Sta -> 0..LenMod - 1]
  BY <1>2 DEF Buffer, TypeNat
<1>4. tim' \in [Sta -> BOOLEAN]
  BY OrType, BoolExcept, Zenon DEF Buffer, TypeNat
<1> QED BY <1>3, <1>4

\* Releasing held packets leaves well-typed lengths.
LEMMA ReleaseType ==
    ASSUME TypeNat, NEW s \in Sta, NEW P \in SUBSET Pkt, NEW d \in SUBSET Pkt,
           Release(s, P, d)
    PROVE  /\ pst' \in [Pkt -> PktStates]
           /\ sleepq_len' \in [Sta -> 0..LenMod - 1]
           /\ sleepq_ac_len' \in [Sta -> 0..LenMod - 1]
           /\ sched' \in BOOLEAN
<1>1. /\ Minus(sleepq_len[s], Cardinality(P)) \in 0..LenMod - 1
      /\ Minus(sleepq_ac_len[s], Cardinality(d)) \in 0..LenMod - 1
  <2>1. Cardinality(P) \in Nat /\ Cardinality(d) \in Nat
    BY PktSets
  <2>2. sleepq_len[s] \in Nat /\ sleepq_ac_len[s] \in Nat
    BY DEF TypeNat
  <2> QED BY <2>1, <2>2, MinusType
<1>2. sleepq_len' \in [Sta -> 0..LenMod - 1] /\ sleepq_ac_len' \in [Sta -> 0..LenMod - 1]
  BY <1>1 DEF Release, TypeNat
<1>3. pst' \in [Pkt -> PktStates]
  BY MoveType DEF Release, PktStates, FrameStates
<1>4. sched' \in BOOLEAN
  BY OrType, Zenon DEF Release
<1> QED BY <1>2, <1>3, <1>4

\* Every action keeps the types.
LEMMA TypeNatStep == TypeNat /\ [Next]_vars => TypeNat'
<1> SUFFICES ASSUME TypeNat, [Next]_vars PROVE TypeNat'
  OBVIOUS
<1> USE DEF vars, txVars, bufVars, taskVars, devVars, staVars, slpVars
<1>1. ASSUME NEW p \in Pkt, XmitEntry(p) PROVE TypeNat'
  BY <1>1, MoveType DEF XmitEntry, TypeNat, PktStates, ThreadStates, FrameStates
<1>2. ASSUME NEW p \in Pkt, StopSubqueue(p) PROVE TypeNat'
  BY <1>2, MoveType DEF StopSubqueue, TypeNat, PktStates, ThreadStates, FrameStates
<1>3. ASSUME NEW p \in Pkt, RtwXmitFail(p) PROVE TypeNat'
  BY <1>3, ToStackType, WakeType DEF RtwXmitFail, TypeNat
<1>4. ASSUME NEW p \in Pkt, RtwXmit(p) PROVE TypeNat'
  BY <1>4, MoveType DEF RtwXmit, GetsFrame, TypeNat, PktStates, ThreadStates, FrameStates
<1>5. ASSUME NEW p \in Pkt, EnqueueForSleepingSta(p) PROVE TypeNat'
  BY <1>5, MoveType, BufferType
  DEF EnqueueForSleepingSta, GetsFrame, TypeNat, PktStates, ThreadStates, FrameStates
<1>6. ASSUME NEW p \in Pkt, PreXmitQueue(p) PROVE TypeNat'
  BY <1>6, MoveType DEF PreXmitQueue, TypeNat, PktStates, ThreadStates, FrameStates
<1>7. ASSUME NEW p \in Pkt, PreXmitRefused(p) PROVE TypeNat'
  BY <1>7, ToStackType, WakeType DEF PreXmitRefused, FreeXmitframe, TypeNat
<1>8. ASSUME NEW p \in Pkt, PreXmitDirect(p) PROVE TypeNat'
  BY <1>8, MoveType DEF PreXmitDirect, MustQueue, TypeNat, PktStates, ThreadStates, FrameStates
<1>9. ASSUME NEW p \in Pkt, NEW sent \in BOOLEAN, XmitDirect(p, sent) PROVE TypeNat'
  BY <1>9, ToStackType, WakeType DEF XmitDirect, FreeXmitframe, WritePort, TypeNat
<1>10. ASSUME NEW p \in Pkt, PsPoll(p) PROVE TypeNat'
  <2>1. PktSta[p] \in Sta /\ {p} \in SUBSET Pkt /\ {} \in SUBSET Pkt
    BY DEF Sleeping, Delivery, In
  <2>2. Release(PktSta[p], {p}, {})
    BY <1>10 DEF PsPoll
  <2>3. tim' \in [Sta -> BOOLEAN]
    BY <1>10, <2>1, AndType, BoolExcept, Zenon DEF PsPoll, TypeNat
  <2> QED BY <1>10, <2>1, <2>2, <2>3, ReleaseType DEF PsPoll, TypeNat
<1>11. ASSUME TaskletCoalesce PROVE TypeNat'
  BY <1>11, ToStackType, WakeType DEF TaskletCoalesce, TypeNat
<1>12. ASSUME NEW p \in Pkt, TaskletDequeue(p) PROVE TypeNat'
  BY <1>12, MoveType DEF TaskletDequeue, TypeNat, PktStates, ThreadStates, FrameStates
<1>13. ASSUME NEW A \in SUBSET Pkt, NEW sent \in BOOLEAN, TaskletAggregate(A, sent) PROVE TypeNat'
  BY <1>13, ToStackType, WakeType, PktSets DEF TaskletAggregate, WritePort, TypeNat
<1>14. ASSUME NEW gone \in BOOLEAN, WritePortComplete(gone) PROVE TypeNat'
  BY <1>14 DEF WritePortComplete, TypeNat
<1>15. ASSUME ScanDone PROVE TypeNat'
  BY <1>15, OrType DEF ScanDone, TypeNat
<1>16. ASSUME NEW s \in Sta, NEW u \in UapsdChoices, Associate(s, u) PROVE TypeNat'
  BY <1>16 DEF Associate, TypeNat
<1>17. ASSUME NEW s \in Sta, FreeStaUnlink(s) PROVE TypeNat'
  BY <1>17 DEF FreeStaUnlink, TypeNat
<1>18. ASSUME NEW s \in Sta, FreeStaFlush(s) PROVE TypeNat'
  BY <1>18, MoveType, PktSets DEF FreeStaFlush, In, TypeNat, PktStates, ThreadStates, FrameStates
<1>19. ASSUME NEW s \in Sta, StopStaXmit(s) PROVE TypeNat'
  BY <1>19, MoveType, BufferType DEF StopStaXmit, In, TypeNat, PktStates, ThreadStates, FrameStates
<1>20. ASSUME NEW s \in Sta, WakeupStaToXmit(s) PROVE TypeNat'
  <2>1. s \in Sta /\ Sleeping(s) \in SUBSET Pkt /\ Delivery(s, Sleeping(s)) \in SUBSET Pkt
    BY DEF Sleeping, Delivery, In
  <2>2. Release(s, Sleeping(s), Delivery(s, Sleeping(s)))
    BY <1>20 DEF WakeupStaToXmit
  <2>3. tim' \in [Sta -> BOOLEAN] /\ dz' \in [Sta -> BOOLEAN]
    BY <1>20, <2>1, AndType, BoolExcept, Zenon DEF WakeupStaToXmit, TypeNat
  <2> QED BY <1>20, <2>1, <2>2, <2>3, ReleaseType DEF WakeupStaToXmit, TypeNat
<1>21. ASSUME NEW s \in Sta, DeliverTriggered(s) PROVE TypeNat'
  <2>1. s \in Sta /\ Delivery(s, Sleeping(s)) \in SUBSET Pkt
    BY DEF Sleeping, Delivery, In
  <2>2. Release(s, Delivery(s, Sleeping(s)), Delivery(s, Sleeping(s)))
    BY <1>21 DEF DeliverTriggered
  <2>3. tim' \in [Sta -> BOOLEAN]
    BY <1>21, <2>1, AndType, BoolExcept, Zenon DEF DeliverTriggered, TypeNat
  <2> QED BY <1>21, <2>1, <2>2, <2>3, ReleaseType DEF DeliverTriggered, TypeNat
<1>22. ASSUME NEW s \in Sta, PsPollEmpty(s) PROVE TypeNat'
  BY <1>22 DEF PsPollEmpty, Receives, TypeNat
<1>23. ASSUME PsPollClearTim PROVE TypeNat'
  BY <1>23 DEF PsPollClearTim, TypeNat
<1>24. CASE TaskletStart \/ TaskletEnd \/ TaskletNoFrame
  BY <1>24 DEF TaskletStart, TaskletEnd, TaskletNoFrame, In, TypeNat
<1>25. CASE TaskletAllocBuf \/ TaskletFreeBuf
  BY <1>25 DEF TaskletAllocBuf, TaskletFreeBuf, TypeNat
<1>26. CASE ScanStart \/ ScanEnd \/ SurpriseRemoved
  BY <1>26 DEF ScanStart, ScanEnd, SurpriseRemoved, TypeNat
<1>27. CASE UNCHANGED vars
  BY <1>27 DEF TypeNat
<1> QED
  BY <1>1, <1>2, <1>3, <1>4, <1>5, <1>6, <1>7, <1>8, <1>9, <1>10, <1>11, <1>12,
     <1>13, <1>14, <1>15, <1>16, <1>17, <1>18, <1>19, <1>20, <1>21, <1>22, <1>23,
     <1>24, <1>25, <1>26, <1>27 DEF Next, XmitThread, Tasklet

-----------------------------------------------------------------------------
(***************************************************************************)
(* The steps that move no packet.                                          *)
(***************************************************************************)
QuietTasklet == \/ TaskletStart \/ TaskletEnd \/ TaskletAllocBuf
                \/ TaskletNoFrame \/ TaskletFreeBuf

QuietDevice == \/ \E gone \in BOOLEAN : WritePortComplete(gone)
               \/ ScanStart \/ ScanEnd \/ ScanDone \/ SurpriseRemoved

QuietSta == \/ \E s \in Sta : \/ \E u \in UapsdChoices : Associate(s, u)
                             \/ FreeStaUnlink(s) \/ PsPollEmpty(s)
            \/ PsPollClearTim

Quiet == QuietTasklet \/ QuietDevice \/ QuietSta \/ UNCHANGED vars

\* They leave the packets, the pool of frames and the subqueues alone, and the
\* tasklet is neither before nor after them at a frame.
LEMMA QuietKeeps ==
    ASSUME Quiet
    PROVE  /\ UNCHANGED <<pst, psta, stopped, free_xmitframe_cnt, tp>>
           /\ \/ tpc' = tpc
              \/ /\ tpc \notin {"coalesce", "aggregate"}
                 /\ tpc' \notin {"coalesce", "aggregate"}
<1>1. CASE QuietTasklet
  BY <1>1 DEF QuietTasklet, TaskletStart, TaskletEnd, TaskletAllocBuf,
     TaskletNoFrame, TaskletFreeBuf, txVars
<1>2. CASE QuietDevice
  BY <1>2 DEF QuietDevice, WritePortComplete, ScanStart, ScanEnd, ScanDone,
     SurpriseRemoved, txVars, taskVars
<1>3. CASE QuietSta
  BY <1>3 DEF QuietSta, Associate, FreeStaUnlink, PsPollEmpty, PsPollClearTim,
     txVars, taskVars
<1>4. CASE UNCHANGED vars
  BY <1>4 DEF vars, txVars, taskVars
<1> QED BY <1>1, <1>2, <1>3, <1>4 DEF Quiet

\* The cases of a step, as the proofs below split them.
LEMMA NextCases ==
    ASSUME [Next]_vars
    PROVE  \/ \E p \in Pkt :
                \/ XmitEntry(p) \/ StopSubqueue(p) \/ RtwXmitFail(p)
                \/ RtwXmit(p) \/ EnqueueForSleepingSta(p)
                \/ PreXmitQueue(p) \/ PreXmitRefused(p) \/ PreXmitDirect(p)
                \/ \E sent \in BOOLEAN : XmitDirect(p, sent)
                \/ PsPoll(p) \/ TaskletDequeue(p)
           \/ TaskletCoalesce
           \/ \E A \in SUBSET Pkt, sent \in BOOLEAN : TaskletAggregate(A, sent)
           \/ \E s \in Sta : \/ FreeStaFlush(s) \/ StopStaXmit(s)
                            \/ WakeupStaToXmit(s) \/ DeliverTriggered(s)
           \/ Quiet
BY Zenon DEF Next, XmitThread, Tasklet, Quiet, QuietTasklet, QuietDevice, QuietSta

-----------------------------------------------------------------------------
\* The packet of the tasklet's first frame is the only one in that state.
FirstInv == \A p \in Pkt : pst[p] = "first" <=> tpc = "coalesce" /\ p = tp

\* Only TaskletDequeue makes a packet the first one, only TaskletCoalesce ends it.
LEMMA FirstStep == TypeNat /\ FirstInv /\ [Next]_vars => FirstInv'
<1> SUFFICES ASSUME TypeNat, FirstInv, [Next]_vars PROVE FirstInv'
  OBVIOUS
<1> USE DEF TypeNat, FirstInv, Move
<1>1. ASSUME NEW p \in Pkt,
             \/ XmitEntry(p) \/ StopSubqueue(p) \/ RtwXmitFail(p)
             \/ PreXmitQueue(p) \/ PreXmitRefused(p) \/ PreXmitDirect(p)
      PROVE  FirstInv'
  BY <1>1 DEF XmitEntry, StopSubqueue, RtwXmitFail, PreXmitQueue, PreXmitRefused,
     PreXmitDirect, FreeXmitframe, ToStack, taskVars
<1>2. ASSUME NEW p \in Pkt, RtwXmit(p) \/ EnqueueForSleepingSta(p) PROVE FirstInv'
  BY <1>2 DEF RtwXmit, EnqueueForSleepingSta, GetsFrame, taskVars
<1>3. ASSUME NEW p \in Pkt, NEW sent \in BOOLEAN, XmitDirect(p, sent) PROVE FirstInv'
  BY <1>3 DEF XmitDirect, FreeXmitframe, ToStack, taskVars
<1>4. ASSUME NEW p \in Pkt, PsPoll(p) PROVE FirstInv'
  BY <1>4 DEF PsPoll, Release
<1>5. ASSUME NEW p \in Pkt, TaskletDequeue(p) PROVE FirstInv'
  BY <1>5 DEF TaskletDequeue
<1>6. CASE TaskletCoalesce
  BY <1>6 DEF TaskletCoalesce, ToStack
<1>7. ASSUME NEW A \in SUBSET Pkt, NEW sent \in BOOLEAN, TaskletAggregate(A, sent)
      PROVE  FirstInv'
  BY <1>7 DEF TaskletAggregate, ToStack
<1>8. ASSUME NEW s \in Sta, FreeStaFlush(s) \/ StopStaXmit(s) PROVE FirstInv'
  BY <1>8 DEF FreeStaFlush, StopStaXmit, In, taskVars
<1>9. ASSUME NEW s \in Sta, WakeupStaToXmit(s) \/ DeliverTriggered(s) PROVE FirstInv'
  BY <1>9 DEF WakeupStaToXmit, DeliverTriggered, Release, Sleeping, Delivery, In
<1>10. CASE Quiet
  BY <1>10, QuietKeeps
<1> QED
  BY <1>1, <1>2, <1>3, <1>4, <1>5, <1>6, <1>7, <1>8, <1>9, <1>10, NextCases

-----------------------------------------------------------------------------
(***************************************************************************)
(* The pools of frames and buffers.                                        *)
(***************************************************************************)
\* The packets that carry a frame.
WithFrame == {p \in Pkt : pst[p] \in FrameStates}

\* Only finitely many packets have a frame.
LEMMA WithFrameFinite == IsFiniteSet(WithFrame) /\ Cardinality(WithFrame) \in Nat
BY PktSets DEF WithFrame

\* Cardinalities after the packets R are given back.
LEMMA Without ==
    ASSUME NEW S \in SUBSET Pkt, NEW R \in SUBSET S
    PROVE  Cardinality(S \ R) = Cardinality(S) - Cardinality(R)
<1>1. IsFiniteSet(S) /\ S \cap R = R
  BY PktSets
<1> QED BY <1>1, FS_Difference

\* A step that moves no packet into or out of the states with a frame.
LEMMA FramesKept ==
    ASSUME FramesAccounted, UNCHANGED free_xmitframe_cnt,
           tpc = "aggregate" <=> tpc' = "aggregate",
           \A p \in Pkt : pst[p] \in FrameStates <=> pst'[p] \in FrameStates
    PROVE  FramesAccounted'
<1>1. WithFrame' = WithFrame
  BY DEF WithFrame
<1> QED BY <1>1 DEF FramesAccounted, FramesOut, WithFrame

\* One that takes a frame for p, and one that gives the frames of R back.
LEMMA FrameTaken ==
    ASSUME TypeNat, FramesAccounted, NEW p \in Pkt, NEW st \in FrameStates,
           pst[p] \notin FrameStates, pst' = Move({p}, st), UNCHANGED tpc,
           free_xmitframe_cnt' = free_xmitframe_cnt - 1
    PROVE  FramesAccounted'
<1>1. WithFrame' = WithFrame \cup {p} /\ p \notin WithFrame
  BY DEF WithFrame, Move, TypeNat
<1>2. Cardinality(WithFrame') = Cardinality(WithFrame) + 1
  BY <1>1, WithFrameFinite, FS_AddElement
<1> QED BY <1>2, WithFrameFinite DEF FramesAccounted, FramesOut, WithFrame, TypeNat

\* The second of the two: tpc tells whether the tasklet keeps the first frame.
LEMMA FramesGiven ==
    ASSUME TypeNat, FramesAccounted, NEW R \in SUBSET WithFrame,
           pst' = Move(R, "stack"),
           free_xmitframe_cnt' + (IF tpc' = "aggregate" THEN 1 ELSE 0)
             = free_xmitframe_cnt + Cardinality(R)
                 + (IF tpc = "aggregate" THEN 1 ELSE 0),
           free_xmitframe_cnt' \in Nat
    PROVE  FramesAccounted'
<1>1. WithFrame' = WithFrame \ R
  BY DEF WithFrame, Move, TypeNat, FrameStates
<1>2. Cardinality(WithFrame') = Cardinality(WithFrame) - Cardinality(R)
  BY <1>1, Without DEF WithFrame
<1>3. Cardinality(R) \in Nat
  BY PktSets DEF WithFrame
<1> QED BY <1>2, <1>3, WithFrameFinite
        DEF FramesAccounted, FramesOut, WithFrame, TypeNat

\* Every action conserves the frames.
LEMMA FramesStep ==
    TypeNat /\ FirstInv /\ FramesAccounted /\ [Next]_vars => FramesAccounted'
<1> SUFFICES ASSUME TypeNat, FirstInv, FramesAccounted, [Next]_vars
             PROVE  FramesAccounted'
  OBVIOUS
<1>0. TypeNat'
  BY TypeNatStep
<1>1. ASSUME NEW p \in Pkt,
             \/ XmitEntry(p) \/ StopSubqueue(p) \/ RtwXmitFail(p)
             \/ PreXmitQueue(p) \/ PreXmitDirect(p) \/ PsPoll(p)
             \/ TaskletDequeue(p)
      PROVE  FramesAccounted'
  <2>1. \A o \in Pkt : pst[o] \in FrameStates <=> pst'[o] \in FrameStates
    BY <1>1 DEF XmitEntry, StopSubqueue, RtwXmitFail, PreXmitQueue, PreXmitDirect,
       PsPoll, TaskletDequeue, Release, ToStack, Move, FrameStates, TypeNat
  <2>2. UNCHANGED free_xmitframe_cnt /\ (tpc = "aggregate" <=> tpc' = "aggregate")
    BY <1>1 DEF XmitEntry, StopSubqueue, RtwXmitFail, PreXmitQueue, PreXmitDirect,
       PsPoll, TaskletDequeue, taskVars
  <2> QED BY <2>1, <2>2, FramesKept
<1>2. ASSUME NEW p \in Pkt, RtwXmit(p) \/ EnqueueForSleepingSta(p)
      PROVE  FramesAccounted'
  <2>1. pst[p] \notin FrameStates /\ free_xmitframe_cnt' = free_xmitframe_cnt - 1
    BY <1>2 DEF RtwXmit, EnqueueForSleepingSta, GetsFrame, FrameStates
  <2>2. UNCHANGED tpc /\ \E st \in FrameStates : pst' = Move({p}, st)
    BY <1>2 DEF RtwXmit, EnqueueForSleepingSta, taskVars, FrameStates
  <2> QED BY <2>1, <2>2, FrameTaken
<1>3. ASSUME NEW p \in Pkt, PreXmitRefused(p) \/ \E sent \in BOOLEAN : XmitDirect(p, sent)
      PROVE  FramesAccounted'
  <2>1. /\ {p} \in SUBSET WithFrame /\ Cardinality({p}) = 1
        /\ pst' = Move({p}, "stack") /\ UNCHANGED tpc
        /\ free_xmitframe_cnt' = free_xmitframe_cnt + 1
    BY <1>3, FS_Singleton DEF PreXmitRefused, XmitDirect, FreeXmitframe, ToStack,
       WithFrame, FrameStates, taskVars
  <2> QED BY <1>0, <2>1, FramesGiven DEF TypeNat
<1>4. CASE TaskletCoalesce
  <2>1. /\ {tp} \in SUBSET WithFrame /\ Cardinality({tp}) = 1
        /\ pst' = Move({tp}, "stack") /\ tpc = "coalesce"
    BY <1>4, FS_Singleton DEF TaskletCoalesce, ToStack, WithFrame, FrameStates,
       FirstInv, TypeNat
  <2>2. free_xmitframe_cnt' + (IF tpc' = "aggregate" THEN 1 ELSE 0)
          = free_xmitframe_cnt + Cardinality({tp})
              + (IF tpc = "aggregate" THEN 1 ELSE 0)
    BY <1>4, <2>1 DEF TaskletCoalesce, TypeNat
  <2>3. free_xmitframe_cnt' \in Nat
    BY <1>0 DEF TypeNat
  <2> QED BY <2>1, <2>2, <2>3, FramesGiven
<1>5. ASSUME NEW A \in SUBSET Pkt, NEW sent \in BOOLEAN, TaskletAggregate(A, sent)
      PROVE  FramesAccounted'
  <2>1. A \in SUBSET WithFrame
    BY <1>5 DEF TaskletAggregate, Pending, Queued, In, WithFrame, FrameStates
  <2>2. /\ pst' = Move(A, "stack") /\ tpc = "aggregate" /\ tpc' = "loop"
        /\ free_xmitframe_cnt' = free_xmitframe_cnt + Cardinality(A) + 1
    BY <1>5 DEF TaskletAggregate, ToStack
  <2>3. Cardinality(A) \in Nat
    BY PktSets
  <2> QED BY <1>0, <2>1, <2>2, <2>3, FramesGiven DEF TypeNat
<1>6. ASSUME NEW s \in Sta, FreeStaFlush(s) PROVE FramesAccounted'
  <2> DEFINE R == {p \in In("queue") \cup In("sleep") : PktSta[p] = s}
  <2>1. R \in SUBSET WithFrame
    BY DEF In, WithFrame, FrameStates
  <2>2. /\ pst' = Move(R, "stack") /\ UNCHANGED tpc
        /\ free_xmitframe_cnt' = free_xmitframe_cnt + Cardinality(R)
    BY <1>6 DEF FreeStaFlush, taskVars
  <2>3. Cardinality(R) \in Nat
    BY <2>1, PktSets DEF WithFrame
  <2> QED BY <1>0, <2>1, <2>2, <2>3, FramesGiven DEF TypeNat
<1>7. ASSUME NEW s \in Sta,
             StopStaXmit(s) \/ WakeupStaToXmit(s) \/ DeliverTriggered(s)
      PROVE  FramesAccounted'
  <2>1. \A o \in Pkt : pst[o] \in FrameStates <=> pst'[o] \in FrameStates
    BY <1>7 DEF StopStaXmit, WakeupStaToXmit, DeliverTriggered, Release, Sleeping,
       Delivery, In, Move, FrameStates, TypeNat
  <2>2. UNCHANGED <<free_xmitframe_cnt, tpc>>
    BY <1>7 DEF StopStaXmit, WakeupStaToXmit, DeliverTriggered, taskVars
  <2> QED BY <2>1, <2>2, FramesKept
<1>8. CASE Quiet
  BY <1>8, QuietKeeps, FramesKept
<1> QED
  BY <1>1, <1>2, <1>3, <1>4, <1>5, <1>6, <1>7, <1>8, NextCases

\* The packets whose thread holds a buffer.
LEMMA DirectFinite == IsFiniteSet(In("direct")) /\ Cardinality(In("direct")) \in Nat
BY PktSets DEF In

\* A step after which the tasklet holds a buffer if it held one before, and the
\* same threads do.
LEMMA BufsKept ==
    ASSUME BufsAccounted, UNCHANGED bufVars, TaskletBuf' = TaskletBuf,
           \A p \in Pkt : pst[p] = "direct" <=> pst'[p] = "direct"
    PROVE  BufsAccounted'
<1>1. In("direct")' = In("direct")
  BY DEF In
<1> QED BY <1>1 DEF BufsAccounted, bufVars

\* Every action conserves the buffers.
LEMMA BufsStep == TypeNat /\ FirstInv /\ BufsAccounted /\ [Next]_vars => BufsAccounted'
<1> SUFFICES ASSUME TypeNat, FirstInv, BufsAccounted, [Next]_vars
             PROVE  BufsAccounted'
  OBVIOUS
<1>1. ASSUME NEW p \in Pkt,
             \/ XmitEntry(p) \/ StopSubqueue(p) \/ RtwXmitFail(p)
             \/ RtwXmit(p) \/ EnqueueForSleepingSta(p) \/ PreXmitQueue(p)
             \/ PreXmitRefused(p)
      PROVE  BufsAccounted'
  <2>1. UNCHANGED <<bufVars, tpc>>
    BY <1>1 DEF XmitEntry, StopSubqueue, RtwXmitFail, RtwXmit,
       EnqueueForSleepingSta, PreXmitQueue, PreXmitRefused, taskVars
  <2>2. \A o \in Pkt : pst[o] = "direct" <=> pst'[o] = "direct"
    BY <1>1 DEF XmitEntry, StopSubqueue, RtwXmitFail, RtwXmit, GetsFrame,
       EnqueueForSleepingSta, PreXmitQueue, PreXmitRefused, FreeXmitframe, ToStack,
       Move, TypeNat
  <2> QED BY <2>1, <2>2, BufsKept DEF TaskletBuf
<1>2. ASSUME NEW p \in Pkt, PreXmitDirect(p) PROVE BufsAccounted'
  <2>1. In("direct")' = In("direct") \cup {p} /\ p \notin In("direct")
    BY <1>2 DEF PreXmitDirect, In, Move, TypeNat
  <2>2. Cardinality(In("direct")') = Cardinality(In("direct")) + 1
    BY <2>1, DirectFinite, FS_AddElement
  <2>3. UNCHANGED <<urb, tpc>> /\ free_xmitbuf_cnt' = free_xmitbuf_cnt - 1
    BY <1>2 DEF PreXmitDirect, taskVars
  <2> QED BY <2>2, <2>3, DirectFinite DEF BufsAccounted, TaskletBuf, TypeNat
<1>3. ASSUME NEW p \in Pkt, NEW sent \in BOOLEAN, XmitDirect(p, sent)
      PROVE  BufsAccounted'
  <2>1. In("direct")' = In("direct") \ {p} /\ p \in In("direct")
    BY <1>3 DEF XmitDirect, FreeXmitframe, ToStack, In, Move, TypeNat
  <2>2. Cardinality(In("direct")') = Cardinality(In("direct")) - 1
    BY <2>1, DirectFinite, FS_RemoveElement
  <2>3. UNCHANGED tpc /\ WritePort(sent)
    BY <1>3 DEF XmitDirect, taskVars
  <2> QED BY <2>2, <2>3, DirectFinite DEF BufsAccounted, TaskletBuf, WritePort, TypeNat
<1>4. ASSUME NEW p \in Pkt, PsPoll(p) \/ TaskletDequeue(p) PROVE BufsAccounted'
  <2>1. UNCHANGED bufVars /\ TaskletBuf' = TaskletBuf
    BY <1>4 DEF PsPoll, TaskletDequeue, TaskletBuf
  <2>2. \A o \in Pkt : pst[o] = "direct" <=> pst'[o] = "direct"
    BY <1>4 DEF PsPoll, TaskletDequeue, Release, Move, TypeNat
  <2> QED BY <2>1, <2>2, BufsKept
<1>5. CASE TaskletCoalesce
  <2>1. UNCHANGED bufVars /\ TaskletBuf' = TaskletBuf
    BY <1>5 DEF TaskletCoalesce, TaskletBuf
  <2>2. \A o \in Pkt : pst[o] = "direct" <=> pst'[o] = "direct"
    BY <1>5 DEF TaskletCoalesce, ToStack, Move, FirstInv, TypeNat
  <2> QED BY <2>1, <2>2, BufsKept
<1>6. ASSUME NEW A \in SUBSET Pkt, NEW sent \in BOOLEAN, TaskletAggregate(A, sent)
      PROVE  BufsAccounted'
  <2>1. In("direct")' = In("direct")
    BY <1>6 DEF TaskletAggregate, Pending, Queued, ToStack, In, Move, TypeNat
  <2>2. WritePort(sent) /\ TaskletBuf = 1 /\ TaskletBuf' = 0
    BY <1>6 DEF TaskletAggregate, TaskletBuf
  <2> QED BY <2>1, <2>2, DirectFinite DEF BufsAccounted, WritePort, TypeNat
<1>7. ASSUME NEW s \in Sta,
             \/ FreeStaFlush(s) \/ StopStaXmit(s) \/ WakeupStaToXmit(s)
             \/ DeliverTriggered(s)
      PROVE  BufsAccounted'
  <2>1. UNCHANGED <<bufVars, tpc>>
    BY <1>7 DEF FreeStaFlush, StopStaXmit, WakeupStaToXmit, DeliverTriggered, taskVars
  <2>2. \A o \in Pkt : pst[o] = "direct" <=> pst'[o] = "direct"
    BY <1>7 DEF FreeStaFlush, StopStaXmit, WakeupStaToXmit, DeliverTriggered,
       Release, Sleeping, Delivery, In, Move, TypeNat
  <2> QED BY <2>1, <2>2, BufsKept DEF TaskletBuf
<1>8. CASE Quiet
  <2>1. In("direct")' = In("direct")
    BY <1>8, QuietKeeps DEF In
  <2>2. CASE QuietTasklet
    BY <2>1, <2>2, DirectFinite DEF QuietTasklet, TaskletStart, TaskletEnd,
       TaskletAllocBuf, TaskletNoFrame, TaskletFreeBuf, BufsAccounted, TaskletBuf,
       bufVars, TypeNat
  <2>3. CASE QuietDevice
    BY <2>1, <2>3, DirectFinite DEF QuietDevice, WritePortComplete, ScanStart,
       ScanEnd, ScanDone, SurpriseRemoved, BufsAccounted, TaskletBuf, bufVars,
       taskVars, TypeNat
  <2>4. CASE QuietSta
    BY <2>1, <2>4 DEF QuietSta, Associate, FreeStaUnlink, PsPollEmpty,
       PsPollClearTim, BufsAccounted, TaskletBuf, bufVars, taskVars
  <2>5. CASE UNCHANGED vars
    BY <2>1, <2>5 DEF vars, BufsAccounted, TaskletBuf, bufVars, taskVars
  <2> QED BY <1>8, <2>2, <2>3, <2>4, <2>5 DEF Quiet
<1> QED
  BY <1>1, <1>2, <1>3, <1>4, <1>5, <1>6, <1>7, <1>8, NextCases

-----------------------------------------------------------------------------
\* The inductive invariant of the pools.
PoolInv == TypeNat /\ FirstInv /\ FramesAccounted /\ BufsAccounted

\* The pools are full at first.
LEMMA PoolInit == Init => PoolInv
<1> SUFFICES ASSUME Init PROVE PoolInv
  OBVIOUS
<1>1. TypeNat
  <2>1. pst \in [Pkt -> PktStates] /\ psta \in [Pkt -> BOOLEAN]
    BY DEF Init, PktStates
  <2>2. dz \in [Sta -> BOOLEAN] /\ tim \in [Sta -> BOOLEAN]
    BY DEF Init
  <2>3. /\ sleepq_len \in [Sta -> 0..LenMod - 1]
        /\ sleepq_ac_len \in [Sta -> 0..LenMod - 1]
    BY DEF Init
  <2>4. sta \in [Sta -> {"none", "linked", "freeing"}] /\ uapsd \in [Sta -> SUBSET Queue]
    BY DEF Init
  <2> QED BY <2>1, <2>2, <2>3, <2>4 DEF Init, TypeNat
<1>2. FirstInv
  BY DEF Init, FirstInv
<1>3. WithFrame = {} /\ In("direct") = {}
  BY DEF Init, WithFrame, In, FrameStates
<1>4. Cardinality(WithFrame) = 0 /\ Cardinality(In("direct")) = 0
  BY <1>3, FS_EmptySet
<1>5. FramesAccounted
  BY <1>4 DEF Init, FramesAccounted, FramesOut, WithFrame
<1>6. BufsAccounted
  BY <1>4 DEF Init, BufsAccounted, TaskletBuf
<1> QED BY <1>1, <1>2, <1>5, <1>6 DEF PoolInv

\* Every step conserves the pools.
LEMMA PoolStep == PoolInv /\ [Next]_vars => PoolInv'
BY TypeNatStep, FirstStep, FramesStep, BufsStep DEF PoolInv

\* The pool invariant holds in every reachable state.
LEMMA PoolAlways == Spec => []PoolInv
BY PoolInit, PoolStep, PTL DEF Spec

\* What is conserved bounds the counters.
LEMMA PoolBounds == PoolInv => TypeOK
<1> SUFFICES ASSUME PoolInv PROVE TypeOK
  OBVIOUS
<1>1. free_xmitframe_cnt \in 0..NrXmitFrame
  BY WithFrameFinite DEF PoolInv, TypeNat, FramesAccounted, FramesOut, WithFrame
<1>2. free_xmitbuf_cnt \in 0..NrXmitBuf /\ urb \in 0..NrXmitBuf
  BY DirectFinite DEF PoolInv, TypeNat, BufsAccounted, TaskletBuf
<1> QED BY <1>1, <1>2 DEF PoolInv, TypeNat, TypeOK

\* free_xmitframe_cnt, free_xmitbuf_cnt and the number of URBs stay between 0 and
\* the size of their pool, and all else has its type, whatever threads, tasklets,
\* completions and the freeing of stations do at the same time.
THEOREM TypeCorrect == Spec => []TypeOK
BY PoolAlways, PoolBounds, PTL

\* No error path of rtw_xmit, pre_xmitframe, rtl8188fu_xmitframe_complete,
\* rtw_free_stainfo or the sleep queues loses an xmit_frame or frees it twice.
THEOREM FramesConserved == Spec => []FramesAccounted
<1>1. PoolInv => FramesAccounted
  BY DEF PoolInv
<1> QED BY <1>1, PoolAlways, PTL

\* The same of the transmit buffers between rtw_alloc_xmitbuf, usb_write_port and
\* the completion of the URB.
THEOREM BufsConserved == Spec => []BufsAccounted
<1>1. PoolInv => BufsAccounted
  BY DEF PoolInv
<1> QED BY <1>1, PoolAlways, PTL

-----------------------------------------------------------------------------
(***************************************************************************)
(* The contract with the network stack.                                    *)
(***************************************************************************)
\* The packets in the driver's hands.
Held == {p \in Pkt : pst[p] # "stack"}

\* A stopped subqueue has a packet among those the driver holds.
LEMMA StoppedHeld == StoppedHasPacket <=> \A q \in stopped : \E p \in Held : PktQueue[p] = q
BY DEF StoppedHasPacket, Held

\* A set that is counted has an element.
LEMMA SomeElement == ASSUME NEW S, Cardinality(S) >= 1 PROVE S # {}
<1>1. SUFFICES ASSUME S = {} PROVE FALSE
  OBVIOUS
<1>2. Cardinality(S) = Cardinality({})
  BY <1>1, Zenon
<1> QED BY <1>2, FS_EmptySet

\* A subqueue that is not woken for a packet outside accnt has one queued.
LEMMA NotWoken ==
    ASSUME NEW q \in Queue, q \in Wake(q, accnt(q))
    PROVE  \E o \in Pkt : pst[o] = "queue" /\ PktQueue[o] = q
<1>1. accnt(q) >= 1
  <2>1. accnt(q) \in Nat
    BY PktSets DEF accnt, Queued, In
  <2> QED BY <2>1 DEF Wake, rtw_os_need_wake_queue
<1>2. Queued(q) # {}
  BY <1>1, SomeElement DEF accnt
<1> QED BY <1>2 DEF Queued, In

\* The contract's step for a packet that goes back with a wake.
LEMMA ReturnOne ==
    ASSUME TypeNat, StoppedHasPacket, NEW p \in Pkt, pst[p] \notin {"stack", "queue"},
           pst' = Move({p}, "stack"),
           stopped' = Wake(PktQueue[p], accnt(PktQueue[p]))
    PROVE  Contract!Return({p})
<1> DEFINE q == PktQueue[p]
<1>1. Held' = Held \ {p} /\ p \in Held
  BY DEF Held, Move, TypeNat
<1>2. stopped \ {q} \subseteq stopped' /\ stopped' \subseteq stopped
  BY DEF Wake
<1>3. ASSUME NEW r \in stopped' PROVE \E o \in Held' : PktQueue[o] = r
  <2>1. CASE r # q
    BY <1>1, <1>2, <1>3, <2>1, StoppedHeld
  <2>2. CASE r = q
    <3>1. \E o \in Pkt : pst[o] = "queue" /\ PktQueue[o] = q
      BY <1>3, <2>2, NotWoken
    <3> QED BY <1>1, <2>2, <3>1 DEF Held
  <2> QED BY <2>1, <2>2
<1> QED BY <1>1, <1>2, <1>3 DEF Contract!Return, Contract!QueuesOf, Held

\* A step that neither takes nor returns a packet nor changes a subqueue.
LEMMA HeldKept ==
    ASSUME UNCHANGED stopped,
           \A p \in Pkt : pst[p] = "stack" <=> pst'[p] = "stack"
    PROVE  UNCHANGED Contract!contractVars
BY DEF Contract!contractVars

\* Every action is a step of the contract, or none.
LEMMA ContractStep ==
    TypeNat /\ FirstInv /\ StoppedHasPacket /\ [Next]_vars
        => [Contract!ContractNext]_Contract!contractVars
<1> SUFFICES ASSUME TypeNat, FirstInv, StoppedHasPacket, [Next]_vars
             PROVE  Contract!ContractNext \/ UNCHANGED Contract!contractVars
  OBVIOUS
<1>1. ASSUME NEW p \in Pkt, XmitEntry(p) PROVE Contract!ContractNext
  <2>1. /\ p \notin Held /\ PktQueue[p] \notin stopped
        /\ Held' = Held \cup {p} /\ UNCHANGED stopped
    BY <1>1 DEF XmitEntry, Held, Move, TypeNat
  <2>2. Contract!Take(p)
    BY <2>1 DEF Contract!Take, Held
  <2> QED BY <2>2 DEF Contract!ContractNext
<1>2. ASSUME NEW p \in Pkt, StopSubqueue(p) PROVE Contract!ContractNext
  <2>1. p \in Held /\ Held' = Held /\ stopped' = stopped \cup {PktQueue[p]}
    BY <1>2 DEF StopSubqueue, Held, Move, TypeNat
  <2>2. Contract!Stop(PktQueue[p])
    BY <2>1 DEF Contract!Stop, Contract!QueuesOf, Held
  <2> QED BY <2>2 DEF Contract!ContractNext
<1>3. ASSUME NEW p \in Pkt, RtwXmitFail(p) \/ PreXmitRefused(p)
      PROVE  Contract!ContractNext
  <2>1. Contract!Return({p})
    BY <1>3, ReturnOne DEF RtwXmitFail, PreXmitRefused, FreeXmitframe, ToStack
  <2> QED BY <2>1 DEF Contract!ContractNext
<1>4. ASSUME NEW p \in Pkt, NEW sent \in BOOLEAN, XmitDirect(p, sent)
      PROVE  Contract!ContractNext
  <2>1. Contract!Return({p})
    BY <1>4, ReturnOne DEF XmitDirect, FreeXmitframe, ToStack
  <2> QED BY <2>1 DEF Contract!ContractNext
<1>5. CASE TaskletCoalesce
  <2>1. PICK p \in Pkt : p = tp
    BY <1>5 DEF TaskletCoalesce, TypeNat
  <2>2. pst[p] = "first"
    BY <1>5, <2>1 DEF TaskletCoalesce, FirstInv
  <2>3. Contract!Return({p})
    BY <1>5, <2>1, <2>2, ReturnOne DEF TaskletCoalesce, ToStack
  <2> QED BY <2>3 DEF Contract!ContractNext
<1>6. ASSUME NEW p \in Pkt,
             \/ RtwXmit(p) \/ EnqueueForSleepingSta(p) \/ PreXmitQueue(p)
             \/ PreXmitDirect(p) \/ PsPoll(p) \/ TaskletDequeue(p)
      PROVE  UNCHANGED Contract!contractVars
  <2>1. \A o \in Pkt : pst[o] = "stack" <=> pst'[o] = "stack"
    BY <1>6 DEF RtwXmit, EnqueueForSleepingSta, GetsFrame, PreXmitQueue,
       PreXmitDirect, PsPoll, Release, TaskletDequeue, Move, TypeNat
  <2>2. UNCHANGED stopped
    BY <1>6 DEF RtwXmit, EnqueueForSleepingSta, PreXmitQueue, PreXmitDirect, PsPoll,
       TaskletDequeue
  <2> QED BY <2>1, <2>2, HeldKept
<1>7. ASSUME NEW A \in SUBSET Pkt, NEW sent \in BOOLEAN, TaskletAggregate(A, sent)
      PROVE  Contract!ContractNext \/ UNCHANGED Contract!contractVars
  <2> DEFINE q == PktQueue[tp]
  <2>1. /\ tp \in Pkt /\ q \in Queue
        /\ \A p \in A : pst[p] = "queue" /\ PktQueue[p] = q
        /\ pst' = Move(A, "stack")
    BY <1>7 DEF TaskletAggregate, Pending, Queued, In, ToStack, TypeNat
  <2>2. CASE A = {}
    <3>1. pst' = pst /\ stopped' = stopped
      BY <1>7, <2>1, <2>2 DEF TaskletAggregate, Move, TypeNat
    <3> QED BY <3>1, HeldKept
  <2>3. CASE A # {}
    <3>1. Held' = Held \ A /\ A \subseteq Held
      BY <2>1 DEF Held, Move, TypeNat
    <3>2. stopped' = Wake(q, Cardinality(Queued(q) \ A))
      BY <1>7, <2>3 DEF TaskletAggregate
    <3>3. stopped \ {q} \subseteq stopped' /\ stopped' \subseteq stopped
      BY <3>2 DEF Wake
    <3>4. ASSUME NEW r \in stopped' PROVE \E o \in Held' : PktQueue[o] = r
      <4>1. CASE r # q
        BY <2>1, <3>1, <3>3, <3>4, <4>1, StoppedHeld
      <4>2. CASE r = q
        <5>1. Cardinality(Queued(q) \ A) \in Nat
          BY PktSets DEF Queued, In
        <5>2. Cardinality(Queued(q) \ A) >= 1
          BY <3>2, <3>4, <4>2, <5>1 DEF Wake, rtw_os_need_wake_queue
        <5>3. Queued(q) \ A # {}
          BY <5>2, SomeElement
        <5> QED BY <3>1, <4>2, <5>3 DEF Queued, In, Held
      <4> QED BY <4>1, <4>2
    <3>5. Contract!QueuesOf(A) = {q}
      BY <2>1, <2>3 DEF Contract!QueuesOf
    <3>6. Contract!Return(A)
      BY <2>3, <3>1, <3>3, <3>4, <3>5 DEF Contract!Return, Contract!QueuesOf, Held
    <3> QED BY <3>6 DEF Contract!ContractNext
  <2> QED BY <2>2, <2>3
<1>8. ASSUME NEW s \in Sta, FreeStaFlush(s)
      PROVE  Contract!ContractNext \/ UNCHANGED Contract!contractVars
  <2> DEFINE R == {p \in In("queue") \cup In("sleep") : PktSta[p] = s}
  <2>1. pst' = Move(R, "stack") /\ stopped' = stopped \ WakeAtFree(R)
    BY <1>8 DEF FreeStaFlush
  <2>2. R \subseteq Held /\ Held' = Held \ R
    BY <2>1 DEF In, Held, Move, TypeNat
  <2>3. stopped \ Contract!QueuesOf(R) \subseteq stopped' /\ stopped' \subseteq stopped
    BY <2>1 DEF WakeAtFree, Contract!QueuesOf, Queued
  <2>4. ASSUME NEW q \in stopped' PROVE \E o \in Held' : PktQueue[o] = q
    <3>1. q \in stopped /\ q \in Queue /\ q \notin WakeAtFree(R)
      BY <2>1, <2>4 DEF TypeNat
    <3>2. PICK p \in Held : PktQueue[p] = q
      BY <3>1, StoppedHeld
    <3>3. CASE p \notin R
      BY <2>2, <3>2, <3>3
    <3>4. CASE p \in R
      <4>1. ~rtw_os_need_wake_queue(accnt(q))
        BY <3>1, <3>2, <3>4 DEF WakeAtFree
      <4>2. PICK o \in Pkt : pst[o] = "queue" /\ PktQueue[o] = q
        BY <3>1, <4>1, NotWoken DEF Wake
      <4>3. CASE Queued(q) \cap R = {}
        BY <2>2, <4>2, <4>3 DEF Queued, In, Held
      <4>4. CASE Queued(q) \cap R # {}
        <5>1. ~rtw_os_need_wake_queue(Cardinality(Queued(q) \ R))
          BY <3>1, <4>4 DEF WakeAtFree
        <5>2. Cardinality(Queued(q) \ R) \in Nat
          BY PktSets DEF Queued, In
        <5>3. Cardinality(Queued(q) \ R) >= 1
          BY <5>1, <5>2 DEF rtw_os_need_wake_queue
        <5>4. Queued(q) \ R # {}
          BY <5>3, SomeElement
        <5> QED BY <2>2, <5>4 DEF Queued, In, Held
      <4> QED BY <4>3, <4>4
    <3> QED BY <3>3, <3>4
  <2>5. CASE R = {}
    <3>1. stopped' = stopped
      BY <2>1, <2>5 DEF WakeAtFree
    <3>2. pst' = pst
      BY <2>1, <2>5 DEF Move, TypeNat
    <3> QED BY <3>1, <3>2, HeldKept
  <2>6. CASE R # {}
    <3>1. PICK P \in SUBSET Pkt : P = R
      BY DEF In
    <3>2. Contract!Return(P)
      BY <2>2, <2>3, <2>4, <2>6, <3>1 DEF Contract!Return, Contract!QueuesOf, Held
    <3> QED BY <3>2 DEF Contract!ContractNext
  <2> QED BY <2>5, <2>6
<1>9. ASSUME NEW s \in Sta,
             StopStaXmit(s) \/ WakeupStaToXmit(s) \/ DeliverTriggered(s)
      PROVE  UNCHANGED Contract!contractVars
  <2>1. \A o \in Pkt : pst[o] = "stack" <=> pst'[o] = "stack"
    BY <1>9 DEF StopStaXmit, WakeupStaToXmit, DeliverTriggered, Release, Sleeping,
       Delivery, In, Move, TypeNat
  <2>2. UNCHANGED stopped
    BY <1>9 DEF StopStaXmit, WakeupStaToXmit, DeliverTriggered
  <2> QED BY <2>1, <2>2, HeldKept
<1>10. CASE Quiet
  <2>1. UNCHANGED pst /\ UNCHANGED stopped
    BY <1>10, QuietKeeps
  <2> QED BY <2>1, HeldKept
<1> QED
  BY <1>1, <1>2, <1>3, <1>4, <1>5, <1>6, <1>7, <1>8, <1>9, <1>10, NextCases, Zenon

\* The contract keeps a packet of every stopped subqueue in the driver's hands.
LEMMA ContractKeeps ==
    StoppedHasPacket /\ [Contract!ContractNext]_Contract!contractVars => StoppedHasPacket'
<1> SUFFICES ASSUME StoppedHasPacket, [Contract!ContractNext]_Contract!contractVars
             PROVE  \A q \in stopped' : \E p \in Held' : PktQueue[p] = q
  BY DEF StoppedHasPacket, Held
<1>0. \A q \in stopped : \E p \in Held : PktQueue[p] = q
  BY StoppedHeld
<1>1. ASSUME NEW p \in Pkt, Contract!Take(p)
      PROVE  \A q \in stopped' : \E o \in Held' : PktQueue[o] = q
  <2>1. Held' = Held \cup {p} /\ stopped' = stopped
    BY <1>1 DEF Contract!Take, Held
  <2> QED BY <1>0, <2>1
<1>2. ASSUME NEW q \in Queue, Contract!Stop(q)
      PROVE  \A r \in stopped' : \E o \in Held' : PktQueue[o] = r
  <2>1. Held' = Held /\ stopped' = stopped \cup {q} /\ \E p \in Held : PktQueue[p] = q
    BY <1>2 DEF Contract!Stop, Contract!QueuesOf, Held
  <2> QED BY <1>0, <2>1
<1>3. ASSUME NEW R \in SUBSET Pkt, Contract!Return(R)
      PROVE  \A r \in stopped' : \E o \in Held' : PktQueue[o] = r
  BY <1>3 DEF Contract!Return, Contract!QueuesOf, Held
<1>4. CASE UNCHANGED Contract!contractVars
  <2>1. Held' = Held /\ stopped' = stopped
    BY <1>4 DEF Contract!contractVars, Held
  <2> QED BY <1>0, <2>1
<1> QED BY <1>1, <1>2, <1>3, <1>4 DEF Contract!ContractNext

\* So the subqueues are never stopped for nothing.
LEMMA StoppedAlways == Spec => []StoppedHasPacket
<1>1. Init => StoppedHasPacket
  BY DEF Init, StoppedHasPacket
<1>2. PoolInv /\ StoppedHasPacket /\ [Next]_vars => StoppedHasPacket'
  BY ContractStep, ContractKeeps DEF PoolInv
<1> QED BY <1>1, <1>2, PoolAlways, PTL DEF Spec

\* netif_stop_subqueue is never left without a packet whose return calls
\* rtw_os_pkt_complete, with and without wifi_spec.
THEOREM StoppedSubqueuesWake == Spec => []StoppedHasPacket
BY StoppedAlways

\* The transmit path implements TxContract: packets are taken from running subqueues,
\* each is returned once, and a stopped subqueue has a packet to wake it.
THEOREM KeepsContract == Spec => ImplementsContract
<1>1. Init => Contract!ContractInit
  BY DEF Init, Contract!ContractInit
<1>2. PoolInv /\ StoppedHasPacket /\ [Next]_vars
        => [Contract!ContractNext]_Contract!contractVars
  BY ContractStep DEF PoolInv
<1> QED
  BY <1>1, <1>2, PoolAlways, StoppedAlways, PTL
  DEF Spec, ImplementsContract, Contract!ContractSpec

-----------------------------------------------------------------------------
(***************************************************************************)
(* The stations that sleep.                                                *)
(***************************************************************************)
\* The steps that leave the sleep queues and the station table alone.
AwakeThread(p) ==
    \/ XmitEntry(p) \/ StopSubqueue(p) \/ RtwXmitFail(p) \/ RtwXmit(p)
    \/ PreXmitQueue(p) \/ PreXmitRefused(p) \/ PreXmitDirect(p)
    \/ TaskletDequeue(p)
    \/ \E sent \in BOOLEAN : XmitDirect(p, sent)

Awake ==
    \/ \E p \in Pkt : AwakeThread(p)
    \/ TaskletCoalesce
    \/ \E A \in SUBSET Pkt, sent \in BOOLEAN : TaskletAggregate(A, sent)
    \/ QuietTasklet \/ QuietDevice \/ UNCHANGED vars

\* Sleep queues, counters and TIM bits stay as they are.
LEMMA AwakeKeeps ==
    ASSUME TypeNat, FirstInv, Awake
    PROVE  /\ UNCHANGED <<sta, dz, uapsd, sleepq_len, sleepq_ac_len, tim, rx>>
           /\ \A o \in Pkt : pst[o] = "sleep" <=> pst'[o] = "sleep"
<1> USE DEF staVars, slpVars, TypeNat, Move
<1>1. ASSUME NEW p \in Pkt,
             \/ XmitEntry(p) \/ StopSubqueue(p) \/ RtwXmitFail(p) \/ RtwXmit(p)
             \/ PreXmitQueue(p)
      PROVE  /\ UNCHANGED <<sta, dz, uapsd, sleepq_len, sleepq_ac_len, tim, rx>>
             /\ \A o \in Pkt : pst[o] = "sleep" <=> pst'[o] = "sleep"
  BY <1>1 DEF XmitEntry, StopSubqueue, RtwXmitFail, RtwXmit, GetsFrame, ToStack,
     PreXmitQueue
<1>2. ASSUME NEW p \in Pkt,
             \/ PreXmitRefused(p) \/ PreXmitDirect(p) \/ TaskletDequeue(p)
             \/ \E sent \in BOOLEAN : XmitDirect(p, sent)
      PROVE  /\ UNCHANGED <<sta, dz, uapsd, sleepq_len, sleepq_ac_len, tim, rx>>
             /\ \A o \in Pkt : pst[o] = "sleep" <=> pst'[o] = "sleep"
  BY <1>2 DEF PreXmitRefused, PreXmitDirect, TaskletDequeue, XmitDirect,
     FreeXmitframe, ToStack
<1>3. CASE TaskletCoalesce
  BY <1>3 DEF TaskletCoalesce, ToStack, FirstInv
<1>4. ASSUME NEW A \in SUBSET Pkt, NEW sent \in BOOLEAN, TaskletAggregate(A, sent)
      PROVE  /\ UNCHANGED <<sta, dz, uapsd, sleepq_len, sleepq_ac_len, tim, rx>>
             /\ \A o \in Pkt : pst[o] = "sleep" <=> pst'[o] = "sleep"
  BY <1>4 DEF TaskletAggregate, ToStack, Pending, Queued, In
<1>5. CASE QuietTasklet
  BY <1>5 DEF QuietTasklet, TaskletStart, TaskletEnd, TaskletAllocBuf,
     TaskletNoFrame, TaskletFreeBuf, txVars
<1>6. CASE QuietDevice
  BY <1>6 DEF QuietDevice, WritePortComplete, ScanStart, ScanEnd, ScanDone,
     SurpriseRemoved, txVars
<1>7. CASE UNCHANGED vars
  BY <1>7 DEF vars, txVars
<1> QED BY <1>1, <1>2, <1>3, <1>4, <1>5, <1>6, <1>7 DEF Awake, AwakeThread

\* The cases of a step, with those steps taken together.
LEMMA SleepCases ==
    ASSUME [Next]_vars
    PROVE  \/ Awake
           \/ \E p \in Pkt : EnqueueForSleepingSta(p) \/ PsPoll(p)
           \/ \E s \in Sta : \/ \E u \in UapsdChoices : Associate(s, u)
                            \/ FreeStaUnlink(s) \/ FreeStaFlush(s)
                            \/ StopStaXmit(s) \/ WakeupStaToXmit(s)
                            \/ DeliverTriggered(s) \/ PsPollEmpty(s)
           \/ PsPollClearTim
BY Zenon DEF Next, XmitThread, Tasklet, Awake, AwakeThread, QuietTasklet, QuietDevice

\* The rest of a PS-Poll handler works for a station in the table, one that may
\* poll, and an entry that is not in the table has its lengths at 0.
RxInv == rx # None => sta[rx] # "none" /\ BE \notin uapsd[rx]

NoneInv == \A s \in Sta : sta[s] = "none" => sleepq_len[s] = 0 /\ sleepq_ac_len[s] = 0

SleeperInv == SleepqHasSleeper /\ RxInv /\ NoneInv

\* Every action keeps them.
LEMMA SleeperStep == TypeNat /\ FirstInv /\ SleeperInv /\ [Next]_vars => SleeperInv'
<1> SUFFICES ASSUME TypeNat, FirstInv, SleeperInv, [Next]_vars PROVE SleeperInv'
  OBVIOUS
<1> USE DEF SleeperInv, SleepqHasSleeper, RxInv, NoneInv, In, TypeNat
<1>1. CASE Awake
  BY <1>1, AwakeKeeps
<1>2. ASSUME NEW p \in Pkt, EnqueueForSleepingSta(p) PROVE SleeperInv'
  <2>1. SleepqHasSleeper'
    BY <1>2 DEF EnqueueForSleepingSta, GetsFrame, Move
  <2>2. RxInv'
    BY <1>2 DEF EnqueueForSleepingSta
  <2>3. NoneInv'
    BY <1>2 DEF EnqueueForSleepingSta, GetsFrame, Buffer
  <2> QED BY <2>1, <2>2, <2>3
<1>3. ASSUME NEW p \in Pkt, PsPoll(p) PROVE SleeperInv'
  BY <1>3 DEF PsPoll, Receives, Release, Move
<1>4. ASSUME NEW s \in Sta, NEW u \in UapsdChoices, Associate(s, u) PROVE SleeperInv'
  BY <1>4 DEF Associate, txVars, slpVars
<1>5. ASSUME NEW s \in Sta, FreeStaUnlink(s) \/ PsPollEmpty(s) PROVE SleeperInv'
  BY <1>5 DEF FreeStaUnlink, PsPollEmpty, Receives, txVars, slpVars
<1>6. ASSUME NEW s \in Sta, FreeStaFlush(s) PROVE SleeperInv'
  <2>1. SleepqHasSleeper'
    BY <1>6 DEF FreeStaFlush, Move
  <2>2. RxInv' /\ NoneInv'
    BY <1>6 DEF FreeStaFlush
  <2> QED BY <2>1, <2>2
<1>7. ASSUME NEW s \in Sta, StopStaXmit(s) PROVE SleeperInv'
  <2>1. SleepqHasSleeper'
    BY <1>7 DEF StopStaXmit, Receives, Move
  <2>2. RxInv' /\ NoneInv'
    BY <1>7 DEF StopStaXmit, Receives, Buffer
  <2> QED BY <2>1, <2>2
<1>8. ASSUME NEW s \in Sta, WakeupStaToXmit(s) PROVE SleeperInv'
  <2>1. SleepqHasSleeper'
    BY <1>8 DEF WakeupStaToXmit, Release, Sleeping, Move
  <2>2. RxInv' /\ NoneInv'
    BY <1>8 DEF WakeupStaToXmit, Receives, Release
  <2> QED BY <2>1, <2>2
<1>9. ASSUME NEW s \in Sta, DeliverTriggered(s) PROVE SleeperInv'
  <2>1. SleepqHasSleeper'
    BY <1>9 DEF DeliverTriggered, Release, Sleeping, Delivery, Move
  <2>2. RxInv' /\ NoneInv'
    BY <1>9 DEF DeliverTriggered, Receives, Release
  <2> QED BY <2>1, <2>2
<1>10. CASE PsPollClearTim
  BY <1>10 DEF PsPollClearTim, txVars
<1> QED
  BY <1>1, <1>2, <1>3, <1>4, <1>5, <1>6, <1>7, <1>8, <1>9, <1>10, SleepCases

\* They hold in every state.
LEMMA SleeperAlways == Spec => []SleeperInv
<1>1. Init => SleeperInv
  BY DEF Init, SleeperInv, SleepqHasSleeper, RxInv, NoneInv, In
<1>2. PoolInv /\ SleeperInv /\ [Next]_vars => SleeperInv'
  BY SleeperStep DEF PoolInv
<1> QED BY <1>1, <1>2, PoolAlways, PTL DEF Spec

\* No order of stop_sta_xmit, wakeup_sta_to_xmit, PS-Poll, triggers, the stack and
\* rtw_free_stainfo leaves a frame in the sleep queue of a station that is awake or
\* has left.
THEOREM SleepersHoldSleepqs == Spec => []SleepqHasSleeper
<1>1. SleeperInv => SleepqHasSleeper
  BY DEF SleeperInv
<1> QED BY <1>1, SleeperAlways, PTL

-----------------------------------------------------------------------------
\* The frames a station has to be told of.
ToTell(s) == LET d == Delivery(s, Sleeping(s)) IN
             IF has_legacy_ac(s) THEN Sleeping(s) \ d ELSE d

\* NotPolledTold in those words.
LEMMA ToldIs == NotPolledTold <=> \A s \in Sta : NotPolled(s) /\ ToTell(s) # {} => tim[s]
BY Zenon DEF NotPolledTold, ToTell

\* Every action keeps it; what clears a TIM bit leaves nothing to tell.
LEMMA ToldStep ==
    TypeNat /\ FirstInv /\ SleeperInv /\ NotPolledTold /\ [Next]_vars => NotPolledTold'
<1> SUFFICES ASSUME TypeNat, FirstInv, SleeperInv, NotPolledTold, [Next]_vars,
                    NEW s \in Sta, NotPolled(s)', ToTell(s)' # {}
             PROVE  tim'[s]
  BY Zenon DEF NotPolledTold, ToTell
<1>0. NotPolled(s) /\ ToTell(s) # {} => tim[s]
  BY ToldIs
<1> USE DEF NotPolled, ToTell, has_legacy_ac, Sleeping, Delivery, In, TypeNat
<1>1. CASE Awake
  BY <1>0, <1>1, AwakeKeeps
<1>2. ASSUME NEW p \in Pkt, EnqueueForSleepingSta(p) PROVE tim'[s]
  BY <1>0, <1>2 DEF EnqueueForSleepingSta, Buffer, Move
<1>3. ASSUME NEW p \in Pkt, PsPoll(p) PROVE tim'[s]
  BY <1>0, <1>3 DEF PsPoll, Release, Move
<1>4. ASSUME NEW r \in Sta, NEW u \in UapsdChoices, Associate(r, u) PROVE tim'[s]
  BY <1>0, <1>4 DEF Associate, txVars, slpVars, SleeperInv, SleepqHasSleeper
<1>5. ASSUME NEW r \in Sta, FreeStaUnlink(r) \/ PsPollEmpty(r) PROVE tim'[s]
  BY <1>0, <1>5 DEF FreeStaUnlink, PsPollEmpty, txVars, slpVars
<1>6. ASSUME NEW r \in Sta, FreeStaFlush(r) PROVE tim'[s]
  BY <1>0, <1>6 DEF FreeStaFlush, Move
<1>7. ASSUME NEW r \in Sta, StopStaXmit(r) PROVE tim'[s]
  BY <1>0, <1>7 DEF StopStaXmit, Receives, Buffer, Move
<1>8. ASSUME NEW r \in Sta, WakeupStaToXmit(r) PROVE tim'[s]
  BY <1>0, <1>8 DEF WakeupStaToXmit, Release, Move
<1>9. ASSUME NEW r \in Sta, DeliverTriggered(r) PROVE tim'[s]
  <2>1. pst' = Move(Delivery(r, Sleeping(r)), "queue") /\ UNCHANGED <<sta, uapsd>>
    BY <1>9 DEF DeliverTriggered, Release
  <2>2. NotPolled(s) /\ ToTell(s) # {}
    BY <2>1 DEF Move
  <2>3. CASE r # s
    <3>1. tim'[s] = tim[s]
      BY <1>9, <2>3 DEF DeliverTriggered
    <3> QED BY <1>0, <2>2, <3>1
  <2>4. CASE r = s /\ ~has_legacy_ac(s)
    <3>1. ToTell(s)' = {}
      BY <2>1, <2>4 DEF Move
    <3> QED BY <3>1
  <2>5. CASE r = s /\ has_legacy_ac(s)
    <3>1. tim' = [tim EXCEPT ![s] = tim[s] /\ ~(/\ Delivery(s, Sleeping(s)) # {}
                                             /\ sleepq_ac_len'[s] = 0
                                             /\ ~has_legacy_ac(s))]
      BY <1>9, <2>5, Zenon DEF DeliverTriggered
    <3> QED BY <1>0, <2>2, <2>5, <3>1
  <2> QED BY <2>3, <2>4, <2>5
<1>10. CASE PsPollClearTim
  BY <1>0, <1>10 DEF PsPollClearTim, txVars, SleeperInv, RxInv
<1> QED
  BY <1>1, <1>2, <1>3, <1>4, <1>5, <1>6, <1>7, <1>8, <1>9, <1>10, SleepCases

\* For a station that cannot use PS-Poll the beacon announces what is buffered, for
\* every mixture of delivery-enabled and other categories.
THEOREM UnpolledAreTold == Spec => []NotPolledTold
<1>1. Init => NotPolledTold
  BY DEF Init, NotPolledTold, NotPolled
<1>2. PoolInv /\ SleeperInv /\ NotPolledTold /\ [Next]_vars => NotPolledTold'
  BY ToldStep DEF PoolInv
<1> QED BY <1>1, <1>2, PoolAlways, SleeperAlways, PTL DEF Spec

-----------------------------------------------------------------------------
\* A sleep queue holds no more frames than there are, so its lengths do not wrap.
LEMMA SleepqBound ==
    ASSUME PoolInv', NEW P, P \subseteq In("sleep")'
    PROVE  Cardinality(P) \in 0..LenMod - 1
<1>1. P \in SUBSET WithFrame'
  BY DEF In, WithFrame, FrameStates
<1>2. Cardinality(P) <= Cardinality(WithFrame') /\ Cardinality(P) \in Nat
  BY <1>1, FS_Subset, PktSets DEF WithFrame
<1>3. Cardinality(WithFrame') <= NrXmitFrame /\ Cardinality(WithFrame') \in Nat
  BY PktSets DEF PoolInv, TypeNat, FramesAccounted, FramesOut, WithFrame
<1> QED BY <1>2, <1>3

\* The lengths of one station are exact.
Exact(s) == /\ sleepq_len[s] = Cardinality(Sleeping(s))
            /\ sleepq_ac_len[s] = Cardinality(Delivery(s, Sleeping(s)))

\* Adding frames that were not in the sleep queue keeps a length exact ...
LEMMA PlusExact ==
    ASSUME NEW S \in SUBSET Pkt, NEW P \in SUBSET Pkt, S \cap P = {},
           Cardinality(S \cup P) \in 0..LenMod - 1
    PROVE  Plus(Cardinality(S), Cardinality(P)) = Cardinality(S \cup P)
<1>1. Cardinality(S \cup P) = Cardinality(S) + Cardinality(P)
  <2>1. Cardinality(S \cup P) = Cardinality(S) + Cardinality(P) - Cardinality(S \cap P)
    BY PktSets, FS_Union
  <2>2. Cardinality(S \cap P) = 0
    BY FS_EmptySet
  <2> QED BY <2>1, <2>2, PktSets
<1> QED BY <1>1, ModSmall DEF Plus

\* ... and so does taking frames out of it.
LEMMA MinusExact ==
    ASSUME NEW S \in SUBSET Pkt, NEW P \in SUBSET S,
           Cardinality(S \ P) \in 0..LenMod - 1
    PROVE  Minus(Cardinality(S), Cardinality(P)) = Cardinality(S \ P)
BY Without, ModSmall DEF Minus

\* Every action keeps the lengths of such a station exact.
LEMMA CountedStep ==
    PoolInv /\ PoolInv' /\ SleeperInv /\ NotPolledCounted /\ [Next]_vars
        => NotPolledCounted'
<1> SUFFICES ASSUME PoolInv, PoolInv', SleeperInv, NotPolledCounted, [Next]_vars,
                    NEW s \in Sta, NotPolled(s)'
             PROVE  Exact(s)'
  BY DEF NotPolledCounted, Exact
<1>0. TypeNat /\ FirstInv /\ (NotPolled(s) => Exact(s))
  BY DEF PoolInv, NotPolledCounted, Exact
<1> DEFINE S == Sleeping(s)  D == Delivery(s, Sleeping(s))
<1>s. /\ S \in SUBSET Pkt /\ D \in SUBSET Pkt
      /\ Cardinality(S') \in 0..LenMod - 1 /\ Cardinality(D') \in 0..LenMod - 1
  <2>1. S' \subseteq In("sleep")' /\ D' \subseteq In("sleep")'
    BY DEF Sleeping, Delivery
  <2>2. Cardinality(S') \in 0..LenMod - 1 /\ Cardinality(D') \in 0..LenMod - 1
    BY <2>1, SleepqBound
  <2> QED BY <2>2 DEF Sleeping, Delivery, In
\* A step that changes nothing of this station.
<1>k. ASSUME NotPolled(s), S' = S, D' = D,
             sleepq_len'[s] = sleepq_len[s], sleepq_ac_len'[s] = sleepq_ac_len[s]
      PROVE  Exact(s)'
  BY <1>0, <1>k DEF Exact
<1>1. CASE Awake
  <2>1. S' = S /\ D' = D /\ NotPolled(s)
    BY <1>0, <1>1, AwakeKeeps DEF Sleeping, Delivery, In, NotPolled
  <2> QED BY <1>0, <1>1, <1>k, <2>1, AwakeKeeps
\* One that moves packets into its sleep queue, or out of it.
<1>b. ASSUME NotPolled(s), UNCHANGED uapsd, NEW P \in SUBSET Pkt, P \cap S = {},
             S' = S \cup P, Buffer(s, P)
      PROVE  Exact(s)'
  <2>1. D' = D \cup Delivery(s, P) /\ D \cap Delivery(s, P) = {}
    BY <1>b DEF Delivery
  <2>2. /\ sleepq_len'[s] = Plus(Cardinality(S), Cardinality(P))
        /\ sleepq_ac_len'[s] = Plus(Cardinality(D), Cardinality(Delivery(s, P)))
    BY <1>0, <1>b DEF Buffer, Exact, TypeNat
  <2>3. Delivery(s, P) \in SUBSET Pkt
    BY DEF Delivery
  <2>4. Plus(Cardinality(S), Cardinality(P)) = Cardinality(S')
    BY <1>b, <1>s, PlusExact
  <2>5. Plus(Cardinality(D), Cardinality(Delivery(s, P))) = Cardinality(D')
    BY <1>s, <2>1, <2>3, PlusExact
  <2> QED BY <2>2, <2>4, <2>5 DEF Exact
<1>r. ASSUME NotPolled(s), UNCHANGED uapsd, NEW P \in SUBSET Pkt, P \subseteq S,
             S' = S \ P, Release(s, P, Delivery(s, P))
      PROVE  Exact(s)'
  <2>1. D' = D \ Delivery(s, P) /\ Delivery(s, P) \subseteq D
    BY <1>r DEF Delivery
  <2>2. /\ sleepq_len'[s] = Minus(Cardinality(S), Cardinality(P))
        /\ sleepq_ac_len'[s] = Minus(Cardinality(D), Cardinality(Delivery(s, P)))
    BY <1>0, <1>r DEF Release, Exact, TypeNat
  <2>3. Minus(Cardinality(S), Cardinality(P)) = Cardinality(S')
    BY <1>r, <1>s, MinusExact
  <2>4. Minus(Cardinality(D), Cardinality(Delivery(s, P))) = Cardinality(D')
    BY <1>s, <2>1, MinusExact
  <2> QED BY <2>2, <2>3, <2>4 DEF Exact
<1>2. ASSUME NEW p \in Pkt, EnqueueForSleepingSta(p) PROVE Exact(s)'
  <2>1. NotPolled(s) /\ UNCHANGED uapsd /\ pst' = Move({p}, "sleep") /\ pst[p] = "alloc"
    BY <1>2 DEF EnqueueForSleepingSta, GetsFrame, NotPolled
  <2>2. CASE PktSta[p] # s
    <3>1. S' = S /\ D' = D
      BY <1>0, <2>1, <2>2 DEF Sleeping, Delivery, In, Move, TypeNat
    <3>2. sleepq_len'[s] = sleepq_len[s] /\ sleepq_ac_len'[s] = sleepq_ac_len[s]
      BY <1>0, <1>2, <2>2 DEF EnqueueForSleepingSta, Buffer, TypeNat
    <3> QED BY <1>k, <2>1, <3>1, <3>2
  <2>3. CASE PktSta[p] = s
    <3>1. S' = S \cup {p} /\ {p} \cap S = {}
      BY <1>0, <2>1, <2>3 DEF Sleeping, In, Move, TypeNat
    <3>2. Buffer(s, {p})
      BY <1>2, <2>3 DEF EnqueueForSleepingSta
    <3> QED BY <1>b, <2>1, <3>1, <3>2
  <2> QED BY <2>2, <2>3
<1>3. ASSUME NEW p \in Pkt, PsPoll(p) PROVE Exact(s)'
  <2>1. NotPolled(s) /\ PktSta[p] # s /\ pst' = Move({p}, "queue") /\ UNCHANGED uapsd
    BY <1>3 DEF PsPoll, Release, NotPolled
  <2>2. S' = S /\ D' = D
    BY <1>0, <2>1 DEF Sleeping, Delivery, In, Move, TypeNat
  <2>3. sleepq_len'[s] = sleepq_len[s] /\ sleepq_ac_len'[s] = sleepq_ac_len[s]
    BY <1>0, <1>3, <2>1 DEF PsPoll, Release, TypeNat
  <2> QED BY <1>k, <2>1, <2>2, <2>3
<1>4. ASSUME NEW r \in Sta, NEW u \in UapsdChoices, Associate(r, u) PROVE Exact(s)'
  <2>1. UNCHANGED <<pst, sleepq_len, sleepq_ac_len>>
    BY <1>4 DEF Associate, txVars, slpVars
  <2>2. CASE r # s
    <3>1. NotPolled(s) /\ S' = S /\ D' = D
      BY <1>0, <1>4, <2>1, <2>2 DEF Associate, NotPolled, Sleeping, Delivery, In, TypeNat
    <3> QED BY <1>k, <2>1, <3>1
  <2>3. CASE r = s
    <3>1. sta[s] = "none"
      BY <1>4, <2>3 DEF Associate
    <3>2. S' = {} /\ D' = {}
      BY <2>1, <3>1 DEF SleeperInv, SleepqHasSleeper, Sleeping, Delivery, In
    <3>3. sleepq_len'[s] = 0 /\ sleepq_ac_len'[s] = 0
      BY <2>1, <3>1 DEF SleeperInv, NoneInv
    <3> QED BY <3>2, <3>3, FS_EmptySet DEF Exact
  <2> QED BY <2>2, <2>3
<1>5. ASSUME NEW r \in Sta, FreeStaUnlink(r) \/ PsPollEmpty(r) PROVE Exact(s)'
  <2>1. UNCHANGED <<pst, sleepq_len, sleepq_ac_len, uapsd>> /\ NotPolled(s)
    BY <1>0, <1>5 DEF FreeStaUnlink, PsPollEmpty, txVars, slpVars, NotPolled, TypeNat
  <2>2. S' = S /\ D' = D
    BY <2>1 DEF Sleeping, Delivery, In
  <2> QED BY <1>k, <2>1, <2>2
<1>6. ASSUME NEW r \in Sta, FreeStaFlush(r) PROVE Exact(s)'
  <2>1. r # s /\ NotPolled(s)
    BY <1>0, <1>6 DEF FreeStaFlush, NotPolled, TypeNat
  <2>2. S' = S /\ D' = D
    BY <1>0, <1>6, <2>1 DEF FreeStaFlush, Sleeping, Delivery, In, Move, TypeNat
  <2>3. sleepq_len'[s] = sleepq_len[s] /\ sleepq_ac_len'[s] = sleepq_ac_len[s]
    BY <1>0, <1>6, <2>1 DEF FreeStaFlush, TypeNat
  <2> QED BY <1>k, <2>1, <2>2, <2>3
<1>7. ASSUME NEW r \in Sta, StopStaXmit(r) PROVE Exact(s)'
  <2>1. PICK P \in SUBSET Pkt : P = {p \in In("queue") : PktSta[p] = r}
    BY DEF In
  <2>2. /\ NotPolled(s) /\ UNCHANGED uapsd /\ pst' = Move(P, "sleep")
        /\ Buffer(r, P)
    BY <1>7, <2>1 DEF StopStaXmit, NotPolled
  <2>3. CASE r # s
    <3>1. S' = S /\ D' = D
      BY <1>0, <2>1, <2>2, <2>3 DEF Sleeping, Delivery, In, Move, TypeNat
    <3>2. sleepq_len'[s] = sleepq_len[s] /\ sleepq_ac_len'[s] = sleepq_ac_len[s]
      BY <1>0, <2>2, <2>3 DEF Buffer, TypeNat
    <3> QED BY <1>k, <2>2, <3>1, <3>2
  <2>4. CASE r = s
    <3>1. S' = S \cup P /\ P \cap S = {}
      BY <1>0, <2>1, <2>2, <2>4 DEF Sleeping, In, Move, TypeNat
    <3> QED BY <1>b, <2>2, <2>4, <3>1
  <2> QED BY <2>3, <2>4
<1>8. ASSUME NEW r \in Sta, WakeupStaToXmit(r) \/ DeliverTriggered(r) PROVE Exact(s)'
  <2>1. PICK P \in SUBSET Pkt : /\ P \subseteq Sleeping(r)
                               /\ Release(r, P, Delivery(r, P))
    <3>1. Sleeping(r) \in SUBSET Pkt
      BY DEF Sleeping, In
    <3>2. /\ Delivery(r, Sleeping(r)) \in SUBSET Pkt
          /\ Delivery(r, Sleeping(r)) \subseteq Sleeping(r)
          /\ Delivery(r, Delivery(r, Sleeping(r))) = Delivery(r, Sleeping(r))
      BY <3>1 DEF Delivery
    <3>3. CASE WakeupStaToXmit(r)
      BY <3>1, <3>3 DEF WakeupStaToXmit
    <3>4. CASE DeliverTriggered(r)
      BY <3>2, <3>4 DEF DeliverTriggered
    <3> QED BY <1>8, <3>3, <3>4
  <2>2. NotPolled(s) /\ UNCHANGED uapsd
    BY <1>8 DEF WakeupStaToXmit, DeliverTriggered, NotPolled
  <2>3. CASE r # s
    <3>1. S' = S /\ D' = D
      BY <1>0, <2>1, <2>2, <2>3 DEF Release, Sleeping, Delivery, In, Move, TypeNat
    <3>2. sleepq_len'[s] = sleepq_len[s] /\ sleepq_ac_len'[s] = sleepq_ac_len[s]
      BY <1>0, <2>1, <2>3 DEF Release, TypeNat
    <3> QED BY <1>k, <2>2, <3>1, <3>2
  <2>4. CASE r = s
    <3>1. S' = S \ P
      BY <1>0, <2>1, <2>4 DEF Release, Sleeping, In, Move, TypeNat
    <3> QED BY <1>r, <2>1, <2>2, <2>4, <3>1
  <2> QED BY <2>3, <2>4
<1>9. CASE PsPollClearTim
  <2>1. NotPolled(s) /\ UNCHANGED <<pst, uapsd, sleepq_ac_len>>
    BY <1>9 DEF PsPollClearTim, NotPolled, txVars
  <2>2. rx # s
    BY <1>9, <2>1 DEF PsPollClearTim, SleeperInv, RxInv, NotPolled
  <2>3. sleepq_len'[s] = sleepq_len[s]
    BY <1>0, <1>9, <2>2 DEF PsPollClearTim, TypeNat
  <2>4. S' = S /\ D' = D
    BY <2>1 DEF Sleeping, Delivery, In
  <2> QED BY <1>k, <2>1, <2>3, <2>4
<1> QED
  BY <1>1, <1>2, <1>3, <1>4, <1>5, <1>6, <1>7, <1>8, <1>9, SleepCases

\* For a station that cannot use PS-Poll sleepq_len and sleepq_ac_len are the numbers
\* of frames in its sleep queue, so xmit_delivery_enabled_frames is called when there
\* are frames to deliver.
THEOREM UnpolledAreCounted == Spec => []NotPolledCounted
<1>1. Init => NotPolledCounted
  BY DEF Init, NotPolledCounted, NotPolled
<1>2. PoolInv /\ PoolInv' /\ SleeperInv /\ NotPolledCounted /\ [Next]_vars
        => NotPolledCounted'
  BY CountedStep
<1> QED BY <1>1, <1>2, PoolAlways, SleeperAlways, PTL DEF Spec

-----------------------------------------------------------------------------
(***************************************************************************)
(* Queued frames are not forgotten.                                        *)
(***************************************************************************)
\* One packet of a subqueue at most is inside rtw_xmit_entry.
OneThread ==
    \A p, o \in Pkt :
        pst[p] \in ThreadStates /\ pst[o] \in ThreadStates /\ PktQueue[p] = PktQueue[o]
            => p = o

\* A packet enters only through XmitEntry.
LEMMA ThreadsShrink ==
    ASSUME TypeNat, FirstInv, [Next]_vars, NEW o \in Pkt,
           pst'[o] \in ThreadStates, pst[o] \notin ThreadStates
    PROVE  XmitEntry(o)
<1> USE DEF Move, ThreadStates, TypeNat
<1>1. ASSUME NEW p \in Pkt, XmitEntry(p) PROVE XmitEntry(o)
  BY <1>1 DEF XmitEntry
<1>2. ASSUME NEW p \in Pkt,
             \/ StopSubqueue(p) \/ RtwXmitFail(p) \/ RtwXmit(p)
             \/ EnqueueForSleepingSta(p) \/ PreXmitQueue(p) \/ PreXmitRefused(p)
      PROVE  FALSE
  BY <1>2 DEF StopSubqueue, RtwXmitFail, RtwXmit, EnqueueForSleepingSta, GetsFrame,
     PreXmitQueue, PreXmitRefused, FreeXmitframe, ToStack
<1>3. ASSUME NEW p \in Pkt,
             \/ PreXmitDirect(p) \/ PsPoll(p) \/ TaskletDequeue(p)
             \/ \E sent \in BOOLEAN : XmitDirect(p, sent)
      PROVE  FALSE
  BY <1>3 DEF PreXmitDirect, PsPoll, Release, TaskletDequeue, XmitDirect,
     FreeXmitframe, ToStack
<1>4. CASE TaskletCoalesce
  BY <1>4 DEF TaskletCoalesce, ToStack
<1>5. ASSUME NEW A \in SUBSET Pkt, NEW sent \in BOOLEAN, TaskletAggregate(A, sent)
      PROVE  FALSE
  BY <1>5 DEF TaskletAggregate, ToStack
<1>6. ASSUME NEW s \in Sta,
             \/ FreeStaFlush(s) \/ StopStaXmit(s) \/ WakeupStaToXmit(s)
             \/ DeliverTriggered(s)
      PROVE  FALSE
  BY <1>6 DEF FreeStaFlush, StopStaXmit, WakeupStaToXmit, DeliverTriggered, Release
<1>7. CASE Quiet
  BY <1>7, QuietKeeps
<1> QED BY <1>1, <1>2, <1>3, <1>4, <1>5, <1>6, <1>7, NextCases

\* HARD_TX_LOCK keeps it so.
LEMMA OneThreadStep == TypeNat /\ FirstInv /\ OneThread /\ [Next]_vars => OneThread'
<1> SUFFICES ASSUME TypeNat, FirstInv, OneThread, [Next]_vars,
                    NEW p \in Pkt, NEW o \in Pkt, p # o,
                    pst'[p] \in ThreadStates, pst'[o] \in ThreadStates,
                    PktQueue[p] = PktQueue[o]
             PROVE  FALSE
  BY Zenon DEF OneThread
<1>1. ASSUME NEW x \in Pkt, NEW y \in Pkt, x # y, PktQueue[x] = PktQueue[y],
             XmitEntry(x), pst'[y] \in ThreadStates
      PROVE  FALSE
  BY <1>1 DEF XmitEntry, ThreadIdle, Move, TypeNat
<1>2. pst[p] \in ThreadStates
  BY <1>1, ThreadsShrink
<1>3. pst[o] \in ThreadStates
  BY <1>1, ThreadsShrink
<1> QED BY <1>2, <1>3 DEF OneThread

\* So no more threads hold a buffer than there are other subqueues.
LEMMA FewDirect ==
    ASSUME OneThread, NEW T \in SUBSET Queue,
           \A p \in In("direct") : PktQueue[p] \in T
    PROVE  Cardinality(In("direct")) <= Cardinality(T)
<1>1. IsFiniteSet(T) /\ Cardinality(T) \in Nat
  BY FS_Subset, FS_CardinalityType
<1>2. SUFFICES ASSUME Cardinality(T) < Cardinality(In("direct")) PROVE FALSE
  BY <1>1, DirectFinite
<1> DEFINE f == [p \in In("direct") |-> PktQueue[p]]
<1>3. f \in [In("direct") -> T]
  OBVIOUS
<1>4. \E x, y \in In("direct") : x # y /\ f[x] = f[y]
  <2> HIDE DEF f
  <2> QED BY <1>1, <1>2, <1>3, DirectFinite, FS_PigeonHole
<1> QED BY <1>4 DEF OneThread, In, ThreadStates

\* With more buffers than subqueues a URB is in flight when none is free.
LEMMA BusyMeansUrb ==
    ASSUME PoolInv, OneThread, NrXmitBuf > Cardinality(Queue), free_xmitbuf_cnt = 0,
           tpc \in {"idle", "loop"} \/ \E p \in Pkt : pst[p] = "pre"
    PROVE  urb > 0
<1>0. urb \in Nat /\ urb + Cardinality(In("direct")) + TaskletBuf = NrXmitBuf
  BY DirectFinite DEF PoolInv, BufsAccounted, TypeNat, TaskletBuf
<1>1. CASE tpc \in {"idle", "loop"}
  <2>1. Cardinality(In("direct")) <= Cardinality(Queue)
    BY FewDirect DEF In
  <2>2. Cardinality(Queue) \in Nat /\ TaskletBuf = 0
    BY <1>1, FS_CardinalityType DEF TaskletBuf
  <2> QED BY <1>0, <2>1, <2>2, DirectFinite
<1>2. ASSUME NEW p \in Pkt, pst[p] = "pre" PROVE urb > 0
  <2>1. \A o \in In("direct") : PktQueue[o] \in Queue \ {PktQueue[p]}
    BY <1>2 DEF OneThread, In, ThreadStates
  <2>2. Cardinality(In("direct")) <= Cardinality(Queue \ {PktQueue[p]})
    BY <2>1, FewDirect
  <2>3. Cardinality(Queue \ {PktQueue[p]}) = Cardinality(Queue) - 1
    <3>1. PICK q \in Queue : q = PktQueue[p]
      OBVIOUS
    <3>2. Cardinality(Queue \ {q}) = Cardinality(Queue) - 1
      BY FS_RemoveElement
    <3> QED BY <3>1, <3>2
  <2>4. Cardinality(Queue) \in Nat /\ TaskletBuf \in {0, 1}
    BY FS_CardinalityType DEF TaskletBuf
  <2> QED BY <1>0, <2>2, <2>3, <2>4, DirectFinite
<1> QED BY <1>1, <1>2

-----------------------------------------------------------------------------
\* A packet queued with a stranded one of its station and category.
LEMMA StrandedIs ==
    ASSUME NEW o \in Pkt, stranded \subseteq Pkt
    PROVE  Stranded(o) <=> \E x \in stranded : /\ pst[x] = "queue"
                                              /\ PktSta[x] = PktSta[o]
                                              /\ PktQueue[x] = PktQueue[o]
BY DEF Stranded, Pending, Queued, In

\* The same after a step.
LEMMA StrandedIsNext ==
    ASSUME NEW o \in Pkt, stranded' \subseteq Pkt
    PROVE  Stranded(o)' <=> \E x \in stranded' : /\ pst'[x] = "queue"
                                                /\ PktSta[x] = PktSta[o]
                                                /\ PktQueue[x] = PktQueue[o]
BY DEF Stranded, Pending, Queued, In

\* A step that neither takes what runs the tasklet nor a stranded packet of the
\* station and category of o keeps the promise for o.
LEMMA KickKept ==
    ASSUME TypeNat, TypeNat', KickPending, NEW o \in Pkt, pst[o] = "queue",
           Kick => Kick',
           \A x \in stranded : pst[x] = "queue" /\ PktSta[x] = PktSta[o]
                                => pst'[x] = "queue" /\ x \in stranded'
    PROVE  Kick' \/ Stranded(o)'
<1>1. stranded \subseteq Pkt /\ stranded' \subseteq Pkt
  BY DEF TypeNat
<1>2. CASE Kick
  BY <1>2
<1>3. CASE Stranded(o)
  BY <1>1, <1>3, StrandedIs, StrandedIsNext
<1> QED BY <1>2, <1>3 DEF KickPending, In

\* Every action leaves something that runs the tasklet for a queued frame.
LEMMA KickStep == TypeNat /\ KickPending /\ [Next]_vars => KickPending'
<1> SUFFICES ASSUME TypeNat, KickPending, [Next]_vars, NEW o \in Pkt, pst'[o] = "queue"
             PROVE  Kick' \/ Stranded(o)'
  BY DEF KickPending, In
<1>0. TypeNat'
  BY TypeNatStep
<1>1. ASSUME NEW p \in Pkt,
             \/ XmitEntry(p) \/ StopSubqueue(p) \/ RtwXmitFail(p) \/ RtwXmit(p)
             \/ EnqueueForSleepingSta(p) \/ PreXmitRefused(p) \/ PreXmitDirect(p)
      PROVE  Kick' \/ Stranded(o)'
  <2>1. UNCHANGED <<cannotTx, scan, sched, urb, tpc>>
    BY <1>1 DEF XmitEntry, StopSubqueue, RtwXmitFail, RtwXmit,
       EnqueueForSleepingSta, PreXmitRefused, PreXmitDirect, bufVars, devVars, taskVars
  <2>2. /\ pst[o] = "queue"
        /\ \A x \in stranded : pst[x] = "queue" => pst'[x] = "queue" /\ x \in stranded'
    BY <1>1 DEF XmitEntry, StopSubqueue, RtwXmitFail, RtwXmit, GetsFrame,
       EnqueueForSleepingSta, PreXmitRefused, FreeXmitframe, PreXmitDirect, ToStack,
       Move, devVars, TypeNat
  <2>3. Kick => Kick'
    BY <2>1 DEF Kick
  <2> QED BY <1>0, <2>2, <2>3, KickKept
<1>2. ASSUME NEW p \in Pkt, NEW sent \in BOOLEAN, XmitDirect(p, sent)
      PROVE  Kick' \/ Stranded(o)'
  <2>1. UNCHANGED <<cannotTx, scan, sched, tpc, stranded>> /\ (urb > 0 => urb' > 0)
    BY <1>2 DEF XmitDirect, WritePort, devVars, taskVars, TypeNat
  <2>2. pst[o] = "queue" /\ \A x \in stranded : pst[x] = "queue" => pst'[x] = "queue"
    BY <1>2 DEF XmitDirect, FreeXmitframe, ToStack, Move, TypeNat
  <2>3. Kick => Kick'
    BY <2>1 DEF Kick
  <2> QED BY <1>0, <2>1, <2>2, <2>3, KickKept
<1>3. ASSUME NEW p \in Pkt, PreXmitQueue(p) PROVE Kick' \/ Stranded(o)'
  <2>1. /\ UNCHANGED <<cannotTx, scan, sched, urb, tpc>>
        /\ stranded \subseteq stranded'
        /\ \A x \in Pkt : pst'[x] = IF x = p THEN "queue" ELSE pst[x]
    BY <1>3 DEF PreXmitQueue, bufVars, devVars, taskVars, Move
  <2>2. Kick => Kick'
    BY <2>1 DEF Kick
  <2>3. ASSUME NEW y \in Pkt, pst[y] = "queue" PROVE Kick' \/ Stranded(y)'
    BY <1>0, <2>1, <2>2, <2>3, KickKept DEF TypeNat
  <2>4. CASE o # p
    BY <2>1, <2>3, <2>4
  <2>5. CASE o = p
    <3>1. stranded' \subseteq Pkt
      BY <1>0 DEF TypeNat
    <3>2. CASE Pending(PktSta[p], PktQueue[p]) # {}
      <4>1. PICK y \in Pkt : /\ pst[y] = "queue" /\ PktSta[y] = PktSta[p]
                            /\ PktQueue[y] = PktQueue[p]
        BY <3>2 DEF Pending, Queued, In
      <4>2. Kick' \/ Stranded(y)'
        BY <2>3, <4>1
      <4> QED BY <2>5, <3>1, <4>1, <4>2, StrandedIsNext
    <3>3. CASE scan = "on"
      BY <2>1, <3>3 DEF Kick
    <3>4. CASE free_xmitbuf_cnt = 0
      <4>1. CASE urb > 0
        BY <2>1, <4>1 DEF Kick
      <4>2. CASE urb = 0
        <5>1. p \in stranded'
          BY <1>3, <3>4, <4>2 DEF PreXmitQueue, AllBufsHeld
        <5> QED BY <2>1, <2>5, <3>1, <5>1, StrandedIsNext
      <4> QED BY <4>1, <4>2 DEF TypeNat
    <3> QED BY <1>3, <3>2, <3>3, <3>4 DEF PreXmitQueue, MustQueue
  <2> QED BY <2>4, <2>5
<1>4. ASSUME NEW p \in Pkt, PsPoll(p) PROVE Kick' \/ Stranded(o)'
  BY <1>4 DEF PsPoll, Release, Kick
<1>5. ASSUME NEW p \in Pkt, TaskletDequeue(p) PROVE Kick' \/ Stranded(o)'
  BY <1>5 DEF TaskletDequeue, Kick
<1>6. CASE TaskletCoalesce
  BY <1>6 DEF TaskletCoalesce, Kick
<1>7. ASSUME NEW A \in SUBSET Pkt, NEW sent \in BOOLEAN, TaskletAggregate(A, sent)
      PROVE  Kick' \/ Stranded(o)'
  BY <1>7 DEF TaskletAggregate, Kick
<1>8. ASSUME NEW s \in Sta, FreeStaFlush(s) \/ StopStaXmit(s)
      PROVE  Kick' \/ Stranded(o)'
  <2>1. UNCHANGED <<cannotTx, scan, sched, urb, tpc, stranded>>
    BY <1>8 DEF FreeStaFlush, StopStaXmit, bufVars, devVars, taskVars
  <2>2. /\ pst[o] = "queue"
        /\ \A x \in Pkt : pst[x] = "queue" /\ PktSta[x] = PktSta[o] => pst'[x] = "queue"
    BY <1>8 DEF FreeStaFlush, StopStaXmit, Move, In, TypeNat
  <2>3. Kick => Kick'
    BY <2>1 DEF Kick
  <2> QED BY <1>0, <2>1, <2>2, <2>3, KickKept DEF TypeNat
<1>9. ASSUME NEW s \in Sta, WakeupStaToXmit(s) \/ DeliverTriggered(s)
      PROVE  Kick' \/ Stranded(o)'
  <2>1. PICK P \in SUBSET Pkt :
           pst' = Move(P, "queue") /\ sched' = (sched \/ P # {})
    <3>1. Sleeping(s) \in SUBSET Pkt /\ Delivery(s, Sleeping(s)) \in SUBSET Pkt
      BY DEF Sleeping, Delivery, In
    <3> QED BY <1>9, <3>1, Zenon DEF WakeupStaToXmit, DeliverTriggered, Release
  <2>2. UNCHANGED <<cannotTx, scan, urb, tpc, stranded>>
    BY <1>9 DEF WakeupStaToXmit, DeliverTriggered, bufVars, devVars
  <2>3. CASE P # {}
    BY <2>1, <2>3 DEF Kick
  <2>4. CASE P = {}
    <3>1. \A x \in Pkt : pst'[x] = pst[x]
      BY <2>1, <2>4 DEF Move, TypeNat
    <3>2. Kick => Kick'
      BY <2>1, <2>2 DEF Kick
    <3> QED BY <1>0, <2>2, <3>1, <3>2, KickKept DEF TypeNat
  <2> QED BY <2>3, <2>4
<1>10. CASE Quiet
  <2>0. pst' = pst
    BY <1>10, QuietKeeps
  <2>1. CASE TaskletStart \/ TaskletAllocBuf
    BY <2>1 DEF TaskletStart, TaskletAllocBuf, Kick
  <2>2. CASE TaskletNoFrame
    BY <2>0, <2>2 DEF TaskletNoFrame, In
  <2>3. CASE TaskletEnd
    <3>1. CASE cannotTx \/ scan = "on"
      BY <2>3, <3>1 DEF TaskletEnd, Kick
    <3>2. CASE free_xmitbuf_cnt = 0 /\ urb > 0
      BY <2>3, <3>2 DEF TaskletEnd, Kick, bufVars
    <3>3. CASE free_xmitbuf_cnt = 0 /\ urb = 0
      <4>1. o \in stranded' /\ stranded' \subseteq Pkt
        BY <1>0, <2>0, <2>3, <3>3 DEF TaskletEnd, AllBufsHeld, In, TypeNat
      <4> QED BY <4>1, StrandedIsNext
    <3> QED BY <2>3, <3>1, <3>2, <3>3 DEF TaskletEnd, TypeNat
  <2>4. CASE TaskletFreeBuf \/ QuietDevice \/ QuietSta \/ UNCHANGED vars
    <3>1. stranded' = stranded
      BY <2>4 DEF TaskletFreeBuf, QuietDevice, WritePortComplete, ScanStart, ScanEnd,
         ScanDone, SurpriseRemoved, QuietSta, Associate, FreeStaUnlink, PsPollEmpty,
         PsPollClearTim, vars, devVars
    <3>2. pst[o] = "queue"
      BY <2>0
    <3>3. CASE TaskletFreeBuf
      BY <3>3, <1>0, <2>0, <3>1, <3>2, KickKept DEF TaskletFreeBuf, Kick, devVars
    <3>4. CASE QuietDevice
      <4>1. Kick => Kick'
        BY <2>0, <3>2, <3>4 DEF QuietDevice, WritePortComplete, ScanStart, ScanEnd,
           ScanDone, SurpriseRemoved, bufVars, taskVars, In, Kick
      <4> QED BY <1>0, <2>0, <3>1, <3>2, <4>1, KickKept
    <3>5. CASE QuietSta
      <4>1. Kick => Kick'
        BY <3>5 DEF QuietSta, Associate, FreeStaUnlink, PsPollEmpty,
           PsPollClearTim, bufVars, devVars, taskVars, Kick
      <4> QED BY <1>0, <2>0, <3>1, <3>2, <4>1, KickKept
    <3>6. CASE UNCHANGED vars
      <4>1. Kick => Kick'
        BY <3>6 DEF vars, bufVars, devVars, taskVars, Kick
      <4> QED BY <1>0, <2>0, <3>1, <3>2, <4>1, KickKept
    <3> QED BY <2>4, <3>3, <3>4, <3>5, <3>6
  <2> QED BY <1>10, <2>1, <2>2, <2>3, <2>4 DEF Quiet, QuietTasklet
<1> QED
  BY <1>1, <1>2, <1>3, <1>4, <1>5, <1>6, <1>7, <1>8, <1>9, <1>10, NextCases

\* pre_xmitframe queues a frame without scheduling the tasklet, yet a survey, a URB
\* in flight or the tasklet itself will take it, for every number of buffers and
\* subqueues, unless a frame of its station and category met every buffer in the
\* hands of some thread and the tasklet has not started since.
THEOREM QueuedIsKicked == Spec => []KickPending
<1>1. Init => KickPending
  BY DEF Init, KickPending, In
<1>2. PoolInv /\ KickPending /\ [Next]_vars => KickPending'
  BY KickStep DEF PoolInv
<1> QED BY <1>1, <1>2, PoolAlways, PTL DEF Spec

\* With more transmit buffers than subqueues the exception never arises: each
\* subqueue has one call inside the driver at most, so that a URB is in flight when
\* no buffer is free.
THEOREM NoneStranded ==
    ASSUME NrXmitBuf > Cardinality(Queue)
    PROVE  Spec => [](stranded = {})
<1>1. Init => OneThread /\ stranded = {}
  <2> SUFFICES ASSUME Init PROVE OneThread /\ stranded = {}
    OBVIOUS
  <2>1. \A p \in Pkt : pst[p] = "stack"
    BY DEF Init
  <2> QED BY <2>1 DEF OneThread, ThreadStates, Init
<1>2. PoolInv /\ OneThread /\ [Next]_vars => OneThread'
  BY OneThreadStep DEF PoolInv
<1>3. PoolInv /\ OneThread /\ stranded = {} /\ [Next]_vars => (stranded = {})'
  <2> SUFFICES ASSUME PoolInv, OneThread, stranded = {}, [Next]_vars PROVE stranded' = {}
    OBVIOUS
  <2>1. ASSUME NEW p \in Pkt, PreXmitQueue(p) PROVE stranded' = {}
    BY <2>1, BusyMeansUrb DEF PreXmitQueue, AllBufsHeld
  <2>2. CASE TaskletEnd
    BY <2>2, BusyMeansUrb DEF TaskletEnd, AllBufsHeld
  <2>3. ASSUME NEW p \in Pkt,
               \/ XmitEntry(p) \/ StopSubqueue(p) \/ RtwXmitFail(p) \/ RtwXmit(p)
               \/ EnqueueForSleepingSta(p) \/ PreXmitRefused(p) \/ PreXmitDirect(p)
               \/ \E sent \in BOOLEAN : XmitDirect(p, sent)
               \/ PsPoll(p) \/ TaskletDequeue(p)
        PROVE  stranded' = {}
    BY <2>3 DEF XmitEntry, StopSubqueue, RtwXmitFail, RtwXmit, EnqueueForSleepingSta,
       PreXmitRefused, PreXmitDirect, XmitDirect, PsPoll, TaskletDequeue, devVars
  <2>4. CASE \/ TaskletCoalesce
             \/ \E A \in SUBSET Pkt, sent \in BOOLEAN : TaskletAggregate(A, sent)
    BY <2>4 DEF TaskletCoalesce, TaskletAggregate, devVars
  <2>5. CASE \E s \in Sta : \/ FreeStaFlush(s) \/ StopStaXmit(s)
                            \/ WakeupStaToXmit(s) \/ DeliverTriggered(s)
    BY <2>5 DEF FreeStaFlush, StopStaXmit, WakeupStaToXmit, DeliverTriggered, devVars
  <2>6. CASE \/ TaskletStart \/ TaskletAllocBuf \/ TaskletNoFrame \/ TaskletFreeBuf
             \/ QuietDevice \/ QuietSta \/ UNCHANGED vars
    BY <2>6 DEF TaskletStart, TaskletAllocBuf, TaskletNoFrame, TaskletFreeBuf,
       QuietDevice, WritePortComplete, ScanStart, ScanEnd, ScanDone, SurpriseRemoved,
       QuietSta, Associate, FreeStaUnlink, PsPollEmpty, PsPollClearTim, vars, devVars
  <2> QED BY <2>1, <2>2, <2>3, <2>4, <2>5, <2>6, NextCases DEF Quiet, QuietTasklet
<1> QED BY <1>1, <1>2, <1>3, PoolAlways, PTL DEF Spec
=============================================================================
