--------------------------- MODULE CmdThreadProofs ---------------------------
(***************************************************************************)
(* Proofs about CmdThread, for any set of commands and any number of times *)
(* the interface is opened.                                                *)
(***************************************************************************)
EXTENDS CmdThread, SequenceTheorems, TLAPS

\* The caller has not returned: the submit_ctx on its stack is alive.
InCall(c) == pc[c] \in {"insert", "up", "waiting", "woken"}

\* A command points to a submit_ctx only while its caller is in the call and its
\* status is still "submitted"; and a caller that waits is pointed to until then.
SctxAlive ==
    \A c \in Cmds : /\ sctx[c] => c \in WaitCmds /\ InCall(c) /\ status[c] = "submitted"
                    /\ c \in WaitCmds /\ InCall(c) /\ status[c] = "submitted" => sctx[c]

\* Only callers that asked for an answer wait.
OnlyWaitersWait == \A c \in Cmds : pc[c] \in {"waiting", "woken"} => c \in WaitCmds

\* The queue holds commands that were submitted.
QueueSubmitted == \A i \in 1 .. Len(cmd_queue) : pc[cmd_queue[i]] # "new"

\* The thread has such a command from the dequeue to the free.
ThreadHasCmd ==
    kpc \in {"run", "post", "dropped", "free"} => kcur \in Cmds /\ pc[kcur] # "new"

\* A command about to be freed is not pointed to any more.
FreeIsAnswered == kpc = "free" => ~sctx[kcur]

\* No object that is gone, other than by the drain, is still waited for.
ObjectKept == \A c \in Cmds : InCall(c) => obj[c] # "none"
                               /\ (obj[c] = "freed" => ~sctx[c])

IndInv == /\ TypeOK /\ SctxAlive /\ OnlyWaitersWait /\ QueueSubmitted /\ ThreadHasCmd
          /\ FreeIsAnswered /\ ObjectKept

-----------------------------------------------------------------------------
\* The initial state of the driver satisfies the inductive invariant.
LEMMA InitInv == Init => IndInv
<1> SUFFICES ASSUME Init PROVE IndInv
  OBVIOUS
<1>1. TypeOK
  <2>1. cmd_queue \in Seq(Cmds) /\ cmd_queue_sema \in Nat /\ terminate_sema \in Nat
        /\ opens \in Nat
    BY DEF Init
  <2>2. /\ pc \in [Cmds -> {"new", "insert", "up", "waiting", "woken", "returned"}]
        /\ obj \in [Cmds -> {"none", "live", "freed", "drained"}]
        /\ sctx \in [Cmds -> BOOLEAN]
        /\ status \in [Cmds -> {"none", "submitted", "success", "error"}]
    BY Zenon DEF Init
  <2> QED
    BY <2>1, <2>2, Zenon DEF Init, TypeOK
<1>2. SctxAlive /\ OnlyWaitersWait /\ QueueSubmitted /\ ThreadHasCmd
           /\ FreeIsAnswered /\ ObjectKept
  BY CmdAssumption DEF Init, SctxAlive, OnlyWaitersWait, QueueSubmitted, ThreadHasCmd,
     FreeIsAnswered,
     ObjectKept, InCall
<1> QED
  BY <1>1, <1>2 DEF IndInv

\* Every step of the submitters, the thread and the interface keeps the types: no
\* semaphore is taken that was not given, and the queue holds commands only.
LEMMA TypeStep == TypeOK /\ [Next]_vars => TypeOK'
<1> SUFFICES ASSUME TypeOK, [Next]_vars PROVE TypeOK'
  OBVIOUS
<1> USE CmdAssumption
<1>1. ASSUME NEW c \in Cmds, PStep(c) PROVE TypeOK'
  <2>1. CASE Submit(c)
    <3>1. sctx' \in [Cmds -> BOOLEAN]
      <4>1. sctx \in [Cmds -> BOOLEAN] /\ (c \in WaitCmds) \in BOOLEAN
        BY DEF TypeOK
      <4>2. \/ sctx' = [sctx EXCEPT ![c] = c \in WaitCmds]
            \/ sctx' = sctx
        BY <2>1, Zenon DEF Submit
      <4> QED
        BY <4>1, <4>2, Zenon
    <3>2. status' \in [Cmds -> {"none", "submitted", "success", "error"}]
      BY <2>1 DEF Submit, TypeOK
    <3>3. pc' \in [Cmds -> {"new", "insert", "up", "waiting", "woken", "returned"}]
      BY <2>1 DEF Submit, TypeOK
    <3>4. obj' \in [Cmds -> {"none", "live", "freed", "drained"}]
      BY <2>1 DEF Submit, TypeOK
    <3> QED
      BY <2>1, <3>1, <3>2, <3>3, <3>4
      DEF Submit, TypeOK, qVars, thrVars, kVars, envVars, lVars
  <2>2. CASE Insert(c)
    <3>1. Append(cmd_queue, c) \in Seq(Cmds)
      BY <1>1 DEF TypeOK
    <3> QED
      BY <2>2, <3>1 DEF Insert, TypeOK, qVars, thrVars, kVars, objVars, envVars, lVars
  <2>3. CASE WakeThread(c)
    BY <2>3 DEF WakeThread, TypeOK, qVars, thrVars, kVars, objVars, envVars, lVars
  <2>4. CASE WaitEnds(c)
    BY <2>4 DEF WaitEnds, TypeOK, qVars, thrVars, kVars, objVars, envVars, lVars
  <2>5. CASE CutLoose(c)
    BY <2>5 DEF CutLoose, TypeOK, qVars, thrVars, kVars, objVars, envVars, lVars
  <2> QED
    BY <1>1, <2>1, <2>2, <2>3, <2>4, <2>5 DEF PStep
<1>2. CASE ThreadBoot
  <2>1. terminate_sema' \in Nat
    BY <1>2 DEF TypeOK, ThreadBoot
  <2> QED
    BY <1>2, <2>1, Zenon DEF ThreadBoot, TypeOK, qVars, thrVars, kVars, objVars,
       envVars, lVars
<1>3. CASE ThreadWakes
  BY <1>3 DEF ThreadWakes, TypeOK, qVars, thrVars, kVars, objVars, envVars, lVars
<1>4. CASE ThreadCheck
  BY <1>4 DEF ThreadCheck, TypeOK, qVars, thrVars, kVars, objVars, envVars, lVars
<1>5. CASE ThreadNextEnds
  BY <1>5 DEF ThreadNextEnds, TypeOK, qVars, thrVars, kVars, objVars, envVars, lVars
<1>6. CASE ThreadDequeue
  <2>1. Head(cmd_queue) \in Cmds /\ Tail(cmd_queue) \in Seq(Cmds)
    BY <1>6 DEF TypeOK, ThreadDequeue
  <2> QED
    BY <1>6, <2>1 DEF TypeOK, ThreadDequeue, qVars, thrVars, kVars, objVars, envVars,
       lVars
<1>7. CASE ThreadRun("success")
  BY <1>7 DEF ThreadRun, TypeOK, qVars, thrVars, kVars, objVars, envVars, lVars
<1>8. CASE ThreadRun("error")
  BY <1>8 DEF ThreadRun, TypeOK, qVars, thrVars, kVars, objVars, envVars, lVars
<1>9. CASE ThreadComplete
  BY <1>9 DEF ThreadComplete, TypeOK, qVars, thrVars, kVars, objVars, envVars, lVars
<1>10. CASE ThreadFree
  BY <1>10 DEF ThreadFree, TypeOK, qVars, thrVars, kVars, objVars, envVars, lVars
<1>11. CASE ThreadExit
  BY <1>11 DEF ThreadExit, TypeOK, qVars, thrVars, kVars, objVars, envVars, lVars
<1>12. CASE ThreadDrain
  <2>1. Head(cmd_queue) \in Cmds /\ Tail(cmd_queue) \in Seq(Cmds)
    BY <1>12 DEF TypeOK, ThreadDrain
  <2> QED
    BY <1>12, <2>1 DEF TypeOK, ThreadDrain, qVars, thrVars, kVars, objVars, envVars, lVars
<1>13. CASE ThreadGone
  BY <1>13 DEF ThreadGone, TypeOK, qVars, thrVars, kVars, objVars, envVars, lVars
<1>14. CASE Open
  <2>1. opens' \in Nat
    BY <1>14 DEF TypeOK, Open
  <2> QED
    BY <1>14, <2>1, Zenon DEF Open, TypeOK, qVars, thrVars, kVars, objVars, envVars, lVars
<1>15. CASE Opened
  BY <1>15 DEF Opened, TypeOK, qVars, thrVars, kVars, objVars, envVars, lVars
<1>16. CASE Suspend
  BY <1>16 DEF Suspend, TypeOK, qVars, thrVars, kVars, objVars, envVars, lVars
<1>17. CASE Remove
  BY <1>17 DEF Remove, TypeOK, qVars, thrVars, kVars, objVars, envVars, lVars
<1>18. CASE StopAsk
  BY <1>18 DEF StopAsk, StopWaits, TypeOK, qVars, thrVars, kVars, objVars, envVars, lVars
<1>19. CASE StopSkip
  BY <1>19 DEF StopSkip, StopWaits, StopEnds, TypeOK, qVars, thrVars, kVars, objVars,
     envVars, lVars
<1>20. CASE StopDone
  BY <1>20 DEF StopDone, StopEnds, TypeOK, qVars, thrVars, kVars, objVars, envVars, lVars
<1>21. CASE Unload
  BY <1>21 DEF Unload, TypeOK, qVars, thrVars, kVars, objVars, envVars, lVars
<1>22. CASE HalDeinit
  BY <1>22 DEF HalDeinit, TypeOK, qVars, thrVars, kVars, objVars, envVars, lVars
<1>23. CASE UsbError
  BY <1>23 DEF UsbError, TypeOK, qVars, thrVars, kVars, objVars, envVars, lVars
<1>24. CASE IpsToggle
  BY <1>24 DEF IpsToggle, TypeOK, qVars, thrVars, kVars, objVars, envVars, lVars
<1>25. CASE ThreadInterrupted
  BY <1>25 DEF ThreadInterrupted, TypeOK, qVars, thrVars, kVars, objVars, envVars, lVars
<1>26. CASE UNCHANGED vars
  BY <1>26 DEF vars, TypeOK, qVars, thrVars, kVars, objVars, envVars, lVars
<1> QED
  BY <1>1, <1>2, <1>3, <1>4, <1>5, <1>6, <1>7, <1>8, <1>9, <1>10, <1>11, <1>12,
     <1>13, <1>14, <1>15, <1>16, <1>17, <1>18, <1>19, <1>20, <1>21, <1>22,
     <1>23, <1>24, <1>25, <1>26 DEF Next, KStep, LStep, Env

\* What ties the submit_ctx, the status and the object together.
Waiters == SctxAlive /\ OnlyWaitersWait /\ QueueSubmitted /\ ThreadHasCmd
           /\ FreeIsAnswered /\ ObjectKept

\* Every step keeps the ties between command objects and their submit_ctx.
LEMMA WaiterStep == IndInv /\ [Next]_vars => Waiters'
<1> SUFFICES ASSUME TypeOK, Waiters, [Next]_vars PROVE Waiters'
  BY DEF IndInv, Waiters
<1> USE CmdAssumption
<1>1. ASSUME NEW c \in Cmds, PStep(c) PROVE Waiters'
  <2>1. CASE Submit(c)
    <3>1. \A d \in Cmds \ {c} : sctx'[d] = sctx[d] /\ status'[d] = status[d]
                                  /\ obj'[d] = obj[d] /\ pc'[d] = pc[d]
      BY <2>1 DEF Submit, TypeOK
    <3>2. kcur' = kcur /\ kpc' = kpc /\ cmd_queue' = cmd_queue
      BY <2>1 DEF Submit, qVars, kVars
    <3>3. ~sctx[c]
      BY <2>1 DEF Submit, Waiters, SctxAlive, InCall
    <3>4. CASE Allowed(c)
      <4>1. sctx'[c] <=> c \in WaitCmds
        BY <2>1, <3>4 DEF Submit, TypeOK
      <4>2. pc'[c] = "insert" /\ obj'[c] = "live" /\ status'[c] = "submitted"
        BY <2>1, <3>4 DEF Submit, TypeOK
      <4> QED
        BY <2>1, <3>1, <3>2, <4>1, <4>2
        DEF Submit, Waiters, TypeOK, SctxAlive, OnlyWaitersWait, QueueSubmitted,
           ThreadHasCmd, FreeIsAnswered, ObjectKept, InCall
    <3>5. CASE ~Allowed(c)
      <4>1. pc'[c] = "returned" /\ sctx' = sctx /\ status' = status
        BY <2>1, <3>5 DEF Submit, TypeOK
      <4> QED
        BY <2>1, <3>1, <3>2, <3>3, <4>1 DEF Submit, Waiters, TypeOK, SctxAlive,
           OnlyWaitersWait, QueueSubmitted, ThreadHasCmd, FreeIsAnswered, ObjectKept,
           InCall
    <3> QED
      BY <3>4, <3>5
  <2>2. CASE Insert(c)
    BY <2>2 DEF Insert, Waiters, TypeOK, SctxAlive, OnlyWaitersWait, QueueSubmitted,
       ThreadHasCmd, FreeIsAnswered, ObjectKept, InCall, qVars, thrVars, kVars,
       objVars, envVars, lVars
  <2>3. CASE WakeThread(c)
    BY <2>3 DEF WakeThread, Waiters, TypeOK, SctxAlive, OnlyWaitersWait,
       QueueSubmitted, ThreadHasCmd, FreeIsAnswered, ObjectKept, InCall, qVars,
       thrVars, kVars, objVars, envVars, lVars
  <2>4. CASE WaitEnds(c)
    BY <2>4 DEF WaitEnds, Waiters, TypeOK, SctxAlive, OnlyWaitersWait, QueueSubmitted,
       ThreadHasCmd, FreeIsAnswered, ObjectKept, InCall, qVars, thrVars, kVars,
       objVars, envVars, lVars
  <2>5. CASE CutLoose(c)
    <3>1. sctx[c] => status[c] = "submitted"
      BY DEF Waiters, SctxAlive
    <3>2. ~sctx'[c]
      BY <2>5, <3>1 DEF CutLoose, TypeOK
    <3>3. pc'[c] = "returned"
      BY <2>5 DEF CutLoose, TypeOK
    <3>4. \A d \in Cmds \ {c} : sctx'[d] = sctx[d] /\ pc'[d] = pc[d]
      BY <2>5 DEF CutLoose, TypeOK
    <3>5. kcur' = kcur /\ kpc' = kpc /\ cmd_queue' = cmd_queue /\ obj' = obj
          /\ status' = status
      BY <2>5 DEF CutLoose, qVars, kVars
    <3> QED
      BY <3>2, <3>3, <3>4, <3>5 DEF Waiters, TypeOK, SctxAlive, OnlyWaitersWait,
         QueueSubmitted, ThreadHasCmd, FreeIsAnswered, ObjectKept, InCall
  <2> QED
    BY <1>1, <2>1, <2>2, <2>3, <2>4, <2>5 DEF PStep
<1>2. CASE ThreadBoot
  BY <1>2 DEF ThreadBoot, Waiters, TypeOK, SctxAlive, OnlyWaitersWait, QueueSubmitted,
     ThreadHasCmd, FreeIsAnswered, ObjectKept, InCall, qVars, thrVars, kVars, objVars,
     envVars, lVars
<1>3. CASE ThreadWakes
  BY <1>3 DEF ThreadWakes, Waiters, TypeOK, SctxAlive, OnlyWaitersWait,
     QueueSubmitted, ThreadHasCmd, FreeIsAnswered, ObjectKept, InCall, qVars, thrVars,
     kVars, objVars, envVars, lVars
<1>4. CASE ThreadCheck
  BY <1>4 DEF ThreadCheck, Waiters, TypeOK, SctxAlive, OnlyWaitersWait,
     QueueSubmitted, ThreadHasCmd, FreeIsAnswered, ObjectKept, InCall, qVars, thrVars,
     kVars, objVars, envVars, lVars
<1>5. CASE ThreadNextEnds
  BY <1>5 DEF ThreadNextEnds, Waiters, TypeOK, SctxAlive, OnlyWaitersWait,
     QueueSubmitted, ThreadHasCmd, FreeIsAnswered, ObjectKept, InCall, qVars, thrVars,
     kVars, objVars, envVars, lVars
<1>6. CASE ThreadDequeue
  <2>1. Head(cmd_queue) \in Cmds
    BY <1>6 DEF TypeOK, ThreadDequeue
  <2> QED
    BY <1>6, <2>1 DEF ThreadDequeue, Waiters, TypeOK, SctxAlive, OnlyWaitersWait,
       QueueSubmitted, ThreadHasCmd, FreeIsAnswered, ObjectKept, InCall,
       qVars, thrVars, kVars, objVars, envVars, lVars
<1>7. CASE ThreadRun("success")
  BY <1>7 DEF ThreadRun, Waiters, TypeOK, SctxAlive, OnlyWaitersWait, QueueSubmitted,
     ThreadHasCmd, FreeIsAnswered, ObjectKept, InCall, qVars, thrVars, kVars, objVars,
     envVars, lVars
<1>8. CASE ThreadRun("error")
  BY <1>8 DEF ThreadRun, Waiters, TypeOK, SctxAlive, OnlyWaitersWait, QueueSubmitted,
     ThreadHasCmd, FreeIsAnswered, ObjectKept, InCall, qVars, thrVars, kVars, objVars,
     envVars, lVars
<1>9. CASE ThreadComplete
  BY <1>9 DEF ThreadComplete, Waiters, TypeOK, SctxAlive, OnlyWaitersWait,
     QueueSubmitted, ThreadHasCmd, FreeIsAnswered, ObjectKept, InCall, qVars, thrVars,
     kVars, objVars, envVars, lVars
<1>10. CASE ThreadFree
  BY <1>10 DEF ThreadFree, Waiters, TypeOK, SctxAlive, OnlyWaitersWait,
     QueueSubmitted, ThreadHasCmd, FreeIsAnswered, ObjectKept, InCall, qVars, thrVars,
     kVars, objVars, envVars, lVars
<1>11. CASE ThreadExit
  BY <1>11 DEF ThreadExit, Waiters, TypeOK, SctxAlive, OnlyWaitersWait,
     QueueSubmitted, ThreadHasCmd, FreeIsAnswered, ObjectKept, InCall, qVars, thrVars,
     kVars, objVars, envVars, lVars
<1>12. CASE ThreadDrain
  BY <1>12 DEF ThreadDrain, Waiters, TypeOK, SctxAlive, OnlyWaitersWait,
     QueueSubmitted, ThreadHasCmd, FreeIsAnswered, ObjectKept, InCall, qVars, thrVars,
     kVars, objVars, envVars, lVars
<1>13. CASE ThreadGone
  BY <1>13 DEF ThreadGone, Waiters, TypeOK, SctxAlive, OnlyWaitersWait,
     QueueSubmitted, ThreadHasCmd, FreeIsAnswered, ObjectKept, InCall, qVars, thrVars,
     kVars, objVars, envVars, lVars
<1>14. CASE Open
  BY <1>14 DEF Open, Waiters, TypeOK, SctxAlive, OnlyWaitersWait, QueueSubmitted,
     ThreadHasCmd, FreeIsAnswered, ObjectKept, InCall, qVars, thrVars, kVars, objVars,
     envVars, lVars
<1>15. CASE Opened
  BY <1>15 DEF Opened, Waiters, TypeOK, SctxAlive, OnlyWaitersWait, QueueSubmitted,
     ThreadHasCmd, FreeIsAnswered, ObjectKept, InCall, qVars, thrVars, kVars, objVars,
     envVars, lVars
<1>16. CASE Suspend
  BY <1>16 DEF Suspend, Waiters, TypeOK, SctxAlive, OnlyWaitersWait, QueueSubmitted,
     ThreadHasCmd, FreeIsAnswered, ObjectKept, InCall, qVars, thrVars, kVars, objVars,
     envVars, lVars
<1>17. CASE Remove
  BY <1>17 DEF Remove, Waiters, TypeOK, SctxAlive, OnlyWaitersWait, QueueSubmitted,
     ThreadHasCmd, FreeIsAnswered, ObjectKept, InCall, qVars, thrVars, kVars, objVars,
     envVars, lVars
<1>18. CASE StopAsk
  BY <1>18 DEF StopAsk, Waiters, TypeOK, SctxAlive, OnlyWaitersWait, QueueSubmitted,
     ThreadHasCmd, FreeIsAnswered, ObjectKept, InCall, qVars, thrVars, kVars, objVars,
     envVars, lVars
<1>19. CASE StopSkip
  BY <1>19 DEF StopSkip, Waiters, TypeOK, SctxAlive, OnlyWaitersWait, QueueSubmitted,
     ThreadHasCmd, FreeIsAnswered, ObjectKept, InCall, qVars, thrVars, kVars, objVars,
     envVars, lVars
<1>20. CASE StopDone
  BY <1>20 DEF StopDone, Waiters, TypeOK, SctxAlive, OnlyWaitersWait, QueueSubmitted,
     ThreadHasCmd, FreeIsAnswered, ObjectKept, InCall, qVars, thrVars, kVars, objVars,
     envVars, lVars
<1>21. CASE Unload
  BY <1>21 DEF Unload, Waiters, TypeOK, SctxAlive, OnlyWaitersWait, QueueSubmitted,
     ThreadHasCmd, FreeIsAnswered, ObjectKept, InCall, qVars, thrVars, kVars, objVars,
     envVars, lVars
<1>22. CASE HalDeinit
  BY <1>22 DEF HalDeinit, Waiters, TypeOK, SctxAlive, OnlyWaitersWait, QueueSubmitted,
     ThreadHasCmd, FreeIsAnswered, ObjectKept, InCall, qVars, thrVars, kVars, objVars,
     envVars, lVars
<1>23. CASE UsbError
  BY <1>23 DEF UsbError, Waiters, TypeOK, SctxAlive, OnlyWaitersWait, QueueSubmitted,
     ThreadHasCmd, FreeIsAnswered, ObjectKept, InCall, qVars, thrVars, kVars, objVars,
     envVars, lVars
<1>24. CASE IpsToggle
  BY <1>24 DEF IpsToggle, Waiters, TypeOK, SctxAlive, OnlyWaitersWait, QueueSubmitted,
     ThreadHasCmd, FreeIsAnswered, ObjectKept, InCall, qVars, thrVars, kVars, objVars,
     envVars, lVars
<1>25. CASE ThreadInterrupted
  BY <1>25 DEF ThreadInterrupted, Waiters, TypeOK, SctxAlive, OnlyWaitersWait,
     QueueSubmitted, ThreadHasCmd, FreeIsAnswered, ObjectKept, InCall, qVars, thrVars,
     kVars, objVars, envVars, lVars
<1>26. CASE UNCHANGED vars
  BY <1>26 DEF vars, Waiters, TypeOK, SctxAlive, OnlyWaitersWait, QueueSubmitted,
     ThreadHasCmd, FreeIsAnswered, ObjectKept, InCall, qVars, thrVars, kVars, objVars,
     envVars, lVars
<1> QED
  BY <1>1, <1>2, <1>3, <1>4, <1>5, <1>6, <1>7, <1>8, <1>9, <1>10, <1>11, <1>12,
     <1>13, <1>14, <1>15, <1>16, <1>17, <1>18, <1>19, <1>20, <1>21, <1>22,
     <1>23, <1>24, <1>25, <1>26 DEF Next, KStep, LStep, Env

-----------------------------------------------------------------------------
\* The inductive invariant holds of every behaviour.
LEMMA InvHolds == Spec => []IndInv
<1>1. IndInv /\ [Next]_vars => IndInv'
  BY TypeStep, WaiterStep DEF IndInv, Waiters
<1> QED
  BY InitInv, <1>1, PTL DEF Spec

\* The state of the command machinery keeps its types for every set of commands.
THEOREM TypeCorrect == Spec => []TypeOK
<1>1. IndInv => TypeOK
  BY DEF IndInv
<1> QED
  BY InvHolds, <1>1, PTL

\* The thread never completes a submit_ctx whose caller has returned.
THEOREM CompletionIsSafe == Spec => []CompletesLiveWaiter
<1>1. IndInv => CompletesLiveWaiter
  BY DEF IndInv, SctxAlive, ThreadHasCmd, InCall, CompletesLiveWaiter
<1> QED
  BY InvHolds, <1>1, PTL

\* A caller whose wait timed out cuts loose an object that is still allocated, or
\* that the drain of an ending thread freed.
THEOREM CutLooseIsSafe == Spec => []WaiterFindsObject
<1>1. IndInv => WaiterFindsObject
  <2> SUFFICES ASSUME IndInv, NEW c \in Cmds, pc[c] = "woken", status[c] = "submitted"
               PROVE  obj[c] \in {"live", "drained"}
    BY DEF WaiterFindsObject
  <2>1. sctx[c]
    BY DEF IndInv, SctxAlive, OnlyWaitersWait, InCall
  <2>2. obj[c] # "none" /\ obj[c] # "freed"
    BY <2>1 DEF IndInv, ObjectKept, InCall
  <2> QED
    BY <2>2 DEF IndInv, TypeOK
<1> QED
  BY InvHolds, <1>1, PTL

-----------------------------------------------------------------------------
(* The handshake of the thread with open and stop, over                     *)
(* terminate_cmdthread_sema.                                                *)

Looping == {"sleep", "check", "next", "run", "post", "dropped", "free"}

\* Without a self-break, the place of the thread, the place of the interface code and
\* the credit of the semaphore go together in one of six ways.
Handshake ==
    ~selfBreak =>
        \/ kpc = "none" /\ lpc = "closed" /\ terminate_sema = 0
        \/ kpc = "boot" /\ lpc = "starting" /\ terminate_sema = 0
        \/ kpc \in Looping /\ cmdthd_running /\ ~stop_req
           /\ \/ lpc = "starting" /\ terminate_sema = 1
              \/ lpc \in {"up", "suspend", "remove"} /\ terminate_sema = 0
        \/ kpc \in Looping \cup {"exit", "drain"} /\ stop_req /\ (kpc = "drain" => ~cmdthd_running)
           /\ lpc \in {"suspendwait", "removewait"} /\ terminate_sema = 0
        \/ kpc = "gone" /\ ~cmdthd_running
           /\ \/ lpc \in {"suspendwait", "removewait"} /\ terminate_sema = 1
              \/ lpc \in {"suspended", "removed", "unload", "rmunload", "unloaded", "off", "closed"}
                 /\ terminate_sema = 0

\* Every step keeps the handshake.
LEMMA HandshakeStep == TypeOK /\ Handshake /\ [Next]_vars => Handshake'
<1> SUFFICES ASSUME TypeOK, Handshake, [Next]_vars PROVE Handshake'
  OBVIOUS
<1>1. ASSUME NEW c \in Cmds, PStep(c) PROVE Handshake'
  <2>1. CASE Submit(c)
    BY <2>1 DEF Submit, Handshake, Looping, TypeOK, qVars, thrVars, kVars, objVars,
       envVars, lVars
  <2>2. CASE Insert(c)
    BY <2>2 DEF Insert, Handshake, Looping, TypeOK, qVars, thrVars, kVars, objVars,
       envVars, lVars
  <2>3. CASE WakeThread(c)
    BY <2>3 DEF WakeThread, Handshake, Looping, TypeOK, qVars, thrVars, kVars,
       objVars, envVars, lVars
  <2>4. CASE WaitEnds(c)
    BY <2>4 DEF WaitEnds, Handshake, Looping, TypeOK, qVars, thrVars, kVars, objVars,
       envVars, lVars
  <2>5. CASE CutLoose(c)
    BY <2>5 DEF CutLoose, Handshake, Looping, TypeOK, qVars, thrVars, kVars, objVars,
       envVars, lVars
  <2> QED
    BY <1>1, <2>1, <2>2, <2>3, <2>4, <2>5 DEF PStep
<1>2. CASE ThreadBoot
  BY <1>2 DEF ThreadBoot, Handshake, Looping, TypeOK, qVars, thrVars, kVars, objVars,
     envVars, lVars
<1>3. CASE ThreadWakes
  BY <1>3 DEF ThreadWakes, Handshake, Looping, TypeOK, qVars, thrVars, kVars, objVars,
     envVars, lVars
<1>4. CASE ThreadCheck
  BY <1>4 DEF ThreadCheck, Handshake, Looping, TypeOK, qVars, thrVars, kVars, objVars,
     envVars, lVars
<1>5. CASE ThreadNextEnds
  BY <1>5 DEF ThreadNextEnds, Handshake, Looping, TypeOK, qVars, thrVars, kVars,
     objVars, envVars, lVars
<1>6. CASE ThreadDequeue
  BY <1>6 DEF ThreadDequeue, Handshake, Looping, TypeOK, qVars, thrVars, kVars,
     objVars, envVars, lVars
<1>7. CASE ThreadRun("success")
  BY <1>7 DEF ThreadRun, Handshake, Looping, TypeOK, qVars, thrVars, kVars, objVars,
     envVars, lVars
<1>8. CASE ThreadRun("error")
  BY <1>8 DEF ThreadRun, Handshake, Looping, TypeOK, qVars, thrVars, kVars, objVars,
     envVars, lVars
<1>9. CASE ThreadComplete
  BY <1>9 DEF ThreadComplete, Handshake, Looping, TypeOK, qVars, thrVars, kVars,
     objVars, envVars, lVars
<1>10. CASE ThreadFree
  BY <1>10 DEF ThreadFree, Handshake, Looping, TypeOK, qVars, thrVars, kVars, objVars,
     envVars, lVars
<1>11. CASE ThreadExit
  BY <1>11 DEF ThreadExit, Handshake, Looping, TypeOK, qVars, thrVars, kVars, objVars,
     envVars, lVars
<1>12. CASE ThreadDrain
  BY <1>12 DEF ThreadDrain, Handshake, Looping, TypeOK, qVars, thrVars, kVars,
     objVars, envVars, lVars
<1>13. CASE ThreadGone
  BY <1>13 DEF ThreadGone, Handshake, Looping, TypeOK, qVars, thrVars, kVars, objVars,
     envVars, lVars
<1>14. CASE Open
  BY <1>14 DEF Open, Handshake, Looping, TypeOK, qVars, thrVars, kVars, objVars,
     envVars, lVars
<1>15. CASE Opened
  BY <1>15 DEF Opened, Handshake, Looping, TypeOK, qVars, thrVars, kVars, objVars,
     envVars, lVars
<1>16. CASE Suspend
  BY <1>16 DEF Suspend, Handshake, Looping, TypeOK, qVars, thrVars, kVars, objVars,
     envVars, lVars
<1>17. CASE Remove
  BY <1>17 DEF Remove, Handshake, Looping, TypeOK, qVars, thrVars, kVars, objVars,
     envVars, lVars
<1>18. CASE StopAsk
  BY <1>18 DEF StopAsk, StopWaits, TypeOK, Handshake, Looping, qVars, thrVars, kVars,
     objVars, envVars, lVars
<1>19. CASE StopSkip
  BY <1>19 DEF StopSkip, StopWaits, StopEnds, TypeOK, Handshake, Looping, qVars,
     thrVars, kVars, objVars, envVars, lVars
<1>20. CASE StopDone
  BY <1>20 DEF StopDone, StopEnds, TypeOK, Handshake, Looping, qVars, thrVars, kVars,
     objVars, envVars, lVars
<1>21. CASE Unload
  BY <1>21 DEF Unload, Handshake, Looping, TypeOK, qVars, thrVars, kVars, objVars,
     envVars, lVars
<1>22. CASE HalDeinit
  BY <1>22 DEF HalDeinit, Handshake, Looping, TypeOK, qVars, thrVars, kVars, objVars,
     envVars, lVars
<1>23. CASE UsbError
  BY <1>23 DEF UsbError, Handshake, Looping, TypeOK, qVars, thrVars, kVars, objVars,
     envVars, lVars
<1>24. CASE IpsToggle
  BY <1>24 DEF IpsToggle, Handshake, Looping, TypeOK, qVars, thrVars, kVars, objVars,
     envVars, lVars
<1>25. CASE ThreadInterrupted
  BY <1>25 DEF ThreadInterrupted, Handshake, Looping, TypeOK, qVars, thrVars, kVars,
     objVars, envVars, lVars
<1>26. CASE UNCHANGED vars
  BY <1>26 DEF vars, Handshake, Looping, TypeOK, qVars, thrVars, kVars, objVars,
     envVars, lVars
<1> QED
  BY <1>1, <1>2, <1>3, <1>4, <1>5, <1>6, <1>7, <1>8, <1>9, <1>10, <1>11, <1>12,
     <1>13, <1>14, <1>15, <1>16, <1>17, <1>18, <1>19, <1>20, <1>21, <1>22,
     <1>23, <1>24, <1>25, <1>26 DEF Next, KStep, LStep, Env

\* rtw_stop_cmd_thread returns only when a thread that did not leave its loop of its
\* own accord is gone, however often the interface was opened before.
THEOREM StopIsSynchronous == Spec => []StopWaitsForThread
<1>1. Init => TypeOK /\ Handshake
  BY InitInv DEF IndInv, Init, Handshake
<1>2. TypeOK /\ Handshake /\ [Next]_vars => TypeOK' /\ Handshake'
  BY TypeStep, HandshakeStep
<1>3. Handshake => StopWaitsForThread
  BY DEF Handshake, StopWaitsForThread, Looping
<1> QED
  BY <1>1, <1>2, <1>3, PTL DEF Spec
=============================================================================
