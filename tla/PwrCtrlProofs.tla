--------------------------- MODULE PwrCtrlProofs ---------------------------
(***************************************************************************)
(* Proofs about PwrCtrl, for any number of callers and any bounds.         *)
(***************************************************************************)
EXTENDS PwrCtrl, TLAPS

\* The lock of power control is held by K while it turns the radio off and by a caller
\* while it turns it on.
LockInv ==
    /\ kpc \in {"down", "off"} <=> lock = "K"
    /\ \A u \in Callers : pc[u] \in {"up", "init"} <=> lock = u

\* K is stopped in the middle of a suspend, and no call is under way during one.
SuspendInv ==
    /\ sus \in {"unload", "down"} <=> kpc = "stopped"
    /\ sus = "no" <=> ~bInSuspend
    /\ bInSuspend => \A u \in Callers : pc[u] = "idle"

\* Initialised hardware has its radio on. The hardware is initialised while K decides, and is
\* not while a caller turns the radio on.
HwInv ==
    /\ hw_init_completed => rf_pwrstate = "on"
    /\ kpc \in {"deny", "suspend", "defer", "linked", "linking", "enter", "down"}
          => hw_init_completed
    /\ kpc = "off" => ~hw_init_completed
    /\ \A u \in Callers : pc[u] \in {"up", "init"} => ~hw_init_completed
    /\ \A u \in Callers : pc[u] = "init" => rf_pwrstate = "on"

\* K's flag covers its decision, from the check of the deadline on.
MarkInv == kpc = "defer" \/ Committed => ps_processing

\* A link, or one about to be reported, has its radio, and K has not read the flags before it.
LinkInv ==
    ("linked" \in fw \/ connecting) /\ ~split
        => RadioOn /\ kpc \notin {"linking", "enter", "down", "off"}

\* While a deferral is held it is in force; once the caller has seen K out of the way, K stays
\* out of it.
HeldInv ==
    \A u \in Callers : held[u] =>
        /\ ips_deny
        /\ pc[u] \notin {"idle", "defer", "wait"} => ~Committed

Safe ==
    /\ LockInv /\ SuspendInv /\ HwInv /\ MarkInv
    /\ LinkInv /\ HeldInv /\ WakeupDefersIps

Inv == TypeOK /\ Safe

-----------------------------------------------------------------------------
(* Types: Zenon for the flags, SMT for the rest.                            *)

\* The initial values have their types.
LEMMA TypeInit == Init => TypeOK
<1> SUFFICES ASSUME Init PROVE TypeOK
  OBVIOUS
<1>1. FlagsOK
  BY Zenon DEF Init, FlagsOK
<1>2. ValuesOK
  BY PwrAssumption DEF Init, ValuesOK, Ops
<1>3. QED
  BY <1>1, <1>2 DEF TypeOK

\* An extended deadline is not over if it was not before.
LEMMA ExtendIs ==
    ASSUME FlagsOK, Extend
    PROVE  ips_deny' \in BOOLEAN /\ (ips_deny => ips_deny')
BY Zenon DEF FlagsOK, Extend

\* The new deadline of a report leaves the held deferrals in force or ends them all.
LEMMA IndicateIs ==
    ASSUME FlagsOK, IndicateDisconnect
    PROVE  /\ ips_deny' \in BOOLEAN /\ held' \in [Callers -> BOOLEAN] /\ split' \in BOOLEAN
           /\ \A u \in Callers : held'[u] => held[u] /\ ips_deny'
<1>1. split' \in BOOLEAN
  BY Zenon DEF FlagsOK, IndicateDisconnect
<1>2. CASE ips_deny' = TRUE /\ UNCHANGED held
  BY <1>1, <1>2, Zenon DEF FlagsOK
<1>3. CASE Release
  BY <1>1, <1>3, Zenon DEF Release
<1> QED
  BY <1>2, <1>3, Zenon DEF IndicateDisconnect

\* The flags stay Boolean.
LEMMA FlagsNext == TypeOK /\ [Next]_vars => FlagsOK'
<1> SUFFICES ASSUME TypeOK, [Next]_vars PROVE FlagsOK'
  OBVIOUS
<1> USE DEF TypeOK, FlagsOK, radio, denial, saving, k, mlme, caller, suspend
<1>1. CASE TakeCmd
  BY <1>1, Zenon DEF TakeCmd, LPS_Leave
<1>2. CASE PsDeny
  BY <1>2, Zenon DEF PsDeny, PsExit
<1>3. CASE PsSuspend
  BY <1>3, Zenon DEF PsSuspend
<1>4. CASE PsDefer
  BY <1>4, Zenon DEF PsDefer, PsExit
<1>5. CASE PsLinked
  BY <1>5, Zenon DEF PsLinked, PsExit
<1>6. CASE PsLinking
  BY <1>6, Zenon DEF PsLinking, PsExit
<1>7. CASE PsEnd
  BY <1>7, Zenon DEF PsEnd, PsExit
<1>8. CASE IpsEnter
  BY <1>8, Zenon DEF IpsEnter
<1>9. CASE IpsDown
  BY <1>9, Zenon DEF IpsDown
<1>10. CASE IpsOff
  BY <1>10, Zenon DEF IpsOff
<1>11. CASE LPS_Enter
  BY <1>11, Zenon DEF LPS_Enter
<1>12. CASE LinkLost
  BY <1>12, IndicateIs, Zenon DEF LinkLost
<1>13. CASE TimerFires
  BY <1>13, Zenon DEF TimerFires, Enqueue, Accepts
<1>14. CASE DeferralEnds
  BY <1>14, Zenon DEF DeferralEnds, Release
<1>15. CASE ScanEnds
  BY <1>15, Zenon DEF ScanEnds
<1>16. CASE IndicateScanDone
  BY <1>16, Zenon DEF IndicateScanDone, Release
<1>17. CASE JoinUpdate
  <2>1. split' \in BOOLEAN /\ ended' \in BOOLEAN
    BY <1>17 DEF JoinUpdate
  <2>2. QED
    BY <1>17, <2>1, Zenon DEF JoinUpdate
<1>18. CASE JoinConnect
  BY <1>18, Zenon DEF JoinConnect
<1>19. CASE JoinFails
  BY <1>19, IndicateIs, Zenon DEF JoinFails
<1>20. CASE Disconnect
  BY <1>20, IndicateIs, Zenon DEF Disconnect, LPS_Leave
<1>21. ASSUME NEW u \in Callers, NEW o \in Ops, Deny(u, o) PROVE FlagsOK'
  BY <1>21, Zenon DEF Deny, Begins, Goes, Reason
<1>22. ASSUME NEW u \in Callers, Defer(u) PROVE FlagsOK'
  BY <1>22, ExtendIs, Zenon DEF Defer, Goes, LPS_Leave
<1>23. ASSUME NEW u \in Callers, Wait(u) PROVE FlagsOK'
  BY <1>23, Zenon DEF Wait, Goes
<1>24. ASSUME NEW u \in Callers, LookLinked(u) PROVE FlagsOK'
  <2>1. ips_deny' \in BOOLEAN /\ held' \in [Callers -> BOOLEAN]
    <3>1. CASE WakeupReturns(u, TRUE)
      BY <3>1, ExtendIs, Zenon DEF WakeupReturns, Returns
    <3>2. CASE UNCHANGED <<ips_deny, held, op>>
      BY <3>2, Zenon
    <3> QED BY <1>24, <3>1, <3>2, Zenon DEF LookLinked
  <2>2. QED
    BY <1>24, <2>1, Zenon DEF LookLinked
<1>25. ASSUME NEW u \in Callers, LookRf(u) PROVE FlagsOK'
  BY <1>25, Zenon DEF LookRf, Goes
<1>26. ASSUME NEW u \in Callers, LookHw(u) PROVE FlagsOK'
  BY <1>26, ExtendIs, Zenon DEF LookHw, Goes, WakeupReturns, Returns
<1>27. ASSUME NEW u \in Callers, IpsLeave(u) PROVE FlagsOK'
  BY <1>27, Zenon DEF IpsLeave, Goes, ResetDrvSw
<1>28. ASSUME NEW u \in Callers, IpsUp(u) PROVE FlagsOK'
  BY <1>28, Zenon DEF IpsUp, Goes
<1>29. ASSUME NEW u \in Callers, IpsUpFails(u) PROVE FlagsOK'
  BY <1>29, ExtendIs, Zenon DEF IpsUpFails, Goes, LPS_Leave, WakeupReturns, Returns
<1>30. ASSUME NEW u \in Callers, IpsUpEnds(u) PROVE FlagsOK'
  BY <1>30, Zenon DEF IpsUpEnds, Goes, LPS_Leave
<1>31. ASSUME NEW u \in Callers, Act(u) PROVE FlagsOK'
  BY <1>31, Zenon DEF Act, Goes, Returns, Enqueue, Accepts
<1>32. ASSUME NEW u \in Callers, Cancel(u) PROVE FlagsOK'
  BY <1>32, Zenon DEF Cancel, Goes, Returns, Reason
<1>33. CASE SuspendBegins
  BY <1>33, Zenon DEF SuspendBegins
<1>34. CASE SuspendDenies
  BY <1>34, Zenon DEF SuspendDenies, LPS_Leave
<1>35. CASE SuspendStops
  BY <1>35, Zenon DEF SuspendStops
<1>36. CASE SuspendUnloads
  BY <1>36, Zenon DEF SuspendUnloads
<1>37. CASE Resume
  BY <1>37, Zenon DEF Resume
<1>38. CASE UNCHANGED vars
  BY <1>38, Zenon DEF vars
<1>39. ASSUME NEW u \in Callers, ConnectRefused(u) PROVE FlagsOK'
  BY <1>39, Zenon DEF ConnectRefused, Goes, Returns
<1>40. QED
  BY <1>1, <1>2, <1>3, <1>4, <1>5, <1>6, <1>7, <1>8, <1>9, <1>10, <1>11, <1>12, <1>13, <1>14,
      <1>15, <1>16, <1>17, <1>18, <1>19, <1>20, <1>21, <1>22, <1>23, <1>24, <1>25, <1>26, <1>27,
      <1>28, <1>29, <1>30, <1>31, <1>32, <1>33, <1>34, <1>35, <1>36, <1>37, <1>38, <1>39
      DEF Next,
      KStep, CallerStep, SuspendStep, Callers, Ops

\* The other variables keep their types.
LEMMA ValuesNext == TypeOK /\ [Next]_vars => ValuesOK'
<1> SUFFICES ASSUME TypeOK, [Next]_vars PROVE ValuesOK'
  OBVIOUS
<1> USE PwrAssumption DEF TypeOK, ValuesOK, radio, denial, saving, k, mlme, caller, suspend
<1>1. CASE TakeCmd
  BY <1>1 DEF TakeCmd, LPS_Leave
<1>2. CASE PsDeny
  BY <1>2 DEF PsDeny, PsExit
<1>3. CASE PsSuspend
  BY <1>3 DEF PsSuspend
<1>4. CASE PsDefer
  BY <1>4 DEF PsDefer, PsExit
<1>5. CASE PsLinked
  BY <1>5 DEF PsLinked, PsExit
<1>6. CASE PsLinking
  BY <1>6 DEF PsLinking, PsExit
<1>7. CASE PsEnd
  BY <1>7 DEF PsEnd, PsExit
<1>8. CASE IpsEnter
  BY <1>8 DEF IpsEnter
<1>9. CASE IpsDown
  BY <1>9 DEF IpsDown
<1>10. CASE IpsOff
  BY <1>10 DEF IpsOff
<1>11. CASE LPS_Enter
  BY <1>11 DEF LPS_Enter
<1>12. CASE LinkLost
  <2>1. queue' \in Seq({"ps", "lps", "join"})
    BY <1>12 DEF LinkLost, IndicateDisconnect, Enqueue
  <2>2. fw' \subseteq {"linked", "linking", "survey"}
    BY <1>12 DEF LinkLost, IndicateDisconnect
  <2>3. QED
    BY <1>12, <2>1, <2>2 DEF LinkLost
<1>13. CASE TimerFires
  BY <1>13 DEF TimerFires, Enqueue, Accepts
<1>14. CASE DeferralEnds
  BY <1>14 DEF DeferralEnds, Release
<1>15. CASE ScanEnds
  BY <1>15 DEF ScanEnds
<1>16. CASE IndicateScanDone
  BY <1>16 DEF IndicateScanDone, Release
<1>17. CASE JoinUpdate
  BY <1>17 DEF JoinUpdate
<1>18. CASE JoinConnect
  BY <1>18 DEF JoinConnect
<1>19. CASE JoinFails
  BY <1>19 DEF JoinFails, IndicateDisconnect, Enqueue, Accepts
<1>20. CASE Disconnect
  <2>1. queue' \in Seq({"ps", "lps", "join"})
    BY <1>20 DEF Disconnect, IndicateDisconnect, Enqueue
  <2>2. fw' \subseteq {"linked", "linking", "survey"}
    BY <1>20 DEF Disconnect, IndicateDisconnect
  <2>3. QED
    BY <1>20, <2>1, <2>2 DEF Disconnect, Begins, Goes, Callers, Ops
<1>21. ASSUME NEW u \in Callers, NEW o \in Ops, Deny(u, o) PROVE ValuesOK'
  <2>1. ps_deny' \subseteq {"SCAN", "JOIN", "SUSPEND"}
    BY <1>21 DEF Deny, Reason
  <2>2. QED
    BY <1>21, <2>1 DEF Deny, Begins, Goes
<1>22. ASSUME NEW u \in Callers, Defer(u) PROVE ValuesOK'
  BY <1>22 DEF Defer, Goes, LPS_Leave
<1>23. ASSUME NEW u \in Callers, Wait(u) PROVE ValuesOK'
  BY <1>23 DEF Wait, Goes
<1>24. ASSUME NEW u \in Callers, LookLinked(u) PROVE ValuesOK'
  BY <1>24 DEF LookLinked, Goes, WakeupReturns, Returns, Ops
<1>25. ASSUME NEW u \in Callers, LookRf(u) PROVE ValuesOK'
  BY <1>25 DEF LookRf, Goes
<1>26. ASSUME NEW u \in Callers, LookHw(u) PROVE ValuesOK'
  BY <1>26 DEF LookHw, Goes, WakeupReturns, Returns, Ops
<1>27. ASSUME NEW u \in Callers, IpsLeave(u) PROVE ValuesOK'
  BY <1>27 DEF IpsLeave, Goes, ResetDrvSw
<1>28. ASSUME NEW u \in Callers, IpsUp(u) PROVE ValuesOK'
  BY <1>28 DEF IpsUp, Goes
<1>29. ASSUME NEW u \in Callers, IpsUpFails(u) PROVE ValuesOK'
  BY <1>29 DEF IpsUpFails, Goes, LPS_Leave, WakeupReturns, Returns, Ops
<1>30. ASSUME NEW u \in Callers, IpsUpEnds(u) PROVE ValuesOK'
  BY <1>30 DEF IpsUpEnds, Goes, LPS_Leave
<1>31. ASSUME NEW u \in Callers, Act(u) PROVE ValuesOK'
  <2>1. queue' \in Seq({"ps", "lps", "join"})
    BY <1>31 DEF Act, Enqueue
  <2>2. fw' \subseteq {"linked", "linking", "survey"}
    BY <1>31 DEF Act
  <2>3. op' \in [Callers -> Ops]
    BY <1>31 DEF Act, Returns, Ops
  <2>4. QED
    BY <1>31, <2>1, <2>2, <2>3 DEF Act, Returns, Goes
<1>32. ASSUME NEW u \in Callers, Cancel(u) PROVE ValuesOK'
  BY <1>32 DEF Cancel, Goes, Returns, Reason, Ops
<1>33. CASE SuspendBegins
  BY <1>33 DEF SuspendBegins
<1>34. CASE SuspendDenies
  BY <1>34 DEF SuspendDenies, LPS_Leave
<1>35. CASE SuspendStops
  BY <1>35 DEF SuspendStops
<1>36. CASE SuspendUnloads
  BY <1>36 DEF SuspendUnloads
<1>37. CASE Resume
  BY <1>37 DEF Resume
<1>38. CASE UNCHANGED vars
  BY <1>38 DEF vars
<1>39. ASSUME NEW u \in Callers, ConnectRefused(u) PROVE ValuesOK'
  BY <1>39 DEF ConnectRefused, Goes, Returns, Ops
<1>40. QED
  BY <1>1, <1>2, <1>3, <1>4, <1>5, <1>6, <1>7, <1>8, <1>9, <1>10, <1>11, <1>12, <1>13, <1>14,
      <1>15, <1>16, <1>17, <1>18, <1>19, <1>20, <1>21, <1>22, <1>23, <1>24, <1>25, <1>26, <1>27,
      <1>28, <1>29, <1>30, <1>31, <1>32, <1>33, <1>34, <1>35, <1>36, <1>37, <1>38, <1>39
      DEF Next,
      KStep, CallerStep, SuspendStep, Callers, Ops

\* The variables keep their types: with any number of processes, flags such as held are
\* functions on all of them, and K, the callers and the suspend are always at one of their
\* steps.
THEOREM TypeCorrect == Spec => []TypeOK
<1>1. TypeOK /\ [Next]_vars => TypeOK'
  BY FlagsNext, ValuesNext DEF TypeOK
<1>2. QED
  BY TypeInit, <1>1, PTL DEF Spec

-----------------------------------------------------------------------------
(* The inductive invariant                                                  *)

\* The initial states satisfy the inductive invariant.
LEMMA InvInit == Init => Inv
<1>1. Init => Safe
  BY PwrAssumption DEF Init, Safe, LockInv, SuspendInv, HwInv, MarkInv, LinkInv, HeldInv,
     WakeupDefersIps, Committed
<1>2. QED
  BY <1>1, TypeInit DEF Inv

\* With the invariant, every step keeps the two safety properties.
LEMMA SafeNext == Inv /\ [Next]_vars => Safe'
<1> SUFFICES ASSUME Inv, [Next]_vars PROVE Safe'
  OBVIOUS
<1> USE PwrAssumption DEF Inv, TypeOK, FlagsOK, ValuesOK,
      Safe, LockInv, SuspendInv, HwInv, MarkInv, LinkInv, HeldInv, WakeupDefersIps,
      Committed, RadioOn, radio, denial, saving, k, mlme, caller, suspend
<1>1. CASE TakeCmd
  BY <1>1 DEF TakeCmd, LPS_Leave
<1>2. CASE PsDeny
  BY <1>2 DEF PsDeny, PsExit
<1>3. CASE PsSuspend
  BY <1>3 DEF PsSuspend
<1>4. CASE PsDefer
  BY <1>4 DEF PsDefer, PsExit
<1>5. CASE PsLinked
  BY <1>5 DEF PsLinked, PsExit
<1>6. CASE PsLinking
  BY <1>6 DEF PsLinking, PsExit
<1>7. CASE PsEnd
  BY <1>7 DEF PsEnd, PsExit
<1>8. CASE IpsEnter
  BY <1>8 DEF IpsEnter
<1>9. CASE IpsDown
  BY <1>9 DEF IpsDown
<1>10. CASE IpsOff
  BY <1>10 DEF IpsOff
<1>11. CASE LPS_Enter
  BY <1>11 DEF LPS_Enter
<1>12. CASE LinkLost
  BY <1>12, IndicateIs DEF LinkLost, IndicateDisconnect
<1>13. CASE TimerFires
  BY <1>13 DEF TimerFires, Enqueue, Accepts
<1>14. CASE DeferralEnds
  BY <1>14 DEF DeferralEnds, Release
<1>15. CASE ScanEnds
  BY <1>15 DEF ScanEnds
<1>16. CASE IndicateScanDone
  BY <1>16 DEF IndicateScanDone, Release
<1>17. CASE JoinUpdate
  BY <1>17 DEF JoinUpdate
<1>18. CASE JoinConnect
  BY <1>18 DEF JoinConnect
<1>19. CASE JoinFails
  BY <1>19, IndicateIs DEF JoinFails, IndicateDisconnect
<1>20. CASE Disconnect
  BY <1>20, IndicateIs DEF Disconnect, Begins, LPS_Leave, IndicateDisconnect, Goes, Callers
<1>21. ASSUME NEW u \in Callers, NEW o \in Ops, Deny(u, o) PROVE Safe'
  BY <1>21 DEF Deny, Begins, Goes, Reason
<1>22. ASSUME NEW u \in Callers, Defer(u) PROVE Safe'
  BY <1>22, ExtendIs DEF Defer, Goes, LPS_Leave
<1>23. ASSUME NEW u \in Callers, Wait(u) PROVE Safe'
  BY <1>23 DEF Wait, Goes
<1>24. ASSUME NEW u \in Callers, LookLinked(u) PROVE Safe'
  BY <1>24, ExtendIs DEF LookLinked, Goes, WakeupReturns, Returns
<1>25. ASSUME NEW u \in Callers, LookRf(u) PROVE Safe'
  BY <1>25 DEF LookRf, Goes
<1>26. ASSUME NEW u \in Callers, LookHw(u) PROVE Safe'
  BY <1>26, ExtendIs DEF LookHw, Goes, WakeupReturns, Returns
<1>27. ASSUME NEW u \in Callers, IpsLeave(u) PROVE Safe'
  BY <1>27 DEF IpsLeave, Goes, ResetDrvSw
<1>28. ASSUME NEW u \in Callers, IpsUp(u) PROVE Safe'
  BY <1>28 DEF IpsUp, Goes
<1>29. ASSUME NEW u \in Callers, IpsUpFails(u) PROVE Safe'
  BY <1>29, ExtendIs DEF IpsUpFails, Goes, LPS_Leave, WakeupReturns, Returns
<1>30. ASSUME NEW u \in Callers, IpsUpEnds(u) PROVE Safe'
  BY <1>30 DEF IpsUpEnds, Goes, LPS_Leave
<1>31. ASSUME NEW u \in Callers, Act(u) PROVE Safe'
  BY <1>31 DEF Act, Goes, Returns, Enqueue, Accepts
<1>32. ASSUME NEW u \in Callers, Cancel(u) PROVE Safe'
  BY <1>32 DEF Cancel, Goes, Returns, Reason
<1>33. CASE SuspendBegins
  BY <1>33 DEF SuspendBegins
<1>34. CASE SuspendDenies
  BY <1>34 DEF SuspendDenies, LPS_Leave
<1>35. CASE SuspendStops
  BY <1>35 DEF SuspendStops
<1>36. CASE SuspendUnloads
  BY <1>36 DEF SuspendUnloads
<1>37. CASE Resume
  BY <1>37 DEF Resume
<1>38. CASE UNCHANGED vars
  BY <1>38 DEF vars
<1>39. ASSUME NEW u \in Callers, ConnectRefused(u) PROVE Safe'
  BY <1>39 DEF ConnectRefused, Goes, Returns
<1>40. QED
  BY <1>1, <1>2, <1>3, <1>4, <1>5, <1>6, <1>7, <1>8, <1>9, <1>10, <1>11, <1>12, <1>13, <1>14,
      <1>15, <1>16, <1>17, <1>18, <1>19, <1>20, <1>21, <1>22, <1>23, <1>24, <1>25, <1>26, <1>27,
      <1>28, <1>29, <1>30, <1>31, <1>32, <1>33, <1>34, <1>35, <1>36, <1>37, <1>38, <1>39
      DEF Next,
      KStep, CallerStep, SuspendStep, Callers, Ops

\* The invariant holds in every reachable state.
LEMMA InvAlways == Spec => []Inv
<1>1. Inv /\ [Next]_vars => Inv'
  BY SafeNext, FlagsNext, ValuesNext DEF Inv, TypeOK
<1>2. QED
  BY InvInit, <1>1, PTL DEF Spec

\* A connected station has its radio, whatever K was doing when the join completed, but for
\* the window the model names split: between K's reads of fw_state in
\* rtw_pwr_unassociated_idle and the end of ips_enter.
THEOREM LinkedKeepsRadio == Spec => []LinkedHasRadio
<1>1. Inv => LinkedHasRadio
  BY DEF Inv, TypeOK, FlagsOK, Safe, LinkInv, LinkedHasRadio, RadioOn
<1>2. QED
  BY InvAlways, <1>1, PTL

\* While the deferral of a caller's rtw_pwr_wakeup lasts its radio is on and K is not on its
\* way to turn it off: the order in which the two write and read the deadline and
\* ps_processing is enough, without a lock, for any number of callers.
THEOREM WakeupIsKept == Spec => []WakeupDefersIps
<1>1. Inv => WakeupDefersIps
  BY DEF Inv, Safe
<1>2. QED
  BY InvAlways, <1>1, PTL

=============================================================================
