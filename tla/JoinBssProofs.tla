--------------------------- MODULE JoinBssProofs ---------------------------
(***************************************************************************)
(* TLAPS proofs about JoinBss, for every number of roaming tries, retries, *)
(* calls of cfg80211 and losses.                                           *)
(***************************************************************************)
EXTENDS JoinBss, TLAPS

\* pmlmepriv->lock: R and the handler of assoc_timer do not both hold it.
OneHolder == rpc \in {"locked", "cancel"} => tpc # "roam"

\* When R is about to cancel assoc_timer no join is under way: it has cleared the
\* flag under the lock, and all that set it need the lock.
NoJoinAtCancel == rpc = "cancel" => ~linking

TimerInv == LinkingHasTimer /\ OneHolder /\ NoJoinAtCancel

\* The variables that TimerInv speaks of.
timerVars == <<linking, assoc_timer, rpc, tpc>>

\* A step that changes none of them keeps it.
LEMMA KeepsTimer == TimerInv /\ UNCHANGED timerVars => TimerInv'
BY DEF TimerInv, LinkingHasTimer, OneHolder, NoJoinAtCancel, timerVars

\* A step that leaves R and the handler alone, and after which either no join is under
\* way or the timer is set and R does not hold the lock, keeps it.
LEMMA JoinsOrNot ==
    ASSUME TimerInv, UNCHANGED <<rpc, tpc>>,
           \/ ~linking'
           \/ assoc_timer' /\ (linking' = linking \/ rpc # "cancel")
    PROVE  TimerInv'
<1>1. LinkingHasTimer'
  BY DEF LinkingHasTimer
<1>2. OneHolder'
  BY DEF TimerInv, OneHolder
<1>3. NoJoinAtCancel'
  BY DEF TimerInv, NoJoinAtCancel
<1> QED BY <1>1, <1>2, <1>3 DEF TimerInv

\* rtw_do_join sets the flag only together with the timer.
LEMMA DoJoinTimer ==
    ASSUME NEW q, NEW left, NEW outcome, DoJoin(q, left, outcome)
    PROVE  ~linking' \/ assoc_timer'
BY Zenon DEF DoJoin

\* The same of the joins of a roam.
LEMMA RoamTimer ==
    ASSUME NEW q, NEW ks, Roam(q, ks)
    PROVE  ~linking' \/ assoc_timer'
<1>1. ASSUME NEW k \in ks, NEW outcome \in {"join", "survey"},
             DoJoin(q, FALSE, outcome)
      PROVE  ~linking' \/ assoc_timer'
  BY <1>1, DoJoinTimer
<1>2. CASE DoJoin(q, FALSE, "fail")
  BY <1>2, DoJoinTimer
<1> QED BY <1>1, <1>2, Zenon DEF Roam

\* Steps of connect and disconnect.
LEMMA TimerU == TimerInv /\ UStep => TimerInv'
<1> SUFFICES ASSUME TimerInv, UStep PROVE TimerInv'
  OBVIOUS
<1>1. CASE ConnectJoin
  <2>1. ~linking' \/ assoc_timer'
    BY <1>1, DoJoinTimer, Zenon DEF ConnectJoin
  <2>2. rpc # "cancel" /\ UNCHANGED <<rpc, tpc>>
    BY <1>1 DEF ConnectJoin, LockFree
  <2> QED BY <2>1, <2>2, JoinsOrNot
<1>2. CASE ConnectLater \/ ConnectRefused \/ DisconnectHdl \/ DisconnectClear
  <2>1. UNCHANGED timerVars
    BY <1>2 DEF ConnectLater, ConnectRefused, DisconnectHdl, DisconnectClear, timerVars,
       fw, timers
  <2> QED BY <2>1, KeepsTimer
<1>3. CASE DisconnectReport
  <2>1. ~linking' /\ UNCHANGED <<rpc, tpc>>
    BY <1>3 DEF DisconnectReport
  <2> QED BY <2>1, JoinsOrNot
<1> QED BY <1>1, <1>2, <1>3, Zenon DEF UStep

\* Steps of the command thread.
LEMMA TimerK == TimerInv /\ KStep => TimerInv'
<1> SUFFICES ASSUME TimerInv, KStep PROVE TimerInv'
  OBVIOUS
<1>1. CASE JoinCmd \/ JoinDropped
  <2>1. assoc_timer' /\ linking' = linking /\ UNCHANGED <<rpc, tpc>>
    BY <1>1, Zenon DEF JoinCmd, JoinDropped, fw, pcs
  <2> QED BY <2>1, JoinsOrNot
<1>2. CASE JoinCmdFails
  <2>1. ~linking' /\ UNCHANGED <<rpc, tpc>>
    BY <1>2 DEF JoinCmdFails, JoinFails, pcs
  <2> QED BY <2>1, JoinsOrNot
<1>3. CASE DiscCmd \/ SurveyDone \/ SurveyedIdle
  <2>1. UNCHANGED timerVars
    BY <1>3 DEF DiscCmd, SurveyDone, SurveyedIdle, timerVars, fw, timers, pcs
  <2> QED BY <2>1, KeepsTimer
<1>4. ASSUME NEW c, StaDel(c) PROVE TimerInv'
  <2>1. rpc # "cancel" /\ UNCHANGED <<rpc, tpc>>
    BY <1>4 DEF StaDel, LockFree, pcs
  <2>2. ~linking' \/ assoc_timer'
    BY <1>4, RoamTimer, Zenon DEF StaDel
  <2> QED BY <2>1, <2>2, JoinsOrNot
<1>5. CASE SurveyedJoin
  <2>1. ~linking' \/ assoc_timer'
    BY <1>5, DoJoinTimer, Zenon DEF SurveyedJoin
  <2>2. rpc # "cancel" /\ UNCHANGED <<rpc, tpc>>
    BY <1>5 DEF SurveyedJoin, LockFree
  <2> QED BY <2>1, <2>2, JoinsOrNot
<1>6. CASE SurveyedAgain \/ SurveyedGiveUp
  <2>1. ~linking' /\ UNCHANGED <<rpc, tpc>>
    BY <1>6 DEF SurveyedAgain, SurveyedGiveUp
  <2> QED BY <2>1, JoinsOrNot
<1> QED BY <1>1, <1>2, <1>3, <1>4, <1>5, <1>6, Zenon DEF KStep

\* Steps of the receive tasklet. Cancelling the timer needs NoJoinAtCancel.
LEMMA TimerR == TimerInv /\ RStep => TimerInv'
<1> SUFFICES ASSUME TimerInv, RStep PROVE TimerInv'
  OBVIOUS
<1> USE DEF TimerInv, LinkingHasTimer, OneHolder, NoJoinAtCancel
<1>1. CASE StartClntAuth \/ OnAuthAgain \/ StartClntAssoc \/ AssocDone
  BY <1>1 DEF StartClntAuth, OnAuthAgain, StartClntAssoc, AssocDone, fw
<1>2. CASE ReportFail
  BY <1>2 DEF ReportFail, JoinFails
<1>3. CASE ReportJoin
  BY <1>3 DEF ReportJoin, LockFree, fw, timers
<1>4. CASE JoinIgnored
  BY <1>4 DEF JoinIgnored, timers
<1>5. CASE JoinConnected
  BY <1>5 DEF JoinConnected, timers
<1>6. CASE JoinCancelsTimer
  BY <1>6 DEF JoinCancelsTimer, fw
<1> QED BY <1>1, <1>2, <1>3, <1>4, <1>5, <1>6 DEF RStep

\* Steps of the timers' handlers.
LEMMA TimerT == TimerInv /\ (TStep \/ LinkTimerStep) => TimerInv'
<1> SUFFICES ASSUME TimerInv, TStep \/ LinkTimerStep PROVE TimerInv'
  OBVIOUS
<1>1. CASE AssocTimer
  BY <1>1 DEF AssocTimer, fw, TimerInv, LinkingHasTimer, OneHolder, NoJoinAtCancel
<1>2. CASE JoinTimeout
  BY <1>2 DEF JoinTimeout, TimerInv, LinkingHasTimer, OneHolder, NoJoinAtCancel
<1>3. CASE JoinTimeoutRoams
  BY <1>3 DEF JoinTimeoutRoams, LockFree, fw, timers, TimerInv, LinkingHasTimer, OneHolder,
     NoJoinAtCancel
<1>4. CASE RoamNext
  <2>1. ~linking' \/ assoc_timer'
    BY <1>4, RoamTimer, Zenon DEF RoamNext
  <2>2. rpc # "cancel"
    BY <1>4 DEF RoamNext, TimerInv, OneHolder
  <2>3. rpc' = rpc /\ tpc' = "idle"
    BY <1>4 DEF RoamNext
  <2> QED BY <2>1, <2>2, <2>3 DEF TimerInv, LinkingHasTimer, OneHolder, NoJoinAtCancel
<1>5. CASE LinkTimer
  <2>1. UNCHANGED timerVars
    BY <1>5 DEF LinkTimer, timerVars, fw, pcs
  <2> QED BY <2>1, KeepsTimer
<1>6. CASE LinkTimerFails
  <2>1. ~linking' /\ UNCHANGED <<rpc, tpc>>
    BY <1>6 DEF LinkTimerFails, JoinFails, pcs
  <2> QED BY <2>1, JoinsOrNot
<1> QED BY <1>1, <1>2, <1>3, <1>4, <1>5, <1>6 DEF TStep, LinkTimerStep

\* Calls of cfg80211, frames and losses.
LEMMA TimerEnv == TimerInv /\ Env => TimerInv'
<1> SUFFICES ASSUME TimerInv, Env PROVE TimerInv'
  OBVIOUS
<1>1. CASE ConnectBegins \/ DisconnectBegins \/ ScanBegins \/ SurveyTimeout
  <2>1. UNCHANGED timerVars
    BY <1>1 DEF ConnectBegins, DisconnectBegins, ScanBegins, SurveyTimeout, timerVars, fw,
       timers, pcs
  <2> QED BY <2>1, KeepsTimer
<1>2. CASE OnBeacon \/ OnAuthClient \/ OnAssocRsp
  BY <1>2 DEF OnBeacon, OnAuthClient, OnAssocRsp, RecvCheck, fw, timers, TimerInv,
     LinkingHasTimer, OneHolder, NoJoinAtCancel
<1>3. CASE ReceiveRefusal
  <2>1. ~linking' /\ UNCHANGED <<rpc, tpc>>
    BY <1>3 DEF ReceiveRefusal, JoinFails, pcs
  <2> QED BY <2>1, JoinsOrNot
<1>4. CASE OnDeAuth \/ LinkedStatusChk
  <2>1. UNCHANGED timerVars
    BY <1>4 DEF OnDeAuth, LinkedStatusChk, ReceiveDisconnect, timerVars, fw, timers, pcs
  <2> QED BY <2>1, KeepsTimer
<1> QED BY <1>1, <1>2, <1>3, <1>4 DEF Env

\* Every step keeps the invariant.
LEMMA TimerStep == TimerInv /\ [Next]_vars => TimerInv'
<1>1. TimerInv /\ UNCHANGED vars => TimerInv'
  BY KeepsTimer DEF vars, timerVars, fw, timers, pcs
<1> QED BY <1>1, TimerU, TimerK, TimerR, TimerT, TimerEnv DEF Next

\* No join and no roam is under way at first.
LEMMA TimerInit == Init => TimerInv
BY DEF Init, TimerInv, LinkingHasTimer, OneHolder, NoJoinAtCancel

\* A join that is under way always has its time-out, whatever the interleaving of
\* cfg80211, the command thread, the receive tasklet and the timers' handlers, for any
\* number of tries, retries, calls and losses.
THEOREM LinkingIsTimed == Spec => []LinkingHasTimer
<1>1. TimerInv => LinkingHasTimer
  BY DEF TimerInv
<1> QED BY <1>1, TimerInit, TimerStep, PTL DEF Spec

-----------------------------------------------------------------------------
(* The number of roaming tries.                                             *)

\* Unless an unlocked step of a disconnect overlapped a locked section, to_roam is
\* within the limit, and still positive where the handler decrements it.
Tries == ~overlap => to_roam \in 0 .. MaxRoam /\ (tpc = "roam" => to_roam > 0)

RoamInv == OneHolder /\ Tries

\* A step that leaves tpc and the exception alone and sets to_roam within the limit,
\* to zero only where the handler is not about to decrement it, keeps Tries.
LEMMA KeepsTries ==
    ASSUME Tries, UNCHANGED <<tpc, overlap>>,
           overlap \/ to_roam' = to_roam \/ (to_roam' \in 0 .. MaxRoam /\ tpc # "roam")
    PROVE  Tries'
<1>1. ~overlap' => ~overlap
  BY Zenon
<1>2. ASSUME ~overlap PROVE to_roam' \in 0 .. MaxRoam /\ (tpc' = "roam" => to_roam' > 0)
  BY <1>2 DEF Tries
<1> QED BY <1>1, <1>2, Zenon DEF Tries

\* A roam of at most n tries, n within the limit, sets to_roam within the limit.
LEMMA RoamTries ==
    ASSUME NEW q, NEW n \in Int, n <= MaxRoam, Roam(q, 1 .. n)
    PROVE  to_roam' \in 0 .. MaxRoam
<1>1. to_roam' \in 1 .. n \/ to_roam' = 0
  BY DEF Roam
<1> QED BY <1>1, JoinAssumption

\* R and the handler never both hold the lock.
LEMMA HolderStep == OneHolder /\ [Next]_vars => OneHolder'
<1> SUFFICES ASSUME OneHolder, [Next]_vars PROVE OneHolder'
  OBVIOUS
<1> USE DEF OneHolder
<1>1. CASE UStep \/ UNCHANGED vars
  BY <1>1 DEF UStep, ConnectJoin, ConnectLater, ConnectRefused, DisconnectHdl, DisconnectReport,
     DisconnectClear, vars, pcs
<1>2. CASE KStep
  <2>1. ASSUME NEW c, StaDel(c) PROVE OneHolder'
    BY <2>1 DEF StaDel, pcs
  <2> QED BY <1>2, <2>1 DEF KStep, JoinCmd, JoinCmdFails, JoinDropped, DiscCmd, SurveyDone,
          SurveyedIdle, SurveyedJoin, SurveyedAgain, SurveyedGiveUp, pcs
<1>3. CASE RStep
  BY <1>3 DEF RStep, StartClntAuth, OnAuthAgain, StartClntAssoc, AssocDone, ReportFail, ReportJoin,
     JoinIgnored, JoinConnected, JoinCancelsTimer, LockFree
<1>4. CASE TStep
  BY <1>4 DEF TStep, AssocTimer, JoinTimeout, JoinTimeoutRoams, RoamNext, LockFree
<1>5. CASE LinkTimerStep
  BY <1>5 DEF LinkTimerStep, LinkTimer, LinkTimerFails, pcs
<1>6. CASE Env
  BY <1>6 DEF Env, ConnectBegins, DisconnectBegins, ScanBegins, SurveyTimeout, OnBeacon,
     OnAuthClient, OnAssocRsp, RecvCheck, ReceiveRefusal, ReceiveDisconnect, OnDeAuth,
     LinkedStatusChk, pcs
<1> QED BY <1>1, <1>2, <1>3, <1>4, <1>5, <1>6 DEF Next

\* Steps of the command thread: a loss, and surveys without candidate.
LEMMA TriesK == RoamInv /\ KStep => Tries'
<1> SUFFICES ASSUME RoamInv, KStep PROVE Tries'
  OBVIOUS
<1>0. Tries /\ (~overlap => to_roam \in 0 .. MaxRoam)
  BY DEF RoamInv, Tries
<1>1. CASE JoinCmd \/ JoinCmdFails \/ JoinDropped \/ DiscCmd \/ SurveyDone \/ SurveyedIdle
  <2>1. UNCHANGED <<to_roam, tpc, overlap>>
    BY <1>1 DEF JoinCmd, JoinCmdFails, JoinDropped, DiscCmd, SurveyDone, SurveyedIdle, intent, pcs
  <2> QED BY <1>0, <2>1, KeepsTries
<1>2. ASSUME NEW c, StaDel(c) PROVE Tries'
  <2>1. tpc # "roam" /\ UNCHANGED <<tpc, overlap>>
    BY <1>2 DEF StaDel, LockFree, pcs
  <2>2. ASSUME ~overlap PROVE TriesAfter(c) \in 0 .. MaxRoam
    BY <1>0, <2>2, JoinAssumption DEF TriesAfter
  <2>3. ASSUME ~overlap PROVE to_roam' \in 0 .. MaxRoam
    <3>1. CASE TriesAfter(c) > 0
      <4>1. Roam(Tail(queue), 1 .. TriesAfter(c))
        BY <1>2, <3>1 DEF StaDel
      <4> QED BY <4>1, <2>2, <2>3, RoamTries
    <3>2. CASE ~(TriesAfter(c) > 0)
      BY <1>2, <3>2, JoinAssumption DEF StaDel
    <3> QED BY <3>1, <3>2
  <2> QED BY <1>0, <2>1, <2>3, KeepsTries
<1>3. CASE SurveyedJoin
  <2>1. UNCHANGED <<to_roam, tpc, overlap>>
    BY <1>3 DEF SurveyedJoin
  <2> QED BY <1>0, <2>1, KeepsTries
<1>4. CASE SurveyedAgain
  <2>1. tpc # "roam" /\ to_roam' = to_roam - 1 /\ to_roam > 1 /\ UNCHANGED <<tpc, overlap>>
    BY <1>4 DEF SurveyedAgain, LockFree
  <2>2. ~overlap => to_roam' \in 0 .. MaxRoam
    BY <1>0, <2>1, JoinAssumption
  <2> QED BY <1>0, <2>1, <2>2, KeepsTries
<1>5. CASE SurveyedGiveUp
  <2>1. tpc # "roam" /\ to_roam' = 0 /\ UNCHANGED <<tpc, overlap>>
    BY <1>5 DEF SurveyedGiveUp, LockFree
  <2>2. to_roam' \in 0 .. MaxRoam
    BY <2>1, JoinAssumption
  <2> QED BY <1>0, <2>1, <2>2, KeepsTries
<1> QED BY <1>1, <1>2, <1>3, <1>4, <1>5 DEF KStep

\* Steps of assoc_timer's handler: the decrement starts from a positive to_roam.
LEMMA TriesT == RoamInv /\ TStep => Tries'
<1> SUFFICES ASSUME RoamInv, TStep PROVE Tries'
  OBVIOUS
<1>0. Tries /\ (~overlap => to_roam \in 0 .. MaxRoam)
  BY DEF RoamInv, Tries
<1>1. CASE AssocTimer \/ JoinTimeout
  BY <1>0, <1>1 DEF AssocTimer, JoinTimeout, Tries, intent
<1>2. CASE JoinTimeoutRoams
  BY <1>0, <1>2 DEF JoinTimeoutRoams, Tries, intent
<1>3. CASE RoamNext
  <2> DEFINE n == (to_roam + RoamMod - 1) % RoamMod
  <2>1. tpc = "roam" /\ tpc' = "idle" /\ overlap' = overlap
    BY <1>3 DEF RoamNext
  <2>2. ASSUME ~overlap PROVE n \in 0 .. MaxRoam
    <3>1. to_roam \in 1 .. MaxRoam
      BY <1>0, <2>1, <2>2, JoinAssumption DEF Tries
    <3>2. to_roam + RoamMod - 1 = RoamMod + (to_roam - 1) /\ to_roam - 1 \in 0 .. RoamMod - 1
      BY <3>1, JoinAssumption
    <3>3. n = to_roam - 1
      BY <3>1, <3>2, JoinAssumption
    <3> QED BY <3>1, <3>3, JoinAssumption
  <2>3. ASSUME ~overlap PROVE to_roam' \in 0 .. MaxRoam
    <3>1. CASE n > 0
      <4>1. Roam(queue, 1 .. n)
        BY <1>3, <3>1 DEF RoamNext
      <4>2. n \in Int /\ n <= MaxRoam
        BY <2>2, <2>3, JoinAssumption
      <4> HIDE DEF n
      <4> QED BY <4>1, <4>2, RoamTries
    <3>2. CASE ~(n > 0)
      BY <1>3, <3>2, JoinAssumption DEF RoamNext
    <3> QED BY <3>1, <3>2
  <2> QED BY <2>1, <2>3 DEF Tries
<1> QED BY <1>1, <1>2, <1>3 DEF TStep

\* Every step keeps to_roam within its limit.
LEMMA RoamStep == RoamInv /\ [Next]_vars => RoamInv'
<1> SUFFICES ASSUME RoamInv, [Next]_vars PROVE RoamInv'
  OBVIOUS
<1>0. OneHolder /\ Tries /\ OneHolder'
  BY HolderStep DEF RoamInv
<1>1. CASE UStep \/ UNCHANGED vars
  BY <1>0, <1>1 DEF RoamInv, Tries, UStep, ConnectJoin, ConnectLater, ConnectRefused,
     DisconnectHdl, DisconnectReport, DisconnectClear, vars, intent, pcs
<1>2. CASE KStep
  BY <1>0, <1>2, TriesK DEF RoamInv
<1>3. CASE RStep
  <2>1. CASE JoinConnected
    BY <1>0, <2>1, JoinAssumption DEF JoinConnected, RoamInv, Tries, OneHolder
  <2>2. CASE ~JoinConnected
    BY <1>0, <1>3, <2>2 DEF RoamInv, Tries, RStep, StartClntAuth, OnAuthAgain, StartClntAssoc,
       AssocDone, ReportFail, ReportJoin, JoinIgnored, JoinCancelsTimer, intent
  <2> QED BY <2>1, <2>2
<1>4. CASE TStep
  BY <1>0, <1>4, TriesT DEF RoamInv
<1>5. CASE LinkTimerStep
  BY <1>0, <1>5 DEF RoamInv, Tries, LinkTimerStep, LinkTimer, LinkTimerFails, intent, pcs
<1>6. CASE Env
  <2>1. CASE DisconnectBegins
    <3>1. to_roam' = 0 /\ tpc' = tpc
      BY <2>1 DEF DisconnectBegins
    <3>2. ~overlap' => tpc # "roam"
      BY <2>1, Zenon DEF DisconnectBegins, LockFree
    <3> QED BY <1>0, <3>1, <3>2, JoinAssumption DEF RoamInv, Tries
  <2>2. CASE ~DisconnectBegins
    BY <1>0, <1>6, <2>2 DEF RoamInv, Tries, Env, ConnectBegins, ScanBegins, SurveyTimeout,
       OnBeacon, OnAuthClient, OnAssocRsp, RecvCheck, ReceiveRefusal, ReceiveDisconnect,
       OnDeAuth, LinkedStatusChk, intent, pcs
  <2> QED BY <2>1, <2>2
<1> QED BY <1>1, <1>2, <1>3, <1>4, <1>5, <1>6 DEF Next

\* At first the station does not roam.
LEMMA RoamInit == Init => RoamInv
BY JoinAssumption DEF Init, RoamInv, OneHolder, Tries

\* to_roam, a byte that several contexts decrement, never passes max_roaming_times and
\* never wraps, for every limit, as long as no unlocked step of a disconnect falls into
\* a locked section.
THEOREM RoamIsBounded == Spec => []RoamWithinLimit
<1>1. RoamInv => RoamWithinLimit
  BY JoinAssumption DEF RoamInv, Tries, RoamWithinLimit
<1> QED BY <1>1, RoamInit, RoamStep, PTL DEF Spec
-----------------------------------------------------------------------------
(* The types of the state, with the ranges of its counters.                 *)

Commands == {"join", "disc", "deauth", "expired"}

\* The parts of TypeOK: what is true or false, and the rest.
FlagTypes ==
    /\ linking \in BOOLEAN /\ linked \in BOOLEAN /\ survey \in BOOLEAN /\ sta \in BOOLEAN
    /\ to_join \in BOOLEAN /\ assoc_timer \in BOOLEAN /\ link_timer \in BOOLEAN
    /\ awaiting \in BOOLEAN /\ told \in BOOLEAN /\ overlap \in BOOLEAN

PcTypes ==
    /\ upc \in {"idle", "connect", "disc", "indicate", "clear"}
    /\ kpc \in {"idle", "surveyed"}
    /\ rpc \in {"idle", "beacon", "auth", "assoc", "join", "fail", "refused", "locked", "cancel"}
    /\ tpc \in {"idle", "fired", "roam"}

CountTypes ==
    /\ to_roam \in 0 .. RoamMod - 1
    /\ retry \in 0 .. Limit
    /\ calls \in 0 .. MaxCalls /\ losses \in 0 .. MaxLoss

DataTypes == state \in SUBSET Flags /\ scans \in Nat /\ queue \in Seq(Commands)

\* The type invariant is proved in four parts.
LEMMA TypeParts == TypeOK <=> FlagTypes /\ PcTypes /\ CountTypes /\ DataTypes
<1>1. TypeOK => FlagTypes /\ PcTypes /\ CountTypes /\ DataTypes
  BY Zenon DEF TypeOK, FlagTypes, PcTypes, CountTypes, DataTypes, Commands
<1>2. FlagTypes /\ PcTypes /\ CountTypes /\ DataTypes => TypeOK
  BY Zenon DEF TypeOK, FlagTypes, PcTypes, CountTypes, DataTypes, Commands
<1> QED BY <1>1, <1>2

\* What rtw_sitesurvey_cmd, rtw_do_join and the joins of a roam leave behind.
LEMMA StartSurveyTypes ==
    ASSUME scans \in Nat, StartSurvey
    PROVE  survey' \in BOOLEAN /\ scans' \in Nat
<1>1. survey' \in BOOLEAN
  BY Zenon DEF StartSurvey
<1>2. scans' \in Nat
  BY DEF StartSurvey
<1> QED BY <1>1, <1>2

\* rtw_do_join leaves values of their types.
LEMMA DoJoinTypes ==
    ASSUME scans \in Nat, survey \in BOOLEAN, assoc_timer \in BOOLEAN,
           NEW q \in Seq(Commands), NEW left \in BOOLEAN, NEW outcome,
           DoJoin(q, left, outcome)
    PROVE  /\ linking' \in BOOLEAN /\ to_join' \in BOOLEAN /\ assoc_timer' \in BOOLEAN
           /\ survey' \in BOOLEAN /\ scans' \in Nat /\ queue' \in Seq(Commands)
<1>1. linking' \in BOOLEAN /\ to_join' \in BOOLEAN /\ assoc_timer' \in BOOLEAN
  BY Zenon DEF DoJoin
<1>2. survey' \in BOOLEAN /\ scans' \in Nat
  BY StartSurveyTypes, Zenon DEF DoJoin
<1>3. /\ (IF left THEN <<"disc">> ELSE << >>) \in Seq(Commands)
      /\ (IF outcome = "join" THEN <<"join">> ELSE << >>) \in Seq(Commands)
  <2>1. <<"disc">> \in Seq(Commands) /\ <<"join">> \in Seq(Commands) /\ << >> \in Seq(Commands)
    BY DEF Commands
  <2> QED BY <2>1, Zenon
<1>4. queue' \in Seq(Commands)
  BY <1>3 DEF DoJoin
<1> QED BY <1>1, <1>2, <1>4

\* So does the roam that _rtw_roaming begins.
LEMMA RoamTypes ==
    ASSUME TypeOK, NEW q \in Seq(Commands), NEW n \in 0 .. RoamMod - 1, Roam(q, 1 .. n)
    PROVE  /\ linking' \in BOOLEAN /\ to_join' \in BOOLEAN /\ assoc_timer' \in BOOLEAN
           /\ survey' \in BOOLEAN /\ scans' \in Nat /\ queue' \in Seq(Commands)
           /\ told' \in BOOLEAN /\ awaiting' \in BOOLEAN
           /\ to_roam' \in 0 .. RoamMod - 1
<1>0. FlagTypes /\ DataTypes
  BY TypeParts
<1>1. to_roam' \in 0 .. RoamMod - 1
  <2>1. to_roam' \in 1 .. n \/ to_roam' = 0
    BY DEF Roam
  <2> QED BY <2>1, JoinAssumption
<1>2. told' \in BOOLEAN /\ awaiting' \in BOOLEAN
  BY <1>0, Zenon DEF Roam, ReportDisconnect, reports, FlagTypes
<1>3. PICK outcome \in Outcome : DoJoin(q, FALSE, outcome)
  BY DEF Roam, Outcome
<1> QED BY <1>0, <1>1, <1>2, <1>3, DoJoinTypes, Zenon DEF FlagTypes, DataTypes

\* Where the four contexts are.
LEMMA PcStep == PcTypes /\ [Next]_vars => PcTypes'
<1> SUFFICES ASSUME PcTypes, [Next]_vars PROVE PcTypes'
  OBVIOUS
<1> USE DEF PcTypes
<1>1. CASE UStep \/ UNCHANGED vars
  BY <1>1 DEF UStep, ConnectJoin, ConnectLater, ConnectRefused, DisconnectHdl, DisconnectReport,
     DisconnectClear, vars, pcs
<1>2. CASE KStep
  <2>1. ASSUME NEW c, StaDel(c) PROVE PcTypes'
    BY <2>1 DEF StaDel, pcs
  <2> QED BY <1>2, <2>1 DEF KStep, JoinCmd, JoinCmdFails, JoinDropped, DiscCmd, SurveyDone,
          SurveyedIdle, SurveyedJoin, SurveyedAgain, SurveyedGiveUp, pcs
<1>3. CASE RStep
  BY <1>3 DEF RStep, StartClntAuth, OnAuthAgain, StartClntAssoc, AssocDone, ReportFail, ReportJoin,
     JoinIgnored, JoinConnected, JoinCancelsTimer
<1>4. CASE TStep
  BY <1>4 DEF TStep, AssocTimer, JoinTimeout, JoinTimeoutRoams, RoamNext
<1>5. CASE LinkTimerStep
  BY <1>5 DEF LinkTimerStep, LinkTimer, LinkTimerFails, pcs
<1>6. CASE Env
  BY <1>6 DEF Env, ConnectBegins, DisconnectBegins, ScanBegins, SurveyTimeout, OnBeacon,
     OnAuthClient, OnAssocRsp, RecvCheck, ReceiveRefusal, ReceiveDisconnect, OnDeAuth,
     LinkedStatusChk, pcs
<1> QED BY <1>1, <1>2, <1>3, <1>4, <1>5, <1>6 DEF Next

\* The counters: the retries of a join, the tries of a roam, the inputs.
LEMMA CountStep == TypeOK /\ [Next]_vars => CountTypes'
<1> SUFFICES ASSUME TypeOK, [Next]_vars PROVE CountTypes'
  OBVIOUS
<1>0. CountTypes /\ queue \in Seq(Commands)
  BY TypeParts DEF DataTypes
<1> USE <1>0, JoinAssumption DEF CountTypes, intent, inputs
<1>1. CASE UStep \/ UNCHANGED vars
  BY <1>1 DEF UStep, ConnectJoin, ConnectLater, ConnectRefused, DisconnectHdl, DisconnectReport,
     DisconnectClear, vars
<1>2. CASE KStep
  <2>1. ASSUME NEW c, StaDel(c) PROVE CountTypes'
    <3>1. UNCHANGED <<retry, calls, losses>> /\ queue # << >>
      BY <2>1 DEF StaDel
    <3>2. TriesAfter(c) \in 0 .. RoamMod - 1
      BY DEF TriesAfter
    <3>3. to_roam' \in 0 .. RoamMod - 1
      <4>1. CASE TriesAfter(c) > 0
        <5>1. Roam(Tail(queue), 1 .. TriesAfter(c)) /\ Tail(queue) \in Seq(Commands)
          BY <2>1, <3>1, <4>1 DEF StaDel
        <5> QED BY <5>1, <3>2, RoamTypes
      <4>2. CASE ~(TriesAfter(c) > 0)
        BY <2>1, <4>2 DEF StaDel
      <4> QED BY <4>1, <4>2
    <3> QED BY <3>1, <3>3
  <2> QED BY <1>2, <2>1 DEF KStep, JoinCmd, JoinCmdFails, JoinDropped, DiscCmd, SurveyDone,
          SurveyedIdle, SurveyedJoin, SurveyedAgain, SurveyedGiveUp
<1>3. CASE RStep
  BY <1>3 DEF RStep, StartClntAuth, OnAuthAgain, StartClntAssoc, AssocDone, ReportFail, ReportJoin,
     JoinIgnored, JoinConnected, JoinCancelsTimer
<1>4. CASE TStep
  <2>1. CASE RoamNext
    <3> DEFINE n == (to_roam + RoamMod - 1) % RoamMod
    <3>1. UNCHANGED <<retry, calls, losses>>
      BY <2>1 DEF RoamNext
    <3>2. n \in 0 .. RoamMod - 1
      OBVIOUS
    <3>3. to_roam' \in 0 .. RoamMod - 1
      <4>1. CASE n > 0
        <5>1. Roam(queue, 1 .. n)
          BY <2>1, <4>1 DEF RoamNext
        <5> HIDE DEF n
        <5> QED BY <5>1, <3>2, RoamTypes
      <4>2. CASE ~(n > 0)
        BY <2>1, <4>2 DEF RoamNext
      <4> QED BY <4>1, <4>2
    <3> QED BY <3>1, <3>3
  <2>2. CASE AssocTimer \/ JoinTimeout \/ JoinTimeoutRoams
    BY <2>2 DEF AssocTimer, JoinTimeout, JoinTimeoutRoams
  <2> QED BY <1>4, <2>1, <2>2 DEF TStep
<1>5. CASE LinkTimerStep
  BY <1>5 DEF LinkTimerStep, LinkTimer, LinkTimerFails
<1>6. CASE Env
  <2>1. CASE ConnectBegins \/ DisconnectBegins \/ ScanBegins
    <3>1. calls' \in 0 .. MaxCalls
      BY <2>1 DEF ConnectBegins, DisconnectBegins, ScanBegins, Call
    <3>2. to_roam' \in {to_roam, 0} /\ UNCHANGED <<retry, losses>>
      BY <2>1 DEF ConnectBegins, DisconnectBegins, ScanBegins
    <3> QED BY <3>1, <3>2
  <2>2. CASE LinkedStatusChk
    BY <2>2 DEF LinkedStatusChk, ReceiveDisconnect
  <2>3. CASE SurveyTimeout \/ OnBeacon \/ OnAuthClient \/ OnAssocRsp \/ ReceiveRefusal
             \/ OnDeAuth
    BY <2>3 DEF SurveyTimeout, OnBeacon, OnAuthClient, OnAssocRsp, RecvCheck, ReceiveRefusal,
       ReceiveDisconnect, OnDeAuth
  <2> QED BY <1>6, <2>1, <2>2, <2>3 DEF Env
<1> QED BY <1>1, <1>2, <1>3, <1>4, <1>5, <1>6 DEF Next

\* The flags of the interface, the surveys and the queue.
LEMMA DataStep == TypeOK /\ [Next]_vars => DataTypes'
<1> SUFFICES ASSUME TypeOK, [Next]_vars PROVE DataTypes'
  OBVIOUS
<1>0. FlagTypes /\ CountTypes /\ DataTypes
  BY TypeParts
<1> USE <1>0 DEF DataTypes, Flags
<1>1. CASE UStep \/ UNCHANGED vars
  <2>1. CASE ConnectJoin
    <3>1. PICK outcome \in Outcome, candidate \in BOOLEAN :
            DoJoin(queue, candidate /\ linked, outcome)
      BY <2>1, Zenon DEF ConnectJoin
    <3>2. (candidate /\ linked) \in BOOLEAN
      BY Zenon DEF FlagTypes
    <3>3. scans' \in Nat /\ queue' \in Seq(Commands)
      BY <3>1, <3>2, DoJoinTypes DEF FlagTypes
    <3> QED BY <2>1, <3>3 DEF ConnectJoin
  <2>2. CASE ~ConnectJoin
    BY <1>1, <2>2 DEF UStep, ConnectLater, ConnectRefused, DisconnectHdl, DisconnectReport,
       DisconnectClear, vars
  <2> QED BY <2>1, <2>2
<1>2. CASE KStep
  <2>1. CASE JoinCmd \/ JoinCmdFails \/ JoinDropped \/ DiscCmd
    <3>1. queue' \in Seq(Commands)
      BY <2>1 DEF JoinCmd, JoinCmdFails, JoinDropped, DiscCmd, Take
    <3>2. state' \in SUBSET Flags /\ scans' = scans
      BY <2>1 DEF JoinCmd, JoinCmdFails, JoinDropped, DiscCmd
    <3> QED BY <3>1, <3>2
  <2>2. ASSUME NEW c, StaDel(c) PROVE DataTypes'
    <3>1. Tail(queue) \in Seq(Commands) /\ state' \in SUBSET Flags
      BY <2>2 DEF StaDel
    <3>2. TriesAfter(c) \in 0 .. RoamMod - 1
      BY JoinAssumption DEF TriesAfter, CountTypes
    <3>3. CASE TriesAfter(c) > 0
      <4>1. Roam(Tail(queue), 1 .. TriesAfter(c))
        BY <2>2, <3>3 DEF StaDel
      <4> QED BY <3>1, <3>2, <4>1, RoamTypes
    <3>4. CASE ~(TriesAfter(c) > 0)
      <4>1. queue' = Tail(queue) /\ scans' = scans
        BY <2>2, <3>4 DEF StaDel
      <4> QED BY <3>1, <4>1
    <3> QED BY <3>3, <3>4
  <2>3. CASE SurveyedJoin
    <3>1. DoJoin(queue, linked, "join")
      BY <2>3 DEF SurveyedJoin
    <3>2. scans' \in Nat /\ queue' \in Seq(Commands)
      BY <3>1, DoJoinTypes DEF FlagTypes
    <3> QED BY <2>3, <3>2 DEF SurveyedJoin
  <2>4. CASE SurveyedAgain
    BY <2>4, StartSurveyTypes DEF SurveyedAgain
  <2>5. CASE SurveyDone \/ SurveyedIdle \/ SurveyedGiveUp
    <3>1. state' = state /\ queue' = queue /\ scans' \in Nat
      BY <2>5 DEF SurveyDone, SurveyedIdle, SurveyedGiveUp
    <3> QED BY <3>1
  <2> QED BY <1>2, <2>1, <2>2, <2>3, <2>4, <2>5 DEF KStep
<1>3. CASE RStep
  BY <1>3 DEF RStep, StartClntAuth, OnAuthAgain, StartClntAssoc, AssocDone, ReportFail, ReportJoin,
     JoinIgnored, JoinConnected, JoinCancelsTimer
<1>4. CASE TStep
  <2>1. CASE RoamNext
    <3> DEFINE n == (to_roam + RoamMod - 1) % RoamMod
    <3>1. n \in 0 .. RoamMod - 1
      BY JoinAssumption DEF CountTypes
    <3>2. CASE n > 0
      <4>1. Roam(queue, 1 .. n) /\ state' = state
        BY <2>1, <3>2 DEF RoamNext
      <4> HIDE DEF n
      <4> QED BY <4>1, <3>1, RoamTypes
    <3>3. CASE ~(n > 0)
      BY <2>1, <3>3 DEF RoamNext
    <3> QED BY <3>2, <3>3
  <2>2. CASE AssocTimer \/ JoinTimeout \/ JoinTimeoutRoams
    BY <2>2 DEF AssocTimer, JoinTimeout, JoinTimeoutRoams
  <2> QED BY <1>4, <2>1, <2>2 DEF TStep
<1>5. CASE LinkTimerStep
  BY <1>5 DEF LinkTimerStep, LinkTimer, LinkTimerFails
<1>6. CASE Env
  <2>1. CASE ScanBegins
    BY <2>1, StartSurveyTypes DEF ScanBegins
  <2>2. CASE OnDeAuth \/ LinkedStatusChk
    BY <2>2 DEF OnDeAuth, LinkedStatusChk, ReceiveDisconnect, Commands
  <2>3. CASE ConnectBegins \/ DisconnectBegins \/ SurveyTimeout \/ OnBeacon \/ OnAuthClient
             \/ OnAssocRsp \/ ReceiveRefusal
    BY <2>3 DEF ConnectBegins, DisconnectBegins, SurveyTimeout, OnBeacon, OnAuthClient,
       OnAssocRsp, RecvCheck, ReceiveRefusal
  <2> QED BY <1>6, <2>1, <2>2, <2>3 DEF Env
<1> QED BY <1>1, <1>2, <1>3, <1>4, <1>5, <1>6 DEF Next

\* What is true or false stays so.
LEMMA FlagStep == TypeOK /\ [Next]_vars => FlagTypes'
<1> SUFFICES ASSUME TypeOK, [Next]_vars PROVE FlagTypes'
  OBVIOUS
<1>0. FlagTypes /\ CountTypes /\ DataTypes
  BY TypeParts
<1> USE DEF FlagTypes, fw, timers, reports, IndicateDisconnect, ReportDisconnect
<1>1. CASE UStep \/ UNCHANGED vars
  <2>1. CASE ConnectJoin
    <3>1. PICK outcome \in Outcome, candidate \in BOOLEAN :
            /\ DoJoin(queue, candidate /\ linked, outcome)
            /\ linked' = (linked /\ ~(candidate /\ linked))
            /\ sta' = (sta /\ ~(candidate /\ linked))
            /\ told' = (told /\ ~(candidate /\ linked))
            /\ awaiting' = (outcome # "fail")
      BY <2>1, Zenon DEF ConnectJoin
    <3>2. (candidate /\ linked) \in BOOLEAN
      BY <1>0, Zenon
    <3>3. /\ linking' \in BOOLEAN /\ to_join' \in BOOLEAN /\ assoc_timer' \in BOOLEAN
          /\ survey' \in BOOLEAN
      BY <1>0, <3>1, <3>2, DoJoinTypes DEF DataTypes
    <3> QED BY <1>0, <2>1, <3>1, <3>3, Zenon DEF ConnectJoin
  <2>2. CASE ConnectLater \/ ConnectRefused
    BY <1>0, <2>2, Zenon DEF ConnectLater, ConnectRefused, intent
  <2>3. CASE DisconnectHdl \/ DisconnectReport \/ DisconnectClear
    BY <1>0, <2>3, Zenon DEF DisconnectHdl, DisconnectReport, DisconnectClear, intent
  <2>4. CASE UNCHANGED vars
    BY <1>0, <2>4, Zenon DEF vars, intent
  <2> QED BY <1>1, <2>1, <2>2, <2>3, <2>4 DEF UStep
<1>2. CASE KStep
  <2>1. CASE JoinCmd \/ JoinCmdFails \/ JoinDropped \/ DiscCmd
    BY <1>0, <2>1, Zenon DEF JoinCmd, JoinCmdFails, JoinFails, JoinDropped, DiscCmd, intent
  <2>2. ASSUME NEW c, StaDel(c) PROVE FlagTypes'
    <3>1. /\ linked' \in BOOLEAN /\ sta' \in BOOLEAN /\ link_timer' \in BOOLEAN
          /\ overlap' \in BOOLEAN
      BY <1>0, <2>2, Zenon DEF StaDel
    <3>2. CASE TriesAfter(c) > 0
      <4>1. Roam(Tail(queue), 1 .. TriesAfter(c)) /\ Tail(queue) \in Seq(Commands)
        BY <1>0, <2>2, <3>2 DEF StaDel, DataTypes
      <4>2. TriesAfter(c) \in 0 .. RoamMod - 1
        BY <1>0, JoinAssumption DEF TriesAfter, CountTypes
      <4> QED BY <3>1, <4>1, <4>2, RoamTypes, Zenon
    <3>3. CASE ~(TriesAfter(c) > 0)
      BY <1>0, <2>2, <3>1, <3>3, Zenon DEF StaDel
    <3> QED BY <3>2, <3>3
  <2>3. CASE SurveyedJoin
    <3>1. DoJoin(queue, linked, "join")
      BY <2>3 DEF SurveyedJoin
    <3>2. /\ linking' \in BOOLEAN /\ to_join' \in BOOLEAN /\ assoc_timer' \in BOOLEAN
          /\ survey' \in BOOLEAN
      BY <1>0, <3>1, DoJoinTypes DEF DataTypes
    <3> QED BY <1>0, <2>3, <3>2, Zenon DEF SurveyedJoin
  <2>4. CASE SurveyedAgain
    BY <1>0, <2>4, StartSurveyTypes, Zenon DEF SurveyedAgain, DataTypes
  <2>5. CASE SurveyDone \/ SurveyedIdle \/ SurveyedGiveUp
    BY <1>0, <2>5, Zenon DEF SurveyDone, SurveyedIdle, SurveyedGiveUp, intent
  <2> QED BY <1>2, <2>1, <2>2, <2>3, <2>4, <2>5 DEF KStep
<1>3. CASE RStep
  <2>1. CASE StartClntAuth \/ OnAuthAgain \/ StartClntAssoc \/ AssocDone
    BY <1>0, <2>1, Zenon DEF StartClntAuth, OnAuthAgain, StartClntAssoc, AssocDone, intent
  <2>2. CASE ReportFail \/ ReportJoin \/ JoinIgnored
    BY <1>0, <2>2, Zenon DEF ReportFail, JoinFails, ReportJoin, JoinIgnored, intent
  <2>3. CASE JoinConnected \/ JoinCancelsTimer
    BY <1>0, <2>3, Zenon DEF JoinConnected, JoinCancelsTimer, intent
  <2> QED BY <1>3, <2>1, <2>2, <2>3 DEF RStep
<1>4. CASE TStep
  <2>1. CASE RoamNext
    <3> DEFINE n == (to_roam + RoamMod - 1) % RoamMod
    <3>1. n \in 0 .. RoamMod - 1
      BY <1>0, JoinAssumption DEF CountTypes
    <3>2. sta' \in BOOLEAN /\ link_timer' \in BOOLEAN /\ overlap' \in BOOLEAN
      BY <1>0, <2>1, Zenon DEF RoamNext
    <3>3. CASE n > 0
      <4>1. Roam(queue, 1 .. n) /\ linked' = linked
        BY <2>1, <3>3 DEF RoamNext
      <4> HIDE DEF n
      <4> QED BY <1>0, <3>1, <3>2, <4>1, RoamTypes, Zenon DEF DataTypes
    <3>4. CASE ~(n > 0)
      <4>1. /\ linking' = FALSE /\ linked' = FALSE /\ told' = FALSE /\ awaiting' = FALSE
            /\ UNCHANGED <<to_join, survey, assoc_timer>>
        BY <2>1, <3>4 DEF RoamNext
      <4> QED BY <1>0, <3>2, <4>1, Zenon
    <3> QED BY <3>3, <3>4
  <2>2. CASE AssocTimer \/ JoinTimeout \/ JoinTimeoutRoams
    BY <1>0, <2>2, Zenon DEF AssocTimer, JoinTimeout, JoinTimeoutRoams, intent
  <2> QED BY <1>4, <2>1, <2>2 DEF TStep
<1>5. CASE LinkTimerStep
  BY <1>0, <1>5, Zenon DEF LinkTimerStep, LinkTimer, LinkTimerFails, JoinFails, intent
<1>6. CASE Env
  <2>1. CASE ScanBegins
    BY <1>0, <2>1, StartSurveyTypes, Zenon DEF ScanBegins, DataTypes, intent
  <2>2. CASE ConnectBegins \/ DisconnectBegins \/ SurveyTimeout
    BY <1>0, <2>2, Zenon DEF ConnectBegins, DisconnectBegins, SurveyTimeout, intent
  <2>3. CASE OnBeacon \/ OnAuthClient \/ OnAssocRsp
    BY <1>0, <2>3, Zenon DEF OnBeacon, OnAuthClient, OnAssocRsp, RecvCheck, intent
  <2>4. CASE ReceiveRefusal \/ OnDeAuth \/ LinkedStatusChk
    BY <1>0, <2>4, Zenon DEF ReceiveRefusal, JoinFails, ReceiveDisconnect, OnDeAuth,
       LinkedStatusChk, intent
  <2> QED BY <1>6, <2>1, <2>2, <2>3, <2>4 DEF Env
<1> QED BY <1>1, <1>2, <1>3, <1>4, <1>5, <1>6 DEF Next

\* The initial values have their types.
LEMMA TypeInit == Init => TypeOK
<1> SUFFICES ASSUME Init PROVE TypeOK
  OBVIOUS
<1>1. FlagTypes
  BY Zenon DEF Init, FlagTypes
<1>2. PcTypes /\ CountTypes /\ DataTypes
  BY JoinAssumption DEF Init, PcTypes, CountTypes, DataTypes, Flags
<1> QED BY <1>1, <1>2, TypeParts

\* Every step preserves the four parts.
LEMMA TypeStep == TypeOK /\ [Next]_vars => TypeOK'
<1> SUFFICES ASSUME TypeOK, [Next]_vars PROVE TypeOK'
  OBVIOUS
<1>1. FlagTypes' /\ PcTypes' /\ CountTypes' /\ DataTypes'
  BY TypeParts, FlagStep, PcStep, CountStep, DataStep
<1>2. TypeOK' <=> FlagTypes' /\ PcTypes' /\ CountTypes' /\ DataTypes'
  BY Zenon DEF TypeOK, FlagTypes, PcTypes, CountTypes, DataTypes, Commands
<1> QED BY <1>1, <1>2

\* The retries of authentication and association stay within their limit and to_roam
\* within its byte, whoever decrements it and however often it wraps, for every limit,
\* modulus and number of inputs.
THEOREM TypeCorrect == Spec => []TypeOK
BY TypeInit, TypeStep, PTL DEF Spec

-----------------------------------------------------------------------------
(* What cfg80211 was told.                                                  *)

\* A disconnect has begun and has not reported yet.
Leaving == upc \in {"disc", "indicate"}

\* "connected" is true, or it is about to be taken back; and where the linked flag may
\* be cleared without a report (a join under way that fails to allocate its station, and
\* the end of a disconnect) the station roams or the report is about to be taken back.
ToldInv ==
    /\ told => linked \/ to_roam > 0 \/ overlap \/ Leaving
    /\ told /\ (linking \/ rpc = "locked" \/ upc = "clear")
         => to_roam > 0 \/ overlap \/ Leaving

\* Nothing was reported at first.
LEMMA ToldInit == Init => ToldInv
BY DEF Init, ToldInv

\* A roam reports its end or has a try left.
LEMMA RoamTold ==
    ASSUME NEW q, NEW n \in Int, Roam(q, 1 .. n)
    PROVE  ~told' \/ (told' = told /\ to_roam' > 0)
<1>1. told' = FALSE \/ (told' = told /\ to_roam' \in 1 .. n)
  BY Zenon DEF Roam, ReportDisconnect, reports
<1> QED BY <1>1

\* Steps of connect and disconnect.
LEMMA ToldU == ToldInv /\ UStep => ToldInv'
<1> SUFFICES ASSUME ToldInv, UStep PROVE ToldInv'
  OBVIOUS
<1> USE DEF ToldInv, Leaving, fw, intent, reports, IndicateDisconnect, ReportDisconnect
<1>1. CASE ConnectJoin
  BY <1>1 DEF ConnectJoin, DoJoin, LockFree
<1>2. CASE ConnectLater
  BY <1>2 DEF ConnectLater
<1>3. CASE ConnectRefused
  BY <1>3 DEF ConnectRefused
<1>4. CASE DisconnectHdl
  BY <1>4 DEF DisconnectHdl
<1>5. CASE DisconnectReport
  BY <1>5 DEF DisconnectReport, LockFree
<1>6. CASE DisconnectClear
  BY <1>6 DEF DisconnectClear
<1> QED BY <1>1, <1>2, <1>3, <1>4, <1>5, <1>6 DEF UStep

\* Steps of the command thread.
LEMMA ToldK == TypeOK /\ ToldInv /\ KStep => ToldInv'
<1> SUFFICES ASSUME TypeOK, ToldInv, KStep PROVE ToldInv'
  OBVIOUS
<1>0. to_roam \in Nat
  BY JoinAssumption DEF TypeOK
<1> USE DEF ToldInv, Leaving, fw, intent, reports, pcs, IndicateDisconnect, ReportDisconnect
<1>1. CASE JoinCmd \/ JoinDropped \/ DiscCmd
  BY <1>1 DEF JoinCmd, JoinDropped, DiscCmd
<1>2. CASE JoinCmdFails
  BY <1>2 DEF JoinCmdFails, JoinFails
<1>3. ASSUME NEW c, StaDel(c) PROVE ToldInv'
  <2>1. ~told' \/ to_roam' > 0
    <3>1. CASE TriesAfter(c) > 0
      <4>1. Roam(Tail(queue), 1 .. TriesAfter(c)) /\ TriesAfter(c) \in Int
        BY <1>0, <1>3, <3>1, JoinAssumption DEF StaDel, TriesAfter
      <4> QED BY <4>1, RoamTold
    <3>2. CASE ~(TriesAfter(c) > 0)
      BY <1>3, <3>2 DEF StaDel
    <3> QED BY <3>1, <3>2
  <2> QED BY <2>1
<1>4. CASE SurveyDone \/ SurveyedIdle
  BY <1>4 DEF SurveyDone, SurveyedIdle
<1>5. CASE SurveyedJoin
  BY <1>0, <1>5 DEF SurveyedJoin, DoJoin, LockFree
<1>6. CASE SurveyedAgain
  BY <1>0, <1>6 DEF SurveyedAgain
<1>7. CASE SurveyedGiveUp
  BY <1>7 DEF SurveyedGiveUp
<1> QED BY <1>1, <1>2, <1>3, <1>4, <1>5, <1>6, <1>7 DEF KStep

\* Steps of the receive tasklet.
LEMMA ToldR == ToldInv /\ RStep => ToldInv'
<1> SUFFICES ASSUME ToldInv, RStep PROVE ToldInv'
  OBVIOUS
<1> USE DEF ToldInv, Leaving, fw, intent, reports
<1>1. CASE StartClntAuth \/ OnAuthAgain \/ StartClntAssoc \/ AssocDone
  BY <1>1 DEF StartClntAuth, OnAuthAgain, StartClntAssoc, AssocDone
<1>2. CASE ReportFail
  BY <1>2 DEF ReportFail, JoinFails
<1>3. CASE ReportJoin
  BY <1>3 DEF ReportJoin
<1>4. CASE JoinIgnored
  BY <1>4 DEF JoinIgnored
<1>5. CASE JoinConnected
  BY <1>5 DEF JoinConnected
<1>6. CASE JoinCancelsTimer
  BY <1>6 DEF JoinCancelsTimer
<1> QED BY <1>1, <1>2, <1>3, <1>4, <1>5, <1>6 DEF RStep

\* Steps of the timers' handlers.
LEMMA ToldT == TypeOK /\ ToldInv /\ (TStep \/ LinkTimerStep) => ToldInv'
<1> SUFFICES ASSUME TypeOK, ToldInv, TStep \/ LinkTimerStep PROVE ToldInv'
  OBVIOUS
<1> USE DEF ToldInv, Leaving, fw, intent, reports, pcs, ReportDisconnect
<1>1. CASE AssocTimer
  BY <1>1 DEF AssocTimer
<1>2. CASE JoinTimeout
  BY <1>2 DEF JoinTimeout
<1>3. CASE JoinTimeoutRoams
  BY <1>3 DEF JoinTimeoutRoams
<1>4. CASE RoamNext
  <2> DEFINE n == (to_roam + RoamMod - 1) % RoamMod
  <2>1. ~told' \/ to_roam' > 0
    <3>1. CASE n > 0
      <4>1. Roam(queue, 1 .. n)
        BY <1>4, <3>1 DEF RoamNext
      <4>2. n \in Int
        BY JoinAssumption DEF TypeOK
      <4> HIDE DEF n
      <4> QED BY <4>1, <4>2, RoamTold
    <3>2. CASE ~(n > 0)
      BY <1>4, <3>2 DEF RoamNext
    <3> QED BY <3>1, <3>2
  <2> QED BY <2>1
<1>5. CASE LinkTimer
  BY <1>5 DEF LinkTimer
<1>6. CASE LinkTimerFails
  BY <1>6 DEF LinkTimerFails, JoinFails
<1> QED BY <1>1, <1>2, <1>3, <1>4, <1>5, <1>6 DEF TStep, LinkTimerStep

\* Calls of cfg80211, frames and losses.
LEMMA ToldEnv == ToldInv /\ Env => ToldInv'
<1> SUFFICES ASSUME ToldInv, Env PROVE ToldInv'
  OBVIOUS
<1> USE DEF ToldInv, Leaving, fw, intent, reports, pcs
<1>1. CASE ConnectBegins \/ DisconnectBegins
  BY <1>1 DEF ConnectBegins, DisconnectBegins
<1>2. CASE ScanBegins \/ SurveyTimeout
  BY <1>2 DEF ScanBegins, SurveyTimeout
<1>3. CASE OnBeacon \/ OnAuthClient \/ OnAssocRsp
  BY <1>3 DEF OnBeacon, OnAuthClient, OnAssocRsp, RecvCheck
<1>4. CASE ReceiveRefusal
  BY <1>4 DEF ReceiveRefusal, JoinFails
<1>5. CASE OnDeAuth \/ LinkedStatusChk
  BY <1>5 DEF OnDeAuth, LinkedStatusChk, ReceiveDisconnect
<1> QED BY <1>1, <1>2, <1>3, <1>4, <1>5 DEF Env

\* Every step keeps the report true or about to be taken back.
LEMMA ToldStep == TypeOK /\ ToldInv /\ [Next]_vars => ToldInv'
<1>1. ToldInv /\ UNCHANGED vars => ToldInv'
  BY DEF ToldInv, Leaving, vars, fw, intent, reports, pcs
<1> QED BY <1>1, ToldU, ToldK, ToldR, ToldT, ToldEnv DEF Next

\* Outside the calls of cfg80211 nothing is about to be taken back.
LEMMA ToldIsLinked == TypeOK /\ ToldInv => ReportedIsLinked
BY DEF TypeOK, ToldInv, Leaving, ReportedIsLinked

\* What cfg80211 was last told is true, for any number of calls, losses, tries and
\* retries: no order of the steps that clear the linked flag, that give up a roam and that
\* report leaves "connected" standing of a station that neither is linked nor roams, as
\* long as no unlocked step of a disconnect falls into a locked section.
THEOREM ReportIsTrue == Spec => []ReportedIsLinked
<1>1. TypeOK /\ ToldInv /\ [Next]_vars => TypeOK' /\ ToldInv'
  BY TypeStep, ToldStep
<1> QED BY <1>1, TypeInit, ToldInit, ToldIsLinked, PTL DEF Spec

-----------------------------------------------------------------------------
(* What a step does to the linked flag and to a join, for SaeJoinProofs.    *)

\* A station that roams is not linked, so no step of a roam reports of a linked one.
RoamsUnlinked == linked /\ to_roam > 0 => overlap

\* A step that links reports it and ends the connect; no other step makes a linked
\* station one that cfg80211 does not know of, except in the middle of a disconnect.
LinksReported ==
    /\ linked' => linked \/ (told' /\ ~awaiting')
    /\ linked' /\ upc' # "clear"
         => told' \/ overlap' \/ (linked /\ upc # "clear" /\ ~told /\ ~overlap)
    /\ overlap => overlap'
    /\ RoamsUnlinked'

\* The calls of cfg80211 link nothing that is not reported.
LEMMA LinksU == RoamsUnlinked /\ (UStep \/ UNCHANGED vars) => LinksReported
<1> SUFFICES ASSUME RoamsUnlinked, UStep \/ UNCHANGED vars PROVE LinksReported
  OBVIOUS
<1> USE DEF RoamsUnlinked, LinksReported, fw, intent, reports, pcs
<1>1. CASE ConnectJoin
  BY <1>1 DEF ConnectJoin
<1>2. CASE ConnectLater \/ ConnectRefused
  BY <1>2 DEF ConnectLater, ConnectRefused
<1>3. CASE DisconnectHdl \/ DisconnectReport \/ DisconnectClear
  <2>1. overlap => overlap'
    BY <1>3, Zenon DEF DisconnectHdl, DisconnectReport, DisconnectClear
  <2> QED BY <1>3, <2>1 DEF DisconnectHdl, DisconnectReport, DisconnectClear
<1>4. CASE UNCHANGED vars
  BY <1>4 DEF vars
<1> QED BY <1>1, <1>2, <1>3, <1>4 DEF UStep

\* Nor does the command thread.
LEMMA LinksK == TypeOK /\ RoamsUnlinked /\ KStep => LinksReported
<1> SUFFICES ASSUME TypeOK, RoamsUnlinked, KStep PROVE LinksReported
  OBVIOUS
<1>0. to_roam \in Nat
  BY JoinAssumption DEF TypeOK
<1> USE DEF RoamsUnlinked, LinksReported, fw, intent, reports, pcs
<1>1. CASE JoinCmd \/ JoinCmdFails \/ JoinDropped \/ DiscCmd \/ SurveyDone \/ SurveyedIdle
  BY <1>1 DEF JoinCmd, JoinCmdFails, JoinDropped, DiscCmd, SurveyDone, SurveyedIdle
<1>2. ASSUME NEW c, StaDel(c) PROVE LinksReported
  BY <1>2 DEF StaDel
<1>3. CASE SurveyedJoin \/ SurveyedGiveUp
  BY <1>3 DEF SurveyedJoin, SurveyedGiveUp
<1>4. CASE SurveyedAgain
  BY <1>0, <1>4 DEF SurveyedAgain
<1> QED BY <1>1, <1>2, <1>3, <1>4 DEF KStep

\* The tasklet reports what it links.
LEMMA LinksR == RoamsUnlinked /\ RStep => LinksReported
<1> SUFFICES ASSUME RoamsUnlinked, RStep PROVE LinksReported
  OBVIOUS
<1> USE DEF RoamsUnlinked, LinksReported, fw, intent, reports
<1>1. CASE StartClntAuth \/ OnAuthAgain \/ StartClntAssoc \/ AssocDone
  BY <1>1 DEF StartClntAuth, OnAuthAgain, StartClntAssoc, AssocDone
<1>2. CASE ReportFail \/ ReportJoin \/ JoinIgnored \/ JoinCancelsTimer
  BY <1>2 DEF ReportFail, ReportJoin, JoinIgnored, JoinCancelsTimer
<1>3. CASE JoinConnected
  <2>1. overlap => overlap'
    BY <1>3, Zenon DEF JoinConnected
  <2> QED BY <1>3, <2>1 DEF JoinConnected
<1> QED BY <1>1, <1>2, <1>3 DEF RStep

\* The time-outs link nothing.
LEMMA LinksT == RoamInv /\ RoamsUnlinked /\ (TStep \/ LinkTimerStep) => LinksReported
<1> SUFFICES ASSUME RoamInv, RoamsUnlinked, TStep \/ LinkTimerStep PROVE LinksReported
  OBVIOUS
<1> USE DEF RoamsUnlinked, LinksReported, fw, intent, reports, pcs
<1>1. CASE AssocTimer \/ JoinTimeout \/ JoinTimeoutRoams
  BY <1>1 DEF AssocTimer, JoinTimeout, JoinTimeoutRoams
<1>2. CASE RoamNext
  <2>1. overlap \/ ~linked
    BY <1>2 DEF RoamNext, RoamInv, Tries
  <2>2. overlap' = overlap /\ (linked' => linked) /\ upc' = upc
    BY <1>2, Zenon DEF RoamNext
  <2> QED BY <2>1, <2>2
<1>3. CASE LinkTimer \/ LinkTimerFails
  BY <1>3 DEF LinkTimer, LinkTimerFails
<1> QED BY <1>1, <1>2, <1>3 DEF TStep, LinkTimerStep

\* Nor do the peer and the firmware.
LEMMA LinksEnv == RoamsUnlinked /\ Env => LinksReported
<1> SUFFICES ASSUME RoamsUnlinked, Env PROVE LinksReported
  OBVIOUS
<1> USE DEF RoamsUnlinked, LinksReported, fw, intent, reports, pcs
<1>1. CASE ConnectBegins \/ DisconnectBegins \/ ScanBegins \/ SurveyTimeout
  <2>1. overlap => overlap'
    BY <1>1, Zenon DEF ConnectBegins, DisconnectBegins, ScanBegins, SurveyTimeout
  <2> QED BY <1>1, <2>1 DEF ConnectBegins, DisconnectBegins, ScanBegins, SurveyTimeout
<1>2. CASE OnBeacon \/ OnAuthClient \/ OnAssocRsp \/ ReceiveRefusal
  BY <1>2 DEF OnBeacon, OnAuthClient, OnAssocRsp, RecvCheck, ReceiveRefusal
<1>3. CASE OnDeAuth \/ LinkedStatusChk
  BY <1>3 DEF OnDeAuth, LinkedStatusChk, ReceiveDisconnect
<1> QED BY <1>1, <1>2, <1>3 DEF Env

\* So no step links a station it does not report.
LEMMA LinksStep == TypeOK /\ RoamInv /\ RoamsUnlinked /\ [Next]_vars => LinksReported
BY LinksU, LinksK, LinksR, LinksT, LinksEnv DEF Next

\* A step begins a join, or a survey for one, only for the connect it is part of, for a
\* roam or for the survey that was for one; only a join that R has found under way
\* is reported; and a disconnect that has reported leaves nothing of a join behind.
JoinsOnPurpose ==
    /\ to_join' => to_join \/ to_roam' > 0 \/ (upc = "connect" /\ awaiting')
    /\ linking' => linking \/ to_join \/ to_roam' > 0 \/ (upc = "connect" /\ awaiting')
    /\ told' => told \/ rpc = "locked"
    /\ rpc' = "locked" => rpc = "locked" \/ linking
    /\ Leaving /\ ~Leaving'
         => overlap' \/ to_roam' > 0 \/ ~(told' \/ awaiting' \/ linking' \/ rpc' = "locked")

\* rtw_do_join begins a join or a survey for one unless it fails.
LEMMA DoJoinBegins ==
    ASSUME NEW q, NEW left, NEW outcome, DoJoin(q, left, outcome)
    PROVE  linking' \/ to_join' => outcome # "fail"
BY Zenon DEF DoJoin

\* A roam that does has a try left.
LEMMA RoamBegins ==
    ASSUME NEW q, NEW n \in Int, Roam(q, 1 .. n)
    PROVE  linking' \/ to_join' => to_roam' > 0
<1>1. CASE to_roam' \in 1 .. n
  BY <1>1
<1>2. CASE DoJoin(q, FALSE, "fail")
  BY <1>2, DoJoinBegins
<1> QED BY <1>1, <1>2, Zenon DEF Roam

\* The calls of cfg80211 begin a join only in connect.
LEMMA PurposeU == UStep \/ UNCHANGED vars => JoinsOnPurpose
<1> SUFFICES ASSUME UStep \/ UNCHANGED vars PROVE JoinsOnPurpose
  OBVIOUS
<1> USE DEF JoinsOnPurpose, Leaving, fw, intent, reports, pcs
<1>1. CASE ConnectJoin
  <2>1. linking' \/ to_join' => awaiting'
    BY <1>1, DoJoinBegins, Zenon DEF ConnectJoin
  <2> QED BY <1>1, <2>1 DEF ConnectJoin
<1>2. CASE ConnectLater \/ ConnectRefused
  BY <1>2 DEF ConnectLater, ConnectRefused
<1>3. CASE DisconnectHdl \/ DisconnectClear
  BY <1>3 DEF DisconnectHdl, DisconnectClear
<1>4. CASE DisconnectReport
  <2>1. told' \/ awaiting' => to_roam > 0
    BY <1>4, Zenon DEF DisconnectReport, IndicateDisconnect, ReportDisconnect
  <2>2. rpc = "locked" => overlap'
    BY <1>4, Zenon DEF DisconnectReport, LockFree
  <2>3. told' => told
    BY <1>4, Zenon DEF DisconnectReport, IndicateDisconnect, ReportDisconnect
  <2> QED BY <1>4, <2>1, <2>2, <2>3 DEF DisconnectReport
<1>5. CASE UNCHANGED vars
  BY <1>5 DEF vars
<1> QED BY <1>1, <1>2, <1>3, <1>4, <1>5 DEF UStep

\* The command thread only goes on with a survey or a roam.
LEMMA PurposeK == TypeOK /\ KStep => JoinsOnPurpose
<1> SUFFICES ASSUME TypeOK, KStep PROVE JoinsOnPurpose
  OBVIOUS
<1>0. to_roam \in Nat
  BY JoinAssumption DEF TypeOK
<1> USE DEF JoinsOnPurpose, Leaving, fw, intent, reports, pcs
<1>1. CASE JoinCmd \/ JoinDropped \/ DiscCmd \/ SurveyDone \/ SurveyedIdle
  BY <1>1 DEF JoinCmd, JoinDropped, DiscCmd, SurveyDone, SurveyedIdle
<1>2. CASE JoinCmdFails
  BY <1>2 DEF JoinCmdFails, JoinFails
<1>3. ASSUME NEW c, StaDel(c) PROVE JoinsOnPurpose
  <2>1. UNCHANGED <<upc, rpc>>
    BY <1>3 DEF StaDel
  <2>2. CASE TriesAfter(c) > 0
    <3>1. Roam(Tail(queue), 1 .. TriesAfter(c)) /\ TriesAfter(c) \in Int
      BY <1>0, <1>3, <2>2, JoinAssumption DEF StaDel, TriesAfter
    <3>2. linking' \/ to_join' => to_roam' > 0
      BY <3>1, RoamBegins
    <3>3. told' => told
      BY <3>1, Zenon DEF Roam, ReportDisconnect
    <3> QED BY <2>1, <3>2, <3>3
  <2>3. CASE ~(TriesAfter(c) > 0)
    <3>1. (to_join' => to_join) /\ ~linking' /\ ~told'
      BY <1>3, <2>3, Zenon DEF StaDel, ReportDisconnect
    <3> QED BY <2>1, <3>1
  <2> QED BY <2>2, <2>3
<1>4. CASE SurveyedJoin
  <2>1. told' => told
    BY <1>4, Zenon DEF SurveyedJoin, IndicateDisconnect, ReportDisconnect
  <2> QED BY <1>4, <2>1 DEF SurveyedJoin, DoJoin
<1>5. CASE SurveyedAgain \/ SurveyedGiveUp
  BY <1>5 DEF SurveyedAgain, SurveyedGiveUp, ReportDisconnect
<1> QED BY <1>1, <1>2, <1>3, <1>4, <1>5 DEF KStep

\* The tasklet only ends joins.
LEMMA PurposeR == RStep => JoinsOnPurpose
<1> SUFFICES ASSUME RStep PROVE JoinsOnPurpose
  OBVIOUS
<1> USE DEF JoinsOnPurpose, Leaving, fw, intent, reports
<1>1. CASE StartClntAuth \/ OnAuthAgain \/ StartClntAssoc \/ AssocDone
  BY <1>1 DEF StartClntAuth, OnAuthAgain, StartClntAssoc, AssocDone
<1>2. CASE ReportFail \/ JoinIgnored \/ JoinCancelsTimer
  BY <1>2 DEF ReportFail, JoinFails, JoinIgnored, JoinCancelsTimer
<1>3. CASE ReportJoin
  BY <1>3 DEF ReportJoin
<1>4. CASE JoinConnected
  BY <1>4 DEF JoinConnected
<1> QED BY <1>1, <1>2, <1>3, <1>4 DEF RStep

\* The time-outs begin at most the next try of a roam.
LEMMA PurposeT == TypeOK /\ (TStep \/ LinkTimerStep) => JoinsOnPurpose
<1> SUFFICES ASSUME TypeOK, TStep \/ LinkTimerStep PROVE JoinsOnPurpose
  OBVIOUS
<1> USE DEF JoinsOnPurpose, Leaving, fw, intent, reports, pcs
<1>1. CASE AssocTimer \/ JoinTimeout \/ JoinTimeoutRoams
  BY <1>1 DEF AssocTimer, JoinTimeout, JoinTimeoutRoams, ReportDisconnect
<1>2. CASE RoamNext
  <2> DEFINE n == (to_roam + RoamMod - 1) % RoamMod
  <2>1. UNCHANGED <<upc, rpc>>
    BY <1>2 DEF RoamNext
  <2>2. CASE n > 0
    <3>1. Roam(queue, 1 .. n)
      BY <1>2, <2>2 DEF RoamNext
    <3>2. n \in Int
      BY JoinAssumption DEF TypeOK
    <3> HIDE DEF n
    <3>3. linking' \/ to_join' => to_roam' > 0
      BY <3>1, <3>2, RoamBegins
    <3>4. told' => told
      BY <3>1, Zenon DEF Roam, ReportDisconnect
    <3> QED BY <2>1, <3>3, <3>4
  <2>3. CASE ~(n > 0)
    <3>1. ~linking' /\ ~told' /\ to_join' = to_join
      BY <1>2, <2>3, Zenon DEF RoamNext, ReportDisconnect
    <3> QED BY <2>1, <3>1
  <2> QED BY <2>2, <2>3
<1>3. CASE LinkTimer \/ LinkTimerFails
  BY <1>3 DEF LinkTimer, LinkTimerFails, JoinFails
<1> QED BY <1>1, <1>2, <1>3 DEF TStep, LinkTimerStep

\* The peer and the firmware begin nothing.
LEMMA PurposeEnv == Env => JoinsOnPurpose
<1> SUFFICES ASSUME Env PROVE JoinsOnPurpose
  OBVIOUS
<1> USE DEF JoinsOnPurpose, Leaving, fw, intent, reports, pcs
<1>1. CASE ConnectBegins \/ DisconnectBegins \/ ScanBegins \/ SurveyTimeout
  BY <1>1 DEF ConnectBegins, DisconnectBegins, ScanBegins, SurveyTimeout
<1>2. CASE OnBeacon \/ OnAuthClient \/ OnAssocRsp \/ ReceiveRefusal
  BY <1>2 DEF OnBeacon, OnAuthClient, OnAssocRsp, RecvCheck, ReceiveRefusal, JoinFails
<1>3. CASE OnDeAuth \/ LinkedStatusChk
  BY <1>3 DEF OnDeAuth, LinkedStatusChk, ReceiveDisconnect
<1> QED BY <1>1, <1>2, <1>3 DEF Env

\* So every join goes back to a connect, a survey for one, or a roam.
LEMMA PurposeStep == TypeOK /\ [Next]_vars => JoinsOnPurpose
BY PurposeU, PurposeK, PurposeR, PurposeT, PurposeEnv DEF Next
=============================================================================
