--------------------------- MODULE SaeJoinProofs ---------------------------
(***************************************************************************)
(* TLAPS proofs about SaeJoin: what JoinBssProofs shows of a join still    *)
(* holds when the supplicant begins joins too, at any time.                *)
(***************************************************************************)
EXTENDS SaeJoin, JoinBssProofs

\* The steps that are not steps of JoinBss.
OwnStep == SaeConnectAsks \/ SaeWorkFails
           \/ ExternalAuthFailed \/ ExternalAuthJoin \/ ExternalAuthLater

\* Every other step is one, or leaves its variables alone.
LEMMA Composed == SaeNext => [Next]_vars \/ OwnStep
<1> SUFFICES ASSUME SaeNext PROVE [Next]_vars \/ OwnStep
  OBVIOUS
<1>1. CASE SaeUStep
  BY <1>1 DEF SaeUStep, SaeConnectOpen, SaeConnectKey, SaeConnectJoin, SaeConnectRefused,
     OwnStep, Next, UStep
<1>2. CASE DiscStep
  BY <1>2 DEF DiscStep, Next, UStep
<1>3. CASE SaeWorkStep
  BY <1>3 DEF SaeWorkStep, SaeWorkAsks, OwnStep
<1>4. CASE SaeKStep
  BY <1>4, Zenon DEF SaeKStep, ResetHdl, Next, KStep
<1>5. CASE SaeRStep
  BY <1>5 DEF SaeRStep, Next, RStep
<1>6. CASE SaeTStep \/ SaeLinkTimerStep
  BY <1>6 DEF SaeTStep, SaeLinkTimerStep, Next, TStep
<1>7. CASE SaeConnectBegins \/ SaeDisconnectBegins \/ SaeEnv
  BY <1>7 DEF SaeConnectBegins, SaeDisconnectBegins, SaeEnv, Next, Env
<1>8. CASE ExternalAuthFailed \/ ExternalAuthJoin \/ ExternalAuthLater
  BY <1>8 DEF OwnStep
<1> QED BY <1>1, <1>2, <1>3, <1>4, <1>5, <1>6, <1>7, <1>8 DEF SaeNext

-----------------------------------------------------------------------------
(* The time-out of a join, and the number of roaming tries.                 *)

\* Only the join of external_auth touches the flag and the timer: it holds the lock.
LEMMA TimerOwn == TimerInv /\ OwnStep => TimerInv'
<1> SUFFICES ASSUME TimerInv, OwnStep PROVE TimerInv'
  OBVIOUS
<1>1. CASE ExternalAuthJoin
  <2>1. ~linking' \/ assoc_timer'
    BY <1>1, DoJoinTimer, Zenon DEF ExternalAuthJoin
  <2>2. rpc # "cancel" /\ UNCHANGED <<rpc, tpc>>
    BY <1>1 DEF ExternalAuthJoin, LockFree, pcs
  <2> QED BY <2>1, <2>2, JoinsOrNot
<1>2. CASE ~ExternalAuthJoin
  <2>1. UNCHANGED timerVars
    BY <1>2 DEF OwnStep, SaeConnectAsks, SaeWorkFails, ExternalAuthFailed, ExternalAuthLater,
       timerVars, fw, timers, pcs
  <2> QED BY <2>1, KeepsTimer
<1> QED BY <1>1, <1>2

\* A join that is under way always has its time-out, although the supplicant may begin
\* joins through external_auth whenever it answers, for any number of requests, answers,
\* calls and losses.
THEOREM SaeLinkingIsTimed == SaeSpec => []LinkingHasTimer
<1>1. SaeInit => TimerInv
  BY TimerInit DEF SaeInit
<1>2. TimerInv /\ [SaeNext]_allVars => TimerInv'
  <2>1. UNCHANGED allVars => UNCHANGED vars
    BY DEF allVars
  <2> QED BY <2>1, Composed, TimerStep, TimerOwn
<1>3. TimerInv => LinkingHasTimer
  BY DEF TimerInv
<1> QED BY <1>1, <1>2, <1>3, PTL DEF SaeSpec

\* No step of SAE touches what bounds the tries.
LEMMA RoamOwn == RoamInv /\ OwnStep => RoamInv'
<1>1. OwnStep => UNCHANGED <<rpc, tpc, to_roam, overlap>>
  BY DEF OwnStep, SaeConnectAsks, SaeWorkFails, ExternalAuthFailed, ExternalAuthJoin,
     ExternalAuthLater, intent, pcs
<1> QED BY <1>1 DEF RoamInv, OneHolder, Tries

\* to_roam stays within max_roaming_times and never wraps whatever the supplicant answers
\* and when, for every limit, with the exception of JoinBss.
THEOREM SaeRoamIsBounded == SaeSpec => []RoamWithinLimit
<1>1. SaeInit => RoamInv
  BY RoamInit DEF SaeInit
<1>2. RoamInv /\ [SaeNext]_allVars => RoamInv'
  <2>1. UNCHANGED allVars => UNCHANGED vars
    BY DEF allVars
  <2> QED BY <2>1, RoamOwn, Composed, RoamStep
<1>3. RoamInv => RoamWithinLimit
  BY JoinAssumption DEF RoamInv, Tries, RoamWithinLimit
<1> QED BY <1>1, <1>2, <1>3, PTL DEF SaeSpec

-----------------------------------------------------------------------------
(* The requests to the supplicant.                                          *)

\* cfg80211 does not wait for an earlier connect while it is inside connect.
OneConnect == upc = "connect" => ~awaiting

\* Only connect makes cfg80211 wait.
LEMMA AwaitsConnect ==
    ASSUME [Next]_vars
    PROVE  \/ upc' # "connect"
           \/ ConnectBegins
           \/ upc' = upc /\ (awaiting' => awaiting)
<1> USE DEF IndicateDisconnect, ReportDisconnect, reports, pcs
<1>1. CASE UStep \/ UNCHANGED vars
  BY <1>1 DEF UStep, ConnectJoin, ConnectLater, ConnectRefused, DisconnectHdl,
     DisconnectReport, DisconnectClear, vars
<1>2. CASE KStep
  <2>1. ASSUME NEW c, StaDel(c) PROVE upc' = upc /\ (awaiting' => awaiting)
    BY <2>1, Zenon DEF StaDel, Roam
  <2>2. CASE JoinCmd \/ JoinCmdFails \/ JoinDropped \/ DiscCmd \/ SurveyDone \/ SurveyedIdle
             \/ SurveyedJoin \/ SurveyedAgain \/ SurveyedGiveUp
    BY <2>2 DEF JoinCmd, JoinCmdFails, JoinDropped, DiscCmd, SurveyDone, SurveyedIdle,
       SurveyedJoin, SurveyedAgain, SurveyedGiveUp
  <2> QED BY <1>2, <2>1, <2>2, Zenon DEF KStep
<1>3. CASE RStep
  BY <1>3 DEF RStep, StartClntAuth, OnAuthAgain, StartClntAssoc, AssocDone, ReportFail,
     ReportJoin, JoinIgnored, JoinConnected, JoinCancelsTimer
<1>4. CASE TStep
  <2>1. CASE RoamNext
    BY <2>1, Zenon DEF RoamNext, Roam
  <2>2. CASE AssocTimer \/ JoinTimeout \/ JoinTimeoutRoams
    BY <2>2 DEF AssocTimer, JoinTimeout, JoinTimeoutRoams
  <2> QED BY <1>4, <2>1, <2>2 DEF TStep
<1>5. CASE LinkTimerStep
  BY <1>5 DEF LinkTimerStep, LinkTimer, LinkTimerFails
<1>6. CASE Env
  BY <1>6 DEF Env, DisconnectBegins, ScanBegins, SurveyTimeout, OnBeacon, OnAuthClient,
     OnAssocRsp, RecvCheck, ReceiveRefusal, ReceiveDisconnect, OnDeAuth, LinkedStatusChk
<1> QED BY <1>1, <1>2, <1>3, <1>4, <1>5, <1>6 DEF Next

\* The counters, and who waits for whom.
Counts ==
    /\ asks \in Nat /\ stale \in Nat /\ asked \in 0 .. MaxAsks /\ asks + stale <= asked
    /\ asks > 0 \/ auth # "none" => awaiting

\* The values that are only written.
Values ==
    /\ key \in {"none", "unset", "sae", "other"}
    /\ auth \in {"none", "sae", "other"}
    /\ \A b \in {wpa3_sae, dot1x, reset, work, wanted, late} : b \in BOOLEAN

AskInv == Counts /\ Values /\ OneConnect

\* The steps of JoinBss that know nothing of SAE.
LEMMA CountsFollow == Counts /\ Follows => Counts'
BY DEF Counts, Follows, Owe

\* A step of JoinBss that asks nobody leaves the new variables with their types.
LEMMA ValuesFollow ==
    ASSUME Values, Follows, wpa3_sae' \in BOOLEAN, dot1x' \in BOOLEAN, reset' \in BOOLEAN
    PROVE  Values'
<1>1. key' \in {"none", "unset", "sae", "other"} /\ auth' \in {"none", "sae", "other"}
  BY DEF Values, Follows
<1>2. work' \in BOOLEAN /\ wanted' \in BOOLEAN /\ late' \in BOOLEAN
  BY Zenon DEF Values, Follows
<1> QED BY <1>1, <1>2, Zenon DEF Values

\* What the steps do to the security settings keeps their types.
LEMMA SecurityTypes ==
    ASSUME Values,
           UNCHANGED security \/ (\E r \in BOOLEAN : ResetQueued(r)) \/ Refused
    PROVE  wpa3_sae' \in BOOLEAN /\ dot1x' \in BOOLEAN /\ reset' \in BOOLEAN
BY Zenon DEF Values, security, ResetQueued, Refused, ResetSecurity

\* The waiting of cfg80211 over a step of the composition.
LEMMA OneConnectStep == OneConnect /\ [SaeNext]_allVars => OneConnect'
<1> SUFFICES ASSUME OneConnect, [SaeNext]_allVars PROVE OneConnect'
  OBVIOUS
<1>1. CASE [Next]_vars
  BY <1>1, AwaitsConnect DEF OneConnect, ConnectBegins, reports
<1>2. CASE OwnStep
  BY <1>2 DEF OwnStep, SaeConnectAsks, SaeWorkFails, ExternalAuthFailed, ExternalAuthJoin,
     ExternalAuthLater, Answered, ReportDisconnect, pcs, OneConnect
<1> QED BY <1>1, <1>2, Composed DEF allVars

\* The steps of connect and of disconnect, and the reset.
LEMMA CountsConnect ==
    ASSUME Counts, OneConnect,
           SaeUStep \/ SaeConnectBegins \/ SaeDisconnectBegins \/ ResetHdl
    PROVE  Counts'
<1>1. CASE SaeConnectJoin
  <2>1. /\ asks = 0 /\ auth = "none" /\ asks' = asks
        /\ stale' = stale /\ asked' = asked /\ auth' = auth
    BY <1>1 DEF SaeConnectJoin, ConnectJoin, ConnectLater, Counts, OneConnect
  <2> QED BY <2>1 DEF Counts
<1>2. CASE SaeConnectAsks
  <2>1. asks = 0 /\ asks' = asks /\ stale' = stale /\ asked' = asked
    BY <1>2 DEF SaeConnectAsks, Counts, OneConnect
  <2>2. auth' # "none" => awaiting'
    BY <1>2, Zenon DEF SaeConnectAsks
  <2> QED BY <2>1, <2>2 DEF Counts
<1>3. CASE SaeConnectOpen \/ SaeConnectKey \/ SaeConnectRefused \/ SaeConnectBegins
           \/ SaeDisconnectBegins \/ ResetHdl
  <2>1. UNCHANGED <<asks, stale, asked, auth, awaiting>>
    BY <1>3 DEF SaeConnectOpen, SaeConnectKey, SaeConnectRefused, SaeConnectBegins,
       SaeDisconnectBegins, ResetHdl, ConnectRefused, ConnectBegins, DisconnectBegins,
       saeVars, vars, history, reports
  <2> QED BY <2>1 DEF Counts
<1> QED BY <1>1, <1>2, <1>3 DEF SaeUStep

\* The work item and the answers of the supplicant.
LEMMA CountsAnswer ==
    ASSUME Counts,
           SaeWorkStep \/ ExternalAuthFailed \/ ExternalAuthJoin \/ ExternalAuthLater
    PROVE  Counts'
<1>1. CASE SaeWorkAsks
  <2>1. PICK n \in 0 .. 2 :
          /\ asked' = asked + n /\ asked' <= MaxAsks
          /\ IF auth # "none" THEN asks' = asks + n /\ stale' = stale
                              ELSE stale' = stale + n /\ asks' = asks
    BY <1>1 DEF SaeWorkAsks
  <2>2. UNCHANGED <<auth, awaiting>>
    BY <1>1 DEF SaeWorkAsks, vars, reports
  <2> QED BY <2>1, <2>2, SaeAssumption DEF Counts
<1>2. CASE SaeWorkFails
  BY <1>2 DEF SaeWorkFails, ReportDisconnect, Owe, Counts
<1>3. CASE ExternalAuthFailed \/ ExternalAuthJoin \/ ExternalAuthLater
  <2>1. Answered
    BY <1>3 DEF ExternalAuthFailed, ExternalAuthJoin, ExternalAuthLater
  <2> QED BY <2>1 DEF Answered, Owe, Counts
<1> QED BY <1>1, <1>2, <1>3 DEF SaeWorkStep

\* The steps of connect, of disconnect, of the work item and of the supplicant.
LEMMA ValuesOwn ==
    ASSUME Values,
           SaeUStep \/ SaeConnectBegins \/ SaeDisconnectBegins \/ ResetHdl \/ SaeWorkStep
           \/ ExternalAuthFailed \/ ExternalAuthJoin \/ ExternalAuthLater
    PROVE  Values'
<1> USE DEF security, history, saeVars
<1>1. CASE SaeConnectOpen \/ SaeConnectKey \/ SaeConnectRefused \/ SaeConnectJoin
           \/ SaeConnectAsks
  <2>1. key' \in {"none", "unset", "sae", "other"}
    BY <1>1 DEF SaeConnectOpen, SaeConnectKey, SaeConnectRefused, SaeConnectJoin, SaeConnectAsks
  <2>2. auth' \in {"none", "sae", "other"}
    BY <1>1 DEF SaeConnectOpen, SaeConnectKey, SaeConnectRefused, SaeConnectJoin,
       SaeConnectAsks, KeyIsSet, Values
  <2>3. wpa3_sae' \in BOOLEAN /\ dot1x' \in BOOLEAN /\ reset' \in BOOLEAN
    BY <1>1, Zenon DEF SaeConnectOpen, SaeConnectKey, SaeConnectRefused, SaeConnectJoin,
       SaeConnectAsks, ResetQueued, Values
  <2>4. work' \in BOOLEAN /\ wanted' \in BOOLEAN /\ late' \in BOOLEAN
    BY <1>1, Zenon DEF SaeConnectOpen, SaeConnectKey, SaeConnectRefused, SaeConnectJoin,
       SaeConnectAsks, Values
  <2> QED BY <2>1, <2>2, <2>3, <2>4, Zenon DEF Values
<1>2. CASE SaeConnectBegins \/ SaeDisconnectBegins \/ ResetHdl \/ SaeWorkStep
  <2>1. key' = key /\ auth' \in {auth, "none"}
    BY <1>2 DEF SaeConnectBegins, SaeDisconnectBegins, ResetHdl, SaeWorkStep, SaeWorkAsks,
       SaeWorkFails
  <2>2. wpa3_sae' \in BOOLEAN /\ dot1x' \in BOOLEAN /\ reset' \in BOOLEAN
    BY <1>2, Zenon DEF SaeConnectBegins, SaeDisconnectBegins, ResetHdl, SaeWorkStep,
       SaeWorkAsks, SaeWorkFails, ResetSecurity, Values
  <2>3. work' \in BOOLEAN /\ wanted' \in BOOLEAN /\ late' \in BOOLEAN
    BY <1>2, Zenon DEF SaeConnectBegins, SaeDisconnectBegins, ResetHdl, SaeWorkStep,
       SaeWorkAsks, SaeWorkFails, Values
  <2> QED BY <2>1, <2>2, <2>3, Zenon DEF Values
<1>3. CASE ExternalAuthFailed \/ ExternalAuthJoin \/ ExternalAuthLater
  <2>1. key' = key /\ auth' = "none" /\ work' = work /\ wanted' = wanted
    BY <1>3 DEF ExternalAuthFailed, ExternalAuthJoin, ExternalAuthLater, Answered
  <2>2. late' \in BOOLEAN
    BY <1>3, Zenon DEF ExternalAuthFailed, ExternalAuthJoin, ExternalAuthLater, Answered,
       Values
  <2>3. wpa3_sae' \in BOOLEAN /\ dot1x' \in BOOLEAN /\ reset' \in BOOLEAN
    BY <1>3, Zenon DEF ExternalAuthFailed, ExternalAuthJoin, ExternalAuthLater, Values
  <2> QED BY <2>1, <2>2, <2>3, Zenon DEF Values
<1> QED BY <1>1, <1>2, <1>3 DEF SaeUStep

\* The other steps follow JoinBss and keep the types of the settings.
LEMMA OthersFollow ==
    ASSUME DiscStep \/ (SaeKStep /\ ~ResetHdl) \/ SaeRStep \/ SaeTStep \/ SaeLinkTimerStep
           \/ SaeEnv
    PROVE  /\ Follows
           /\ UNCHANGED security \/ (\E r \in BOOLEAN : ResetQueued(r)) \/ Refused
<1>1. CASE SaeRStep \/ SaeLinkTimerStep \/ SaeEnv
  BY <1>1, Zenon DEF SaeRStep, SaeLinkTimerStep, SaeEnv
<1>2. CASE DiscStep \/ SaeTStep
  BY <1>2, Zenon DEF DiscStep, SaeTStep
<1>3. CASE SaeKStep /\ ~ResetHdl
  BY <1>3, Zenon DEF SaeKStep
<1> QED BY <1>1, <1>2, <1>3

\* Nobody is asked at first.
LEMMA AskInit == SaeInit => AskInv
<1>1. SaeInit => Counts /\ OneConnect
  BY SaeAssumption DEF SaeInit, Init, Counts, OneConnect
<1>2. SaeInit => Values
  BY Zenon DEF SaeInit, Values
<1> QED BY <1>1, <1>2 DEF AskInv

\* Every step of the composition keeps the requests within their connect.
LEMMA AskStep == AskInv /\ [SaeNext]_allVars => AskInv'
<1> SUFFICES ASSUME AskInv, [SaeNext]_allVars PROVE AskInv'
  OBVIOUS
<1>0. Counts /\ Values /\ OneConnect /\ OneConnect'
  BY OneConnectStep DEF AskInv
<1>1. CASE UNCHANGED allVars
  BY <1>0, <1>1 DEF AskInv, Counts, Values, allVars, saeVars, security, history, vars, reports
<1>2. CASE SaeUStep \/ SaeConnectBegins \/ SaeDisconnectBegins \/ ResetHdl
  BY <1>0, <1>2, CountsConnect, ValuesOwn DEF AskInv
<1>3. CASE SaeWorkStep \/ ExternalAuthFailed \/ ExternalAuthJoin \/ ExternalAuthLater
  BY <1>0, <1>3, CountsAnswer, ValuesOwn DEF AskInv
<1>4. CASE DiscStep \/ (SaeKStep /\ ~ResetHdl) \/ SaeRStep \/ SaeTStep
           \/ SaeLinkTimerStep \/ SaeEnv
  <2>1. Follows /\ (UNCHANGED security \/ (\E r \in BOOLEAN : ResetQueued(r)) \/ Refused)
    BY <1>4, OthersFollow
  <2>2. wpa3_sae' \in BOOLEAN /\ dot1x' \in BOOLEAN /\ reset' \in BOOLEAN
    BY <1>0, <2>1, SecurityTypes
  <2> QED BY <1>0, <2>1, <2>2, CountsFollow, ValuesFollow DEF AskInv
<1> QED BY <1>1, <1>2, <1>3, <1>4 DEF SaeNext

\* However many requests reach the supplicant, twice or not at all, and whenever it
\* answers: none is counted twice, none is kept for a connect that is over, and a connect
\* waits for the supplicant only while cfg80211 waits for it.
THEOREM SaeTypeCorrect == SaeSpec => []SaeTypeOK
<1>1. AskInv => SaeTypeOK
  BY DEF AskInv, Counts, Values, SaeTypeOK
<1> QED BY <1>1, AskInit, AskStep, PTL DEF SaeSpec

-----------------------------------------------------------------------------
(* The types of JoinBss, and what cfg80211 was told.                        *)

\* The steps that are not steps of JoinBss keep its types.
LEMMA TypeOwn == TypeOK /\ OwnStep => TypeOK'
<1> SUFFICES ASSUME TypeOK, OwnStep PROVE TypeOK'
  OBVIOUS
<1>0. FlagTypes /\ PcTypes /\ CountTypes /\ DataTypes
  BY TypeParts
<1>1. PcTypes' /\ CountTypes'
  BY <1>0 DEF OwnStep, SaeConnectAsks, SaeWorkFails, ExternalAuthFailed, ExternalAuthJoin,
     ExternalAuthLater, PcTypes, CountTypes, pcs, intent, inputs
<1>2. FlagTypes' /\ DataTypes'
  <2>1. CASE ExternalAuthJoin
    <3>1. PICK outcome \in Outcome, candidate \in BOOLEAN :
            /\ DoJoin(queue, candidate /\ linked, outcome)
            /\ linked' = (linked /\ ~(candidate /\ linked))
            /\ sta' = (sta /\ ~(candidate /\ linked))
      BY <2>1, Zenon DEF ExternalAuthJoin
    <3>2. (candidate /\ linked) \in BOOLEAN
      BY <1>0, Zenon DEF FlagTypes
    <3>3. /\ linking' \in BOOLEAN /\ to_join' \in BOOLEAN /\ assoc_timer' \in BOOLEAN
          /\ survey' \in BOOLEAN /\ scans' \in Nat /\ queue' \in Seq(Commands)
      BY <1>0, <3>1, <3>2, DoJoinTypes DEF FlagTypes, DataTypes
    <3>4. told' \in BOOLEAN /\ awaiting' \in BOOLEAN
      BY <1>0, <2>1, Zenon DEF ExternalAuthJoin, ReportDisconnect, IndicateDisconnect, reports,
         FlagTypes
    <3>5. FlagTypes'
      BY <1>0, <2>1, <3>1, <3>3, <3>4, Zenon DEF ExternalAuthJoin, FlagTypes
    <3> QED BY <1>0, <2>1, <3>3, <3>5 DEF ExternalAuthJoin, DataTypes
  <2>2. CASE ~ExternalAuthJoin
    <3>1. DataTypes'
      BY <1>0, <2>2 DEF OwnStep, SaeConnectAsks, SaeWorkFails, ExternalAuthFailed,
         ExternalAuthLater, DataTypes
    <3>2. FlagTypes'
      <4> USE DEF FlagTypes, fw, timers, reports, intent, ReportDisconnect
      <4>1. CASE SaeConnectAsks
        BY <1>0, <4>1, Zenon DEF SaeConnectAsks
      <4>2. CASE SaeWorkFails
        BY <1>0, <4>2, Zenon DEF SaeWorkFails
      <4>3. CASE ExternalAuthFailed
        BY <1>0, <4>3, Zenon DEF ExternalAuthFailed
      <4>4. CASE ExternalAuthLater
        BY <1>0, <4>4, Zenon DEF ExternalAuthLater
      <4> QED BY <2>2, <4>1, <4>2, <4>3, <4>4 DEF OwnStep
    <3> QED BY <3>1, <3>2
  <2> QED BY <2>1, <2>2
<1>3. TypeOK' <=> FlagTypes' /\ PcTypes' /\ CountTypes' /\ DataTypes'
  BY Zenon DEF TypeOK, FlagTypes, PcTypes, CountTypes, DataTypes, Commands
<1> QED BY <1>1, <1>2, <1>3

\* Nor do they leave "connected" standing of a station that is not linked.
LEMMA ToldOwn == ToldInv /\ OwnStep => ToldInv'
<1> SUFFICES ASSUME ToldInv, OwnStep PROVE ToldInv'
  OBVIOUS
<1> USE DEF ToldInv, Leaving, fw, intent, reports, pcs, ReportDisconnect
<1>1. CASE SaeConnectAsks
  BY <1>1 DEF SaeConnectAsks
<1>2. CASE SaeWorkFails \/ ExternalAuthFailed
  BY <1>2 DEF SaeWorkFails, ExternalAuthFailed
<1>3. CASE ExternalAuthJoin
  BY <1>3 DEF ExternalAuthJoin, DoJoin, IndicateDisconnect, Answered, LockFree
<1>4. CASE ExternalAuthLater
  BY <1>4 DEF ExternalAuthLater
<1> QED BY <1>1, <1>2, <1>3, <1>4 DEF OwnStep

\* The invariants of JoinBss over a step of the composition.
JoinInv == TypeOK /\ RoamInv /\ ToldInv

\* The invariants of JoinBss hold at first,
LEMMA JoinInit == SaeInit => JoinInv
BY TypeInit, RoamInit, ToldInit DEF SaeInit, JoinInv

\* and every step of the composition preserves them.
LEMMA JoinStep == JoinInv /\ [SaeNext]_allVars => JoinInv'
<1>1. UNCHANGED allVars => UNCHANGED vars
  BY DEF allVars
<1>2. JoinInv /\ [Next]_vars => JoinInv'
  BY TypeStep, RoamStep, ToldStep DEF JoinInv
<1>3. JoinInv /\ OwnStep => JoinInv'
  BY TypeOwn, RoamOwn, ToldOwn DEF JoinInv
<1> QED BY <1>1, <1>2, <1>3, Composed

\* The types and ranges of a join hold with the supplicant beginning joins too.
THEOREM SaeJoinTypeCorrect == SaeSpec => []TypeOK
<1>1. JoinInv => TypeOK
  BY DEF JoinInv
<1> QED BY <1>1, JoinInit, JoinStep, PTL DEF SaeSpec

\* What cfg80211 was last told is true, also of joins that the supplicant begins at any
\* time and of connects that the work item ends, with the exception of JoinBss.
THEOREM SaeReportIsTrue == SaeSpec => []ReportedIsLinked
<1>1. JoinInv => ReportedIsLinked
  BY ToldIsLinked DEF JoinInv
<1> QED BY <1>1, JoinInit, JoinStep, PTL DEF SaeSpec

-----------------------------------------------------------------------------
(* The driver is not linked without cfg80211 knowing.                       *)

\* LinkedIsReported, also inside connect and disconnect; and while the supplicant is
\* asked, or a request of the connect is out, the station is not linked, so that the
\* failures reported then leave no linked station behind.
LinkInv ==
    /\ linked /\ upc # "clear" => told \/ overlap \/ late
    /\ linked /\ (asks > 0 \/ auth # "none") => overlap \/ late
    /\ RoamsUnlinked

\* Steps of JoinBss keep it if they ask nobody.
LEMMA LinkJoin ==
    ASSUME JoinInv, LinkInv, [Next]_vars, Counts',
           late => late',
           asks' > 0 \/ auth' # "none" => asks > 0 \/ auth # "none"
    PROVE  LinkInv'
<1>1. LinksReported
  BY LinksStep DEF JoinInv, LinkInv
<1>2. (linked /\ upc # "clear" => told \/ overlap \/ late)'
  BY <1>1 DEF LinksReported, LinkInv
<1>3. (linked /\ (asks > 0 \/ auth # "none") => overlap \/ late)'
  BY <1>1 DEF LinksReported, LinkInv, Counts
<1> QED BY <1>1, <1>2, <1>3 DEF LinksReported, LinkInv

\* The steps that are not steps of JoinBss.
LEMMA LinkOwn == AskInv /\ LinkInv /\ OwnStep => LinkInv'
<1> SUFFICES ASSUME AskInv, LinkInv, OwnStep PROVE LinkInv'
  OBVIOUS
<1>0. Counts /\ OneConnect
  BY DEF AskInv
<1> USE DEF LinkInv, RoamsUnlinked, fw, intent, reports, pcs, ReportDisconnect
<1>1. CASE SaeConnectAsks
  BY <1>0, <1>1 DEF SaeConnectAsks, Counts, OneConnect
<1>2. CASE SaeWorkFails
  BY <1>0, <1>2 DEF SaeWorkFails, Owe, Counts
<1>3. CASE ExternalAuthFailed
  BY <1>0, <1>3 DEF ExternalAuthFailed, Answered, Owe, Counts
<1>4. CASE ExternalAuthJoin
  <2>1. linked' => linked
    BY <1>4, Zenon DEF ExternalAuthJoin
  <2>2. late' = TRUE \/ (asks > 0 /\ late' = late)
    BY <1>4 DEF ExternalAuthJoin, Answered
  <2>3. UNCHANGED <<overlap, to_roam>>
    BY <1>4 DEF ExternalAuthJoin
  <2> QED BY <2>1, <2>2, <2>3
<1>5. CASE ExternalAuthLater
  BY <1>0, <1>5 DEF ExternalAuthLater, Answered, Owe, Counts
<1> QED BY <1>1, <1>2, <1>3, <1>4, <1>5 DEF OwnStep

\* What a step does to the requests and to the history, unless it is one of those above
\* or the beginning of a disconnect.
Recorded ==
    /\ asks' > 0 \/ auth' # "none" => asks > 0 \/ auth # "none"
    /\ late => late'
    /\ wanted => wanted'
    /\ ~wanted /\ to_roam = 0 /\ to_roam' > 0 => late'
    /\ upc = "connect" /\ awaiting' => wanted'

\* Each step of the composition records what its step of JoinBss does.
LEMMA FollowsRecords ==
    ASSUME Follows, upc = "connect" => ~awaiting'
    PROVE  Recorded
<1>1. late => late'
  BY Zenon DEF Follows
<1>2. ~wanted /\ to_roam = 0 /\ to_roam' > 0 => late'
  BY Zenon DEF Follows
<1>3. asks' > 0 \/ auth' # "none" => asks > 0 \/ auth # "none"
  BY DEF Follows, Owe
<1>4. wanted' = wanted
  BY DEF Follows
<1> QED BY <1>1, <1>2, <1>3, <1>4 DEF Recorded

\* No other context takes the process out of connect.
LEMMA StaysInside ==
    ASSUME DiscStep \/ (SaeKStep /\ ~ResetHdl) \/ SaeRStep \/ SaeTStep \/ SaeLinkTimerStep
           \/ SaeEnv,
           upc = "connect"
    PROVE  upc' = "connect"
<1> USE DEF pcs
<1>1. CASE DiscStep
  BY <1>1 DEF DiscStep, DisconnectHdl, DisconnectClear, DisconnectReport
<1>2. CASE SaeKStep /\ ~ResetHdl
  <2>1. ASSUME NEW c, StaDel(c) PROVE upc' = upc
    BY <2>1 DEF StaDel
  <2>2. CASE JoinCmd \/ JoinCmdFails \/ JoinDropped \/ DiscCmd \/ SurveyDone \/ SurveyedIdle
             \/ SurveyedJoin \/ SurveyedAgain \/ SurveyedGiveUp
    BY <2>2 DEF JoinCmd, JoinCmdFails, JoinDropped, DiscCmd, SurveyDone, SurveyedIdle,
       SurveyedJoin, SurveyedAgain, SurveyedGiveUp
  <2> QED BY <1>2, <2>1, <2>2, Zenon DEF SaeKStep
<1>3. CASE SaeRStep
  BY <1>3 DEF SaeRStep, StartClntAuth, OnAuthAgain, StartClntAssoc, AssocDone, ReportFail,
     ReportJoin, JoinIgnored, JoinConnected, JoinCancelsTimer
<1>4. CASE SaeTStep
  BY <1>4 DEF SaeTStep, AssocTimer, JoinTimeout, JoinTimeoutRoams, RoamNext
<1>5. CASE SaeLinkTimerStep
  BY <1>5 DEF SaeLinkTimerStep, LinkTimerStep, LinkTimer, LinkTimerFails
<1>6. CASE SaeEnv
  BY <1>6 DEF SaeEnv, ScanBegins, SurveyTimeout, OnBeacon, OnAuthClient, OnAssocRsp, RecvCheck,
     ReceiveRefusal, OnDeAuth, LinkedStatusChk, ReceiveDisconnect
<1> QED BY <1>1, <1>2, <1>3, <1>4, <1>5, <1>6

\* Every step is the beginning of a disconnect, one of those that are not steps of
\* JoinBss, or recorded as above.
LEMMA Records ==
    ASSUME AskInv, [SaeNext]_allVars
    PROVE  SaeDisconnectBegins \/ OwnStep \/ (Recorded /\ [Next]_vars)
<1>0. Counts /\ OneConnect /\ OneConnect'
  BY OneConnectStep DEF AskInv
<1>1. OwnStep \/ [Next]_vars
  BY Composed DEF allVars
<1>2. CASE DiscStep \/ (SaeKStep /\ ~ResetHdl) \/ SaeRStep \/ SaeTStep \/ SaeLinkTimerStep
           \/ SaeEnv
  <2>1. Follows
    BY <1>2, OthersFollow
  <2>2. upc = "connect" => ~awaiting'
    BY <1>0, <1>2, StaysInside DEF OneConnect
  <2> QED BY <1>1, <2>1, <2>2, FollowsRecords
<1>3. CASE SaeConnectJoin
  <2>1. UNCHANGED <<asks, auth, late, to_roam>>
    BY <1>3 DEF SaeConnectJoin, ConnectJoin, ConnectLater
  <2>2. (wanted => wanted') /\ (awaiting' => wanted')
    BY <1>3, Zenon DEF SaeConnectJoin
  <2> QED BY <1>1, <2>1, <2>2 DEF Recorded
<1>4. CASE SaeConnectOpen \/ SaeConnectKey \/ SaeConnectRefused \/ SaeConnectBegins
           \/ ResetHdl \/ UNCHANGED allVars
  <2>1. UNCHANGED <<asks, auth, late, wanted, to_roam, awaiting>>
    BY <1>4 DEF SaeConnectOpen, SaeConnectKey, SaeConnectRefused, SaeConnectBegins, ResetHdl,
       ConnectRefused, ConnectBegins, allVars, saeVars, vars, history, reports, intent
  <2> QED BY <1>0, <1>1, <2>1 DEF Recorded, OneConnect
<1>5. CASE SaeWorkAsks
  <2>1. PICK n \in 0 .. 2 :
          IF auth # "none" THEN asks' = asks + n /\ stale' = stale
                           ELSE stale' = stale + n /\ asks' = asks
    BY <1>5 DEF SaeWorkAsks
  <2>2. UNCHANGED <<auth, late, wanted, to_roam, awaiting>>
    BY <1>5 DEF SaeWorkAsks, vars, intent, reports
  <2> QED BY <1>0, <1>1, <2>1, <2>2 DEF Recorded, OneConnect, Counts
<1>6. CASE SaeDisconnectBegins \/ SaeConnectAsks \/ SaeWorkFails \/ ExternalAuthFailed
           \/ ExternalAuthJoin \/ ExternalAuthLater
  BY <1>6 DEF OwnStep
<1> QED BY <1>2, <1>3, <1>4, <1>5, <1>6 DEF SaeNext, SaeUStep, SaeWorkStep

\* Every step of the composition preserves LinkInv.
LEMMA LinkStep ==
    ASSUME JoinInv, AskInv, LinkInv, [SaeNext]_allVars
    PROVE  LinkInv'
<1>0. Counts'
  BY AskStep DEF AskInv
<1>1. CASE OwnStep
  BY <1>1, LinkOwn
<1>2. CASE Recorded /\ [Next]_vars
  BY <1>0, <1>2, LinkJoin DEF Recorded
<1>3. CASE SaeDisconnectBegins
  <2>1. UNCHANGED <<asks, auth, late>> /\ DisconnectBegins
    BY <1>3 DEF SaeDisconnectBegins
  <2> QED BY <1>0, <2>1, LinkJoin DEF Next, Env
<1> QED BY <1>1, <1>2, <1>3, Records

\* At first the station is not linked.
LEMMA LinkInit == SaeInit => LinkInv
BY DEF SaeInit, Init, LinkInv, RoamsUnlinked

\* A linked station has been reported, for any number of requests, answers, calls and
\* losses: no time-out, roam, deauthentication or failure of the supplicant takes the
\* connection away from cfg80211 and leaves the driver linked, unless it came too late or
\* an unlocked step of a disconnect fell into a locked section.
THEOREM LinkIsReported == SaeSpec => []LinkedIsReported
<1>1. JoinInv /\ AskInv /\ LinkInv /\ [SaeNext]_allVars => JoinInv' /\ AskInv' /\ LinkInv'
  BY JoinStep, AskStep, LinkStep
<1>2. LinkInv => LinkedIsReported
  BY DEF LinkInv, LinkedIsReported
<1> QED BY <1>1, <1>2, JoinInit, AskInit, LinkInit, PTL DEF SaeSpec

-----------------------------------------------------------------------------
(* Nothing connects behind the back of cfg80211.                            *)

\* When the last call of cfg80211 was a disconnect: no roam and no survey for a join is
\* left; and what else could still connect (a join under way, R having found one, a
\* request to the supplicant), as well as the report of the old connection, is there only
\* until the disconnect has made its report.
WantInv ==
    ~wanted /\ ~overlap /\ ~late =>
        /\ to_roam = 0 /\ ~to_join
        /\ told \/ linking \/ rpc = "locked" \/ asks > 0 \/ auth # "none" => Leaving

\* Steps of JoinBss.
LEMMA WantJoin ==
    ASSUME JoinInv, WantInv, Recorded, [Next]_vars, RoamsUnlinked, Counts', TypeOK'
    PROVE  WantInv'
<1> SUFFICES ASSUME ~wanted', ~overlap', ~late'
             PROVE  /\ to_roam' = 0 /\ ~to_join'
                    /\ told' \/ linking' \/ rpc' = "locked" \/ asks' > 0 \/ auth' # "none"
                         => Leaving'
  BY DEF WantInv
<1>1. JoinsOnPurpose /\ (overlap => overlap')
  BY PurposeStep, LinksStep DEF JoinInv, LinksReported
<1>2. ~wanted /\ ~overlap /\ ~late
  BY <1>1 DEF Recorded
<1>3. to_roam = 0 /\ ~to_join
  BY <1>2 DEF WantInv
<1>4. to_roam' = 0
  BY <1>2, <1>3, JoinAssumption DEF Recorded, TypeOK
<1>5. ~to_join'
  BY <1>1, <1>3, <1>4 DEF JoinsOnPurpose, Recorded
<1>6. ASSUME told' \/ linking' \/ rpc' = "locked" \/ asks' > 0 \/ auth' # "none" PROVE Leaving'
  <2>1. told \/ linking \/ rpc = "locked" \/ asks > 0 \/ auth # "none"
    BY <1>1, <1>3, <1>4, <1>6 DEF JoinsOnPurpose, Recorded
  <2>2. Leaving
    BY <1>2, <2>1 DEF WantInv
  <2> QED BY <1>1, <1>4, <1>6, <2>2 DEF JoinsOnPurpose, Counts
<1> QED BY <1>4, <1>5, <1>6

\* The steps that are not steps of JoinBss: the supplicant's answers to the connect come
\* only while it is wanted, the others are late.
LEMMA WantOwn ==
    ASSUME AskInv, WantInv, OwnStep
    PROVE  WantInv'
<1>0. Counts
  BY DEF AskInv
<1> USE DEF WantInv, Leaving, fw, intent, reports, pcs, ReportDisconnect
<1>1. CASE SaeConnectAsks
  BY <1>1 DEF SaeConnectAsks
<1>2. CASE SaeWorkFails
  <2>1. late => late'
    BY <1>2, Zenon DEF SaeWorkFails
  <2>2. ~told' /\ auth' = "none" /\ (asks' > 0 => asks > 0)
    BY <1>0, <1>2 DEF SaeWorkFails, Owe, Counts
  <2> QED BY <1>2, <2>1, <2>2 DEF SaeWorkFails
<1>3. CASE ExternalAuthFailed \/ ExternalAuthJoin \/ ExternalAuthLater
  <2>1. Answered
    BY <1>3 DEF ExternalAuthFailed, ExternalAuthJoin, ExternalAuthLater
  <2>2. UNCHANGED <<wanted, overlap>>
    BY <1>3, <2>1 DEF ExternalAuthFailed, ExternalAuthJoin, ExternalAuthLater, Answered
  <2>3. late' = TRUE \/ (asks > 0 /\ upc = "idle" /\ late' = late)
    BY <2>1 DEF Answered
  <2> QED BY <2>2, <2>3
<1> QED BY <1>1, <1>2, <1>3 DEF OwnStep

\* Every step of the composition preserves WantInv.
LEMMA WantStep ==
    ASSUME JoinInv, AskInv, LinkInv, WantInv, [SaeNext]_allVars
    PROVE  WantInv'
<1>0. Counts' /\ TypeOK' /\ RoamsUnlinked
  BY AskStep, JoinStep DEF AskInv, JoinInv, LinkInv
<1>1. CASE OwnStep
  BY <1>1, WantOwn
<1>2. CASE Recorded /\ [Next]_vars
  BY <1>0, <1>2, WantJoin
<1>3. CASE SaeDisconnectBegins
  BY <1>3 DEF SaeDisconnectBegins, DisconnectBegins, WantInv, Leaving
<1> QED BY <1>1, <1>2, <1>3, Records

\* At first nothing is under way.
LEMMA WantInit == SaeInit => WantInv
BY DEF SaeInit, Init, WantInv

\* cfg80211 is told of a connection only if its last call was a connect, for any number
\* of requests, answers, calls and losses: a survey for a join, a queued join command, a
\* roam or a work item that a disconnect finds under way does not complete afterwards,
\* with the same exceptions.
THEOREM ConnectsOnPurpose == SaeSpec => []ConnectedOnPurpose
<1> DEFINE Inv == JoinInv /\ AskInv /\ LinkInv /\ WantInv
<1>1. SaeInit => Inv
  BY JoinInit, AskInit, LinkInit, WantInit
<1>2. Inv /\ [SaeNext]_allVars => Inv'
  BY JoinStep, AskStep, LinkStep, WantStep
<1>3. Inv => ConnectedOnPurpose
  BY DEF WantInv, Leaving, ConnectedOnPurpose
<1> QED BY <1>1, <1>2, <1>3, PTL DEF SaeSpec
=============================================================================
