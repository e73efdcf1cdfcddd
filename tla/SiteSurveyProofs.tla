--------------------------- MODULE SiteSurveyProofs ---------------------------
(***************************************************************************)
(* TLAPS proofs about SiteSurvey, for every number of channels, requests   *)
(* and joins.                                                              *)
(***************************************************************************)
EXTENDS SiteSurvey, TLAPS

\* Unless a request was turned down with its pointer left, the pointer is NULL or
\* the request that cfg80211 has outstanding.
PointerIsCurrent == leftBehind \/ scan_request \in {0, cfgReq}

\* While the scan is under way channel_idx is a channel of it.
IndexInRange == state # "disable" => channel_idx < ChNum

IndInv == TypeOK /\ IndexInRange /\ PointerIsCurrent /\ ReportsOutstanding /\ ScanGoesOn

-----------------------------------------------------------------------------
(* The command queue.                                                       *)

\* What is in a queue stays there when something is appended.
LEMMA AppendKeeps ==
    ASSUME NEW S, NEW s \in Seq(S), NEW e \in S, NEW c,
           \E i \in 1 .. Len(s) : s[i] = c
    PROVE  \E i \in 1 .. Len(Append(s, e)) : Append(s, e)[i] = c
<1>1. PICK i \in 1 .. Len(s) : s[i] = c
  OBVIOUS
<1>2. i \in 1 .. Len(Append(s, e)) /\ Append(s, e)[i] = c
  BY <1>1
<1> QED BY <1>2

\* What was appended is in the queue.
LEMMA AppendAdds ==
    ASSUME NEW S, NEW s \in Seq(S), NEW e \in S
    PROVE  \E i \in 1 .. Len(Append(s, e)) : Append(s, e)[i] = e
<1>1. Len(s) + 1 \in 1 .. Len(Append(s, e)) /\ Append(s, e)[Len(s) + 1] = e
  OBVIOUS
<1> QED BY <1>1

\* Taking another head out leaves it there.
LEMMA TailKeeps ==
    ASSUME NEW S, NEW s \in Seq(S), NEW c, s # << >>, Head(s) # c,
           \E i \in 1 .. Len(s) : s[i] = c
    PROVE  \E i \in 1 .. Len(Tail(s)) : Tail(s)[i] = c
<1>1. PICK i \in 1 .. Len(s) : s[i] = c
  OBVIOUS
<1>2. i # 1
  BY <1>1
<1>3. i - 1 \in 1 .. Len(Tail(s)) /\ Tail(s)[i - 1] = c
  BY <1>1, <1>2
<1> QED BY <1>3

-----------------------------------------------------------------------------
(* The invariant.                                                           *)

\* The flags, and the rest of TypeOK: the provers treat them apart.
Flags ==
    /\ survey \in BOOLEAN /\ linking \in BOOLEAN /\ scan_abort \in BOOLEAN
    /\ survey_timer \in BOOLEAN /\ scan_to_timer \in BOOLEAN
    /\ monitor \in BOOLEAN /\ leftBehind \in BOOLEAN /\ staleReport \in BOOLEAN
    /\ halted \in BOOLEAN /\ lost \in BOOLEAN

Others ==
    /\ forsaken \subseteq 1 .. requests
    /\ state \in {"disable", "annc", "process"}
    /\ channel_idx \in 0 .. ChNum
    /\ queue \in Seq({"survey", "done"})
    /\ scan_request \in 0 .. requests /\ cfgReq \in 0 .. requests
    /\ requests \in 0 .. MaxRequest /\ joins \in 0 .. MaxJoin
    /\ upc \in {"idle", "scan", "start", "abort", "abortend"}
    /\ kpc \in {"idle", "cancel", "report"}
    /\ tpc \in {"idle", "clear", "report"}

\* Together they are TypeOK.
LEMMA TypeParts == (TypeOK <=> Flags /\ Others) /\ (TypeOK' <=> Flags' /\ Others')
BY Zenon DEF TypeOK, Flags, Others

\* The driver before its first scan.
LEMMA InitInv == Init => IndInv
<1> SUFFICES ASSUME Init PROVE IndInv
  OBVIOUS
<1>1. Flags
  BY Zenon DEF Init, Flags
<1>2. Others
  BY ScanAssumption DEF Init, Others
<1>3. PointerIsCurrent /\ IndexInRange /\ ReportsOutstanding /\ ScanGoesOn
  BY DEF Init, PointerIsCurrent, IndexInRange, ReportsOutstanding, ScanGoesOn
<1> QED BY <1>1, <1>2, <1>3, TypeParts DEF IndInv

\* Every step keeps the types.
LEMMA TypeStep == TypeOK /\ IndexInRange /\ [Next]_vars => TypeOK'
<1> SUFFICES ASSUME TypeOK, IndexInRange, [Next]_vars PROVE TypeOK'
  OBVIOUS
<1>0. Flags /\ Others
  BY TypeParts
<1>1. CASE ScanRequest
  <2>1. Flags'
    BY <1>0, <1>1, Zenon DEF ScanRequest, scanVars, reqVars, lostVars, Flags
  <2>2. Others'
    BY <1>0, <1>1, ScanAssumption DEF ScanRequest, scanVars, reqVars, lostVars, Others
  <2> QED BY <2>1, <2>2, TypeParts
<1>2. CASE ScanSkipped
  <2>1. Flags'
    BY <1>0, <1>2, Zenon DEF ScanSkipped, IndicateScanDone, scanVars, reqVars, lostVars, Flags
  <2>2. Others'
    BY <1>0, <1>2, ScanAssumption DEF ScanSkipped, IndicateScanDone, scanVars,
       reqVars, lostVars, Others
  <2> QED BY <2>1, <2>2, TypeParts
<1>3. CASE ScanBusy
  <2>1. Flags'
    BY <1>0, <1>3, Zenon DEF ScanBusy, TurnDown, scanVars, reqVars, lostVars, Flags
  <2>2. Others'
    BY <1>0, <1>3, ScanAssumption DEF ScanBusy, TurnDown, scanVars, reqVars, lostVars, Others
  <2> QED BY <2>1, <2>2, TypeParts
<1>4. CASE ScanChecked
  <2>1. Flags'
    BY <1>0, <1>4, Zenon DEF ScanChecked, scanVars, reqVars, lostVars, Flags
  <2>2. Others'
    BY <1>0, <1>4, ScanAssumption DEF ScanChecked, scanVars, reqVars, lostVars, Others
  <2> QED BY <2>1, <2>2, TypeParts
<1>5. CASE ScanStart
  <2>1. Flags'
    BY <1>0, <1>5, Zenon DEF ScanStart, StartSurvey, scanVars, reqVars, lostVars, Flags
  <2>2. Others'
    BY <1>0, <1>5, ScanAssumption DEF ScanStart, StartSurvey, scanVars, reqVars, lostVars, Others
  <2> QED BY <2>1, <2>2, TypeParts
<1>6. CASE ScanStartFails
  <2>1. Flags'
    BY <1>0, <1>6, Zenon DEF ScanStartFails, TurnDown, scanVars, reqVars, lostVars, Flags
  <2>2. Others'
    BY <1>0, <1>6, ScanAssumption DEF ScanStartFails, TurnDown, scanVars, reqVars, lostVars, Others
  <2> QED BY <2>1, <2>2, TypeParts
<1>7. CASE AbortBegins
  <2>1. Flags'
    BY <1>0, <1>7, Zenon DEF AbortBegins, scanVars, reqVars, lostVars, Flags
  <2>2. Others'
    BY <1>0, <1>7, ScanAssumption DEF AbortBegins, scanVars, reqVars, lostVars, Others
  <2> QED BY <2>1, <2>2, TypeParts
<1>8. CASE AbortWaited
  <2>1. Flags'
    BY <1>0, <1>8, Zenon DEF AbortWaited, IndicateScanDone, scanVars, reqVars, lostVars, Flags
  <2>2. Others'
    BY <1>0, <1>8, ScanAssumption DEF AbortWaited, IndicateScanDone, scanVars,
       reqVars, lostVars, Others
  <2> QED BY <2>1, <2>2, TypeParts
<1>9. CASE AbortEnds
  <2>1. Flags'
    BY <1>0, <1>9, Zenon DEF AbortEnds, scanVars, reqVars, lostVars, Flags
  <2>2. Others'
    BY <1>0, <1>9, ScanAssumption DEF AbortEnds, scanVars, reqVars, lostVars, Others
  <2> QED BY <2>1, <2>2, TypeParts
<1>10. CASE AbortNoWait
  <2>1. Flags'
    BY <1>0, <1>10, Zenon DEF AbortNoWait, scanVars, reqVars, lostVars, Flags
  <2>2. Others'
    BY <1>0, <1>10, ScanAssumption DEF AbortNoWait, scanVars, reqVars, lostVars, Others
  <2> QED BY <2>1, <2>2, TypeParts
<1>11. CASE SurveyStart(TRUE)
  <2>1. Flags'
    BY <1>0, <1>11, Zenon DEF SurveyStart, TakeSurvey, ProcessChannel, scanVars,
       reqVars, lostVars, Flags
  <2>2. Others'
    BY <1>0, <1>11, ScanAssumption DEF SurveyStart, TakeSurvey, ProcessChannel,
       scanVars, reqVars, lostVars, Others
  <2> QED BY <2>1, <2>2, TypeParts
<1>12. CASE SurveyStart(FALSE)
  <2>1. Flags'
    BY <1>0, <1>12, Zenon DEF SurveyStart, TakeSurvey, ProcessChannel, scanVars,
       reqVars, lostVars, Flags
  <2>2. Others'
    BY <1>0, <1>12, ScanAssumption DEF SurveyStart, TakeSurvey, ProcessChannel,
       scanVars, reqVars, lostVars, Others
  <2> QED BY <2>1, <2>2, TypeParts
<1>13. CASE SurveyNext
  <2>1. Flags'
    BY <1>0, <1>13, Zenon DEF SurveyNext, TakeSurvey, ProcessChannel, scanVars,
       reqVars, lostVars, Flags
  <2>2. Others'
    BY <1>0, <1>13, ScanAssumption DEF SurveyNext, TakeSurvey, ProcessChannel,
       scanVars, reqVars, lostVars, Others, IndexInRange
  <2> QED BY <2>1, <2>2, TypeParts
<1>14. CASE SurveyDropped
  <2>1. Flags'
    BY <1>0, <1>14, Zenon DEF SurveyDropped, TakeSurvey, scanVars, reqVars, lostVars, Flags
  <2>2. Others'
    BY <1>0, <1>14, ScanAssumption DEF SurveyDropped, TakeSurvey, scanVars, reqVars, lostVars,
       Others
  <2> QED BY <2>1, <2>2, TypeParts
<1>15. CASE DoneClear
  <2>1. Flags'
    BY <1>0, <1>15, Zenon DEF DoneClear, TakeDone, scanVars, reqVars, lostVars, Flags
  <2>2. Others'
    BY <1>0, <1>15, ScanAssumption DEF DoneClear, TakeDone, scanVars, reqVars, lostVars, Others
  <2> QED BY <2>1, <2>2, TypeParts
<1>16. CASE DoneDropped
  <2>1. Flags'
    BY <1>0, <1>16, Zenon DEF DoneDropped, Lose, TakeDone, scanVars, reqVars, lostVars, Flags
  <2>2. Others'
    BY <1>0, <1>16, ScanAssumption DEF DoneDropped, Lose, TakeDone, scanVars, reqVars, lostVars, Others
  <2> QED BY <2>1, <2>2, TypeParts
<1>17. CASE DoneCancel
  <2>1. Flags'
    BY <1>0, <1>17, Zenon DEF DoneCancel, scanVars, reqVars, lostVars, Flags
  <2>2. Others'
    BY <1>0, <1>17, ScanAssumption DEF DoneCancel, scanVars, reqVars, lostVars, Others
  <2> QED BY <2>1, <2>2, TypeParts
<1>18. CASE DoneReport
  <2>1. Flags'
    BY <1>0, <1>18, Zenon DEF DoneReport, IndicateScanDone, scanVars, reqVars, lostVars, Flags
  <2>2. Others'
    BY <1>0, <1>18, ScanAssumption DEF DoneReport, IndicateScanDone, scanVars,
       reqVars, lostVars, Others
  <2> QED BY <2>1, <2>2, TypeParts
<1>19. CASE SurveyTimer
  <2>1. Flags'
    BY <1>0, <1>19, Zenon DEF SurveyTimer, scanVars, reqVars, lostVars, Flags
  <2>2. Others'
    BY <1>0, <1>19, ScanAssumption DEF SurveyTimer, scanVars, reqVars, lostVars, Others
  <2> QED BY <2>1, <2>2, TypeParts
<1>20. CASE ScanTimeout
  <2>1. Flags'
    BY <1>0, <1>20, Zenon DEF ScanTimeout, scanVars, reqVars, lostVars, Flags
  <2>2. Others'
    BY <1>0, <1>20, ScanAssumption DEF ScanTimeout, scanVars, reqVars, lostVars, Others
  <2> QED BY <2>1, <2>2, TypeParts
<1>21. CASE ScanTimeoutClear
  <2>1. Flags'
    BY <1>0, <1>21, Zenon DEF ScanTimeoutClear, scanVars, reqVars, lostVars, Flags
  <2>2. Others'
    BY <1>0, <1>21, ScanAssumption DEF ScanTimeoutClear, scanVars, reqVars, lostVars, Others
  <2> QED BY <2>1, <2>2, TypeParts
<1>22. CASE ScanTimeoutReport
  <2>1. Flags'
    BY <1>0, <1>22, Zenon DEF ScanTimeoutReport, IndicateScanDone, scanVars,
       reqVars, lostVars, Flags
  <2>2. Others'
    BY <1>0, <1>22, ScanAssumption DEF ScanTimeoutReport, IndicateScanDone,
       scanVars, reqVars, lostVars, Others
  <2> QED BY <2>1, <2>2, TypeParts
<1>23. CASE JoinSurvey
  <2>1. Flags'
    BY <1>0, <1>23, Zenon DEF JoinSurvey, StartSurvey, scanVars, reqVars, lostVars, Flags
  <2>2. Others'
    BY <1>0, <1>23, ScanAssumption DEF JoinSurvey, StartSurvey, scanVars, reqVars, lostVars, Others
  <2> QED BY <2>1, <2>2, TypeParts
<1>24. CASE LinkBegins
  <2>1. Flags'
    BY <1>0, <1>24, Zenon DEF LinkBegins, scanVars, reqVars, lostVars, Flags
  <2>2. Others'
    BY <1>0, <1>24, ScanAssumption DEF LinkBegins, scanVars, reqVars, lostVars, Others
  <2> QED BY <2>1, <2>2, TypeParts
<1>25. CASE LinkEnds
  <2>1. Flags'
    BY <1>0, <1>25, Zenon DEF LinkEnds, scanVars, reqVars, lostVars, Flags
  <2>2. Others'
    BY <1>0, <1>25, ScanAssumption DEF LinkEnds, scanVars, reqVars, lostVars, Others
  <2> QED BY <2>1, <2>2, TypeParts
<1>26. CASE SurveyIgnored
  <2>1. Flags'
    BY <1>0, <1>26, Zenon DEF SurveyIgnored, TakeSurvey, Lose, scanVars, reqVars,
       lostVars, Flags
  <2>2. Others'
    BY <1>0, <1>26, ScanAssumption DEF SurveyIgnored, TakeSurvey, Lose, scanVars,
       reqVars, lostVars, Others
  <2> QED BY <2>1, <2>2, TypeParts
<1>27. CASE SurveyTimerFails
  <2>1. Flags'
    BY <1>0, <1>27, Zenon DEF SurveyTimerFails, Lose, scanVars, reqVars,
       lostVars, Flags
  <2>2. Others'
    BY <1>0, <1>27, ScanAssumption DEF SurveyTimerFails, Lose, scanVars,
       reqVars, lostVars, Others
  <2> QED BY <2>1, <2>2, TypeParts
<1>28. CASE \E m \in BOOLEAN : ChangeIface(m)
  <2>1. Flags'
    BY <1>0, <1>28, Zenon DEF ChangeIface, scanVars, reqVars,
       lostVars, Flags
  <2>2. Others'
    BY <1>0, <1>28, ScanAssumption DEF ChangeIface, scanVars,
       reqVars, lostVars, Others
  <2> QED BY <2>1, <2>2, TypeParts
<1>29. CASE UNCHANGED vars
  BY <1>29 DEF vars, scanVars, reqVars, lostVars, TypeOK
<1> QED
  BY <1>1, <1>2, <1>3, <1>4, <1>5, <1>6, <1>7, <1>8, <1>9, <1>10, <1>11, <1>12, <1>13,
     <1>14, <1>15, <1>16, <1>17, <1>18, <1>19, <1>20, <1>21, <1>22, <1>23, <1>24,
     <1>25, <1>26, <1>27, <1>28, <1>29
  DEF Next, UStep, KStep, TStep, STimer, Env

\* Every step keeps channel_idx in range.
LEMMA IndexStep == TypeOK /\ IndexInRange /\ [Next]_vars => IndexInRange'
<1> SUFFICES ASSUME TypeOK, IndexInRange, [Next]_vars PROVE IndexInRange'
  OBVIOUS
<1> USE DEF IndexInRange
<1>1. CASE ScanRequest
  BY <1>1 DEF ScanRequest, scanVars
<1>2. CASE ScanSkipped
  BY <1>2 DEF ScanSkipped, scanVars
<1>3. CASE ScanBusy
  BY <1>3 DEF ScanBusy, scanVars
<1>4. CASE ScanChecked
  BY <1>4 DEF ScanChecked, scanVars
<1>5. CASE ScanStart
  BY <1>5 DEF ScanStart, scanVars
<1>6. CASE ScanStartFails
  BY <1>6 DEF ScanStartFails, scanVars
<1>7. CASE AbortBegins
  BY <1>7 DEF AbortBegins, scanVars
<1>8. CASE AbortWaited
  BY <1>8 DEF AbortWaited, scanVars
<1>9. CASE AbortEnds
  BY <1>9 DEF AbortEnds, scanVars
<1>10. CASE AbortNoWait
  BY <1>10 DEF AbortNoWait, scanVars
<1>11. CASE SurveyStart(TRUE)
  BY <1>11, ScanAssumption DEF SurveyStart, ProcessChannel, TypeOK
<1>12. CASE SurveyStart(FALSE)
  BY <1>12, ScanAssumption DEF SurveyStart, ProcessChannel, TypeOK
<1>13. CASE SurveyNext
  BY <1>13, ScanAssumption DEF SurveyNext, ProcessChannel, TypeOK
<1>14. CASE SurveyDropped
  BY <1>14 DEF SurveyDropped, scanVars
<1>15. CASE DoneClear
  BY <1>15 DEF DoneClear, scanVars
<1>16. CASE DoneDropped
  BY <1>16 DEF DoneDropped, scanVars
<1>17. CASE DoneCancel
  BY <1>17 DEF DoneCancel, scanVars
<1>18. CASE DoneReport
  BY <1>18 DEF DoneReport, scanVars
<1>19. CASE SurveyTimer
  BY <1>19 DEF SurveyTimer, scanVars
<1>20. CASE ScanTimeout
  BY <1>20 DEF ScanTimeout, scanVars
<1>21. CASE ScanTimeoutClear
  BY <1>21 DEF ScanTimeoutClear, scanVars
<1>22. CASE ScanTimeoutReport
  BY <1>22 DEF ScanTimeoutReport, scanVars
<1>23. CASE JoinSurvey
  BY <1>23 DEF JoinSurvey, scanVars
<1>24. CASE LinkBegins
  BY <1>24 DEF LinkBegins, scanVars
<1>25. CASE LinkEnds
  BY <1>25 DEF LinkEnds, scanVars
<1>26. CASE SurveyIgnored
  BY <1>26 DEF SurveyIgnored, scanVars
<1>27. CASE SurveyTimerFails
  BY <1>27 DEF SurveyTimerFails, scanVars
<1>28. CASE \E m \in BOOLEAN : ChangeIface(m)
  BY <1>28 DEF ChangeIface, scanVars
<1>29. CASE UNCHANGED vars
  BY <1>29 DEF vars, scanVars
<1> QED
  BY <1>1, <1>2, <1>3, <1>4, <1>5, <1>6, <1>7, <1>8, <1>9, <1>10, <1>11, <1>12, <1>13,
     <1>14, <1>15, <1>16, <1>17, <1>18, <1>19, <1>20, <1>21, <1>22, <1>23, <1>24,
     <1>25, <1>26, <1>27, <1>28, <1>29
  DEF Next, UStep, KStep, TStep, STimer, Env

\* No context makes the pointer stale but the one that turns a request down.
LEMMA PointerStep ==
    TypeOK /\ PointerIsCurrent /\ ReportsOutstanding /\ [Next]_vars
        => PointerIsCurrent' /\ ReportsOutstanding'
<1> SUFFICES ASSUME TypeOK, PointerIsCurrent, ReportsOutstanding, [Next]_vars
             PROVE  PointerIsCurrent' /\ ReportsOutstanding'
  OBVIOUS
<1> USE DEF PointerIsCurrent, ReportsOutstanding
<1>1. CASE ScanRequest
  BY <1>1 DEF ScanRequest, reqVars, TypeOK
<1>2. CASE ScanSkipped
  BY <1>2 DEF ScanSkipped, IndicateScanDone, reqVars, TypeOK
<1>3. CASE ScanBusy
  BY <1>3 DEF ScanBusy, TurnDown, reqVars, TypeOK
<1>4. CASE ScanChecked
  BY <1>4 DEF ScanChecked, reqVars
<1>5. CASE ScanStart
  BY <1>5 DEF ScanStart, reqVars
<1>6. CASE ScanStartFails
  BY <1>6 DEF ScanStartFails, TurnDown, reqVars, TypeOK
<1>7. CASE AbortBegins
  BY <1>7 DEF AbortBegins, reqVars
<1>8. CASE AbortWaited
  BY <1>8 DEF AbortWaited, IndicateScanDone, reqVars, TypeOK
<1>9. CASE AbortEnds
  BY <1>9 DEF AbortEnds, reqVars
<1>10. CASE AbortNoWait
  BY <1>10 DEF AbortNoWait, reqVars
<1>11. CASE SurveyStart(TRUE)
  BY <1>11 DEF SurveyStart, reqVars
<1>12. CASE SurveyStart(FALSE)
  BY <1>12 DEF SurveyStart, reqVars
<1>13. CASE SurveyNext
  BY <1>13 DEF SurveyNext, reqVars
<1>14. CASE SurveyDropped
  BY <1>14 DEF SurveyDropped, reqVars
<1>15. CASE DoneClear
  BY <1>15 DEF DoneClear, reqVars
<1>16. CASE DoneDropped
  BY <1>16 DEF DoneDropped, reqVars
<1>17. CASE DoneCancel
  BY <1>17 DEF DoneCancel, reqVars
<1>18. CASE DoneReport
  BY <1>18 DEF DoneReport, IndicateScanDone, reqVars, TypeOK
<1>19. CASE SurveyTimer
  BY <1>19 DEF SurveyTimer, reqVars
<1>20. CASE ScanTimeout
  BY <1>20 DEF ScanTimeout, reqVars
<1>21. CASE ScanTimeoutClear
  BY <1>21 DEF ScanTimeoutClear, reqVars
<1>22. CASE ScanTimeoutReport
  BY <1>22 DEF ScanTimeoutReport, IndicateScanDone, reqVars, TypeOK
<1>23. CASE JoinSurvey
  BY <1>23 DEF JoinSurvey, reqVars
<1>24. CASE LinkBegins
  BY <1>24 DEF LinkBegins, reqVars
<1>25. CASE LinkEnds
  BY <1>25 DEF LinkEnds, reqVars
<1>26. CASE SurveyIgnored
  BY <1>26 DEF SurveyIgnored, reqVars
<1>27. CASE SurveyTimerFails
  BY <1>27 DEF SurveyTimerFails, reqVars
<1>28. CASE \E m \in BOOLEAN : ChangeIface(m)
  BY <1>28 DEF ChangeIface, reqVars
<1>29. CASE UNCHANGED vars
  BY <1>29 DEF vars, reqVars
<1> QED
  BY <1>1, <1>2, <1>3, <1>4, <1>5, <1>6, <1>7, <1>8, <1>9, <1>10, <1>11, <1>12, <1>13,
     <1>14, <1>15, <1>16, <1>17, <1>18, <1>19, <1>20, <1>21, <1>22, <1>23, <1>24,
     <1>25, <1>26, <1>27, <1>28, <1>29
  DEF Next, UStep, KStep, TStep, STimer, Env

\* The scan is always carried on by the timer or by a command.
LEMMA ScanStep == TypeOK /\ ScanGoesOn /\ [Next]_vars => ScanGoesOn'
<1> SUFFICES ASSUME TypeOK, ScanGoesOn, [Next]_vars,
                    state' # "disable", ~halted'
             PROVE  survey_timer' \/ InQueue("survey")'
  BY DEF ScanGoesOn
<1> USE DEF ScanGoesOn, InQueue
<1>1. CASE ScanRequest
  BY <1>1 DEF ScanRequest, scanVars, lostVars
<1>2. CASE ScanSkipped
  BY <1>2 DEF ScanSkipped, scanVars, lostVars
<1>3. CASE ScanBusy
  BY <1>3 DEF ScanBusy, scanVars, lostVars
<1>4. CASE ScanChecked
  BY <1>4 DEF ScanChecked, scanVars, lostVars
<1>5. CASE ScanStart
  <2>1. CASE monitor
    BY <1>5, <2>1 DEF ScanStart, StartSurvey, scanVars
  <2>2. CASE ~monitor
    <3>1. queue' = Append(queue, "survey") /\ queue \in Seq({"survey", "done"})
      BY <1>5, <2>2 DEF ScanStart, StartSurvey, TypeOK
    <3> QED BY <3>1, AppendAdds
  <2> QED BY <2>1, <2>2
<1>6. CASE ScanStartFails
  BY <1>6 DEF ScanStartFails, scanVars, lostVars
<1>7. CASE AbortBegins
  BY <1>7 DEF AbortBegins, scanVars, lostVars
<1>8. CASE AbortWaited
  BY <1>8 DEF AbortWaited, scanVars, lostVars
<1>9. CASE AbortEnds
  BY <1>9 DEF AbortEnds, scanVars, lostVars
<1>10. CASE AbortNoWait
  BY <1>10 DEF AbortNoWait, scanVars, lostVars
<1>11. CASE SurveyStart(TRUE)
  BY <1>11 DEF SurveyStart, ProcessChannel
<1>12. CASE SurveyStart(FALSE)
  BY <1>12 DEF SurveyStart, ProcessChannel
<1>13. CASE SurveyNext
  BY <1>13 DEF SurveyNext, ProcessChannel
<1>14. CASE SurveyDropped
  BY <1>14 DEF SurveyDropped
<1>15. CASE DoneClear
  <2>1. /\ queue \in Seq({"survey", "done"}) /\ queue # << >> /\ Head(queue) = "done"
        /\ queue' = Tail(queue) /\ survey_timer' = survey_timer
        /\ state # "disable" /\ ~halted
    BY <1>15 DEF DoneClear, TakeDone, TypeOK, scanVars, lostVars
  <2>2. CASE survey_timer
    BY <2>1, <2>2
  <2>3. CASE InQueue("survey")
    <3>1. Head(queue) # "survey"
      BY <2>1
    <3> QED BY <2>1, <2>3, <3>1, TailKeeps
  <2> QED BY <2>1, <2>2, <2>3
<1>16. CASE DoneDropped
  <2>1. /\ queue \in Seq({"survey", "done"}) /\ queue # << >> /\ Head(queue) = "done"
        /\ queue' = Tail(queue) /\ survey_timer' = survey_timer
        /\ state # "disable" /\ ~halted
    BY <1>16 DEF DoneDropped, TakeDone, TypeOK, scanVars, lostVars
  <2>2. CASE survey_timer
    BY <2>1, <2>2
  <2>3. CASE InQueue("survey")
    <3>1. Head(queue) # "survey"
      BY <2>1
    <3> QED BY <2>1, <2>3, <3>1, TailKeeps
  <2> QED BY <2>1, <2>2, <2>3
<1>17. CASE DoneCancel
  BY <1>17 DEF DoneCancel, scanVars, lostVars
<1>18. CASE DoneReport
  BY <1>18 DEF DoneReport, scanVars, lostVars
<1>19. CASE SurveyTimer
  <2>1. queue' = Append(queue, "survey") /\ queue \in Seq({"survey", "done"})
    BY <1>19 DEF SurveyTimer, TypeOK
  <2> QED BY <2>1, AppendAdds
<1>20. CASE ScanTimeout
  BY <1>20 DEF ScanTimeout, scanVars, lostVars
<1>21. CASE ScanTimeoutClear
  BY <1>21 DEF ScanTimeoutClear, scanVars, lostVars
<1>22. CASE ScanTimeoutReport
  BY <1>22 DEF ScanTimeoutReport, scanVars, lostVars
<1>23. CASE JoinSurvey
  <2>1. CASE monitor
    BY <1>23, <2>1 DEF JoinSurvey, StartSurvey, scanVars
  <2>2. CASE ~monitor
    <3>1. queue' = Append(queue, "survey") /\ queue \in Seq({"survey", "done"})
      BY <1>23, <2>2 DEF JoinSurvey, StartSurvey, TypeOK
    <3> QED BY <3>1, AppendAdds
  <2> QED BY <2>1, <2>2
<1>24. CASE LinkBegins
  BY <1>24 DEF LinkBegins, scanVars, lostVars
<1>25. CASE LinkEnds
  BY <1>25 DEF LinkEnds, scanVars, lostVars
<1>26. CASE SurveyIgnored
  BY <1>26 DEF SurveyIgnored
<1>27. CASE SurveyTimerFails
  BY <1>27 DEF SurveyTimerFails
<1>28. CASE \E m \in BOOLEAN : ChangeIface(m)
  BY <1>28 DEF ChangeIface, scanVars, lostVars
<1>29. CASE UNCHANGED vars
  BY <1>29 DEF vars, scanVars, lostVars
<1> QED
  BY <1>1, <1>2, <1>3, <1>4, <1>5, <1>6, <1>7, <1>8, <1>9, <1>10, <1>11, <1>12, <1>13,
     <1>14, <1>15, <1>16, <1>17, <1>18, <1>19, <1>20, <1>21, <1>22, <1>23, <1>24,
     <1>25, <1>26, <1>27, <1>28, <1>29
  DEF Next, UStep, KStep, TStep, STimer, Env

\* The invariant holds throughout.
LEMMA InvHolds == Spec => []IndInv
<1>1. IndInv /\ [Next]_vars => IndInv'
  BY TypeStep, IndexStep, PointerStep, ScanStep DEF IndInv
<1> QED BY InitInv, <1>1, PTL DEF Spec

-----------------------------------------------------------------------------
\* Type correctness of the survey; channel_idx never passes ch_num.
THEOREM TypeCorrect == Spec => []TypeOK
<1>1. IndInv => TypeOK
  BY DEF IndInv
<1> QED BY InvHolds, <1>1, PTL

\* Whichever of the event, the time-out, the abort and the scan call itself ends
\* a scan first, cfg80211_scan_done gets the outstanding request, as long as no
\* request was turned down.
THEOREM OnlyOutstandingReported == Spec => []ReportsOutstanding
<1>1. IndInv => ReportsOutstanding
  BY DEF IndInv
<1> QED BY InvHolds, <1>1, PTL

\* A scan under way is never left without a timer or a command to carry it on,
\* but behind a command that was dropped, ignored or could not be queued.
THEOREM ScanIsCarriedOn == Spec => []ScanGoesOn
<1>1. IndInv => ScanGoesOn
  BY DEF IndInv
<1> QED BY InvHolds, <1>1, PTL
=============================================================================
