SPECIFICATION FairSpec
CONSTANTS
  ChNum = 2
  MaxRequest = 2
  MaxJoin = 1
INVARIANTS TypeOK ReportsOutstanding ScanGoesOn
PROPERTIES SurveyEnds RequestAnswered
CHECK_DEADLOCK FALSE
