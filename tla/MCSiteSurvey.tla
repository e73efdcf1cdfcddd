---------------------------- MODULE MCSiteSurvey ----------------------------
(* SiteSurvey for TLC; the configurations give the constants.               *)
EXTENDS SiteSurvey
=============================================================================
