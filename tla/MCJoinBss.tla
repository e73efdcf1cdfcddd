----------------------------- MODULE MCJoinBss -----------------------------
(* JoinBss for TLC; the configurations give the constants.                  *)
EXTENDS JoinBss
=============================================================================
