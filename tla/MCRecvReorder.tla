---------------------------- MODULE MCRecvReorder ----------------------------
(* RecvReorder for TLC; the configurations give the constants.              *)
EXTENDS RecvReorder
=============================================================================
