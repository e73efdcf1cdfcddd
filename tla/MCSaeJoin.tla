----------------------------- MODULE MCSaeJoin -----------------------------
(* SaeJoin with the constants of its configurations. *)
EXTENDS SaeJoin
=============================================================================
