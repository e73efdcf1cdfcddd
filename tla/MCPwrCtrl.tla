----------------------------- MODULE MCPwrCtrl -----------------------------
(* PwrCtrl with the constants of its configuration. *)
EXTENDS PwrCtrl
=============================================================================
