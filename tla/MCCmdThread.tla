----------------------------- MODULE MCCmdThread -----------------------------
(* CmdThread for TLC: a command with a waiter, and one without that is      *)
(* allowed while the hardware is off.                                       *)
EXTENDS CmdThread

CONSTANTS c1, c2

MCCmds == {c1, c2}
MCWait == {c1}
MCNoIo == {c2}
=============================================================================
