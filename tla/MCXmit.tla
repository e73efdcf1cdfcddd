------------------------------- MODULE MCXmit -------------------------------
(***************************************************************************)
(* The instances of Xmit that TLC runs: one subqueue with two packets, one *)
(* station, two frames, and as many transmit buffers as subqueues or more. *)
(***************************************************************************)
EXTENDS Xmit

CONSTANTS b1, b2, be, s1

MCPktQueue == [p \in Pkt |-> be]
MCPktSta   == [p \in Pkt |-> s1]
MCRank     == [q \in Queue |-> 0]

\* A station without U-APSD and one that uses it for every category.
MCUapsd == {{}, Queue}
=============================================================================
