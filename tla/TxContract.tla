----------------------------- MODULE TxContract -----------------------------
(***************************************************************************)
(* What a network driver promises the Linux stack about the packets it is  *)
(* handed through ndo_start_xmit: every packet taken is given back once,   *)
(* and a subqueue is stopped only while the driver still has a packet of   *)
(* that subqueue in its hands, for it is the return of a packet that wakes *)
(* the subqueue again.  A driver that breaks the second half leaves a      *)
(* subqueue stopped with nothing left that would ever start it.            *)
(***************************************************************************)
CONSTANTS
    Pkt,        \* the packets (skb) of the stack
    Queue,      \* the subqueues of the network device
    PktQueue    \* skb_get_queue_mapping

VARIABLES
    held,       \* packets the driver has taken and not returned
    halted      \* subqueues the driver has stopped

contractVars == <<held, halted>>

\* The subqueues that have a packet in the set P.
QueuesOf(P) == {PktQueue[p] : p \in P}

ContractInit == held = {} /\ halted = {}

\* The stack hands over a packet of a subqueue that is not stopped.
Take(p) ==
    /\ p \notin held /\ PktQueue[p] \notin halted
    /\ held' = held \cup {p}
    /\ UNCHANGED halted

\* The driver stops a subqueue of which it has a packet.
Stop(q) ==
    /\ q \in QueuesOf(held)
    /\ halted' = halted \cup {q}
    /\ UNCHANGED held

\* The driver returns packets and wakes some of their subqueues; one that
\* stays stopped still has a packet in the driver's hands.
Return(R) ==
    /\ R # {} /\ R \subseteq held
    /\ held' = held \ R
    /\ halted \ QueuesOf(R) \subseteq halted' /\ halted' \subseteq halted
    /\ halted' \subseteq QueuesOf(held')

ContractNext ==
    \/ \E p \in Pkt : Take(p)
    \/ \E q \in Queue : Stop(q)
    \/ \E R \in SUBSET Pkt : Return(R)

ContractSpec == ContractInit /\ [][ContractNext]_contractVars
=============================================================================
