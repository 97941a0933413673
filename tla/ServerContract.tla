---------------------------- MODULE ServerContract ----------------------------
(***************************************************************************)
(* What tcp_server promises its users, without threads, locks, sockets and *)
(* asynchronous operations: connections are admitted only while the server *)
(* listens, and a stop is over only when no connection is left.            *)
(***************************************************************************)
CONSTANT Conns

VARIABLES
  phase,  \* "stopped", "listening" or "stopping"
  live    \* the connections the server is responsible for

contract == <<phase, live>>

Init == phase = "stopped" /\ live = {}

Start ==
  /\ phase # "listening"
  /\ phase' = "listening"
  /\ UNCHANGED live

\* A connection is admitted; others may be found dead on that occasion.
Admit ==
  /\ phase = "listening"
  /\ \E c \in Conns, dead \in SUBSET live : live' = (live \ dead) \cup {c}
  /\ UNCHANGED phase

Leave ==
  /\ live # {}
  /\ live' \subseteq live /\ live' # live
  /\ UNCHANGED phase

BeginStop ==
  /\ phase = "listening"
  /\ live' \subseteq live
  /\ phase' \in {"stopping", "stopped"}
  /\ phase' = "stopped" => live' = {}

EndStop ==
  /\ phase = "stopping"
  /\ live' \subseteq live
  /\ phase' = "stopped" /\ live' = {}

Next == Start \/ Admit \/ Leave \/ BeginStop \/ EndStop

Spec == Init /\ [][Next]_contract
=============================================================================
