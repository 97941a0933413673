----------------------------- MODULE MCTcpServer -----------------------------
(* Instances of TcpServer for TLC.                                          *)
EXTENDS TcpServer, TLC

Symmetry ==
  Permutations(Callers) \cup Permutations(Workers) \cup Permutations(Conns)

=============================================================================
