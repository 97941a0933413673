---------------------------- MODULE MCWsRegistry ----------------------------
(* Small instances of WsRegistry for TLC. *)
EXTENDS WsRegistry

\* Broadcasts to all clients of a path, and to those with one id.
AllOrOne == {{}} \cup {{i} : i \in Ids}
=============================================================================
