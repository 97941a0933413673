--------------------------- MODULE MCRequestReader ---------------------------
(* Instances of RequestReader for TLC.                                      *)
EXTENDS RequestReader
=============================================================================
