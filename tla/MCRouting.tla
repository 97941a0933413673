------------------------------ MODULE MCRouting ------------------------------
(* A small instance of Routing for TLC. *)
EXTENDS Routing

\* "/", "/a", "/a/", "/a/b" and "*".
SomeResources == {<<"", "">>, <<"", "a">>, <<"", "a", "">>, <<"", "a", "b">>, <<"*">>}
==============================================================================
