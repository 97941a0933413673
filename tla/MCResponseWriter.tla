--------------------------- MODULE MCResponseWriter ---------------------------
(* Small instances of ResponseWriter for TLC. *)
EXTENDS ResponseWriter

Req(method, major, minor) == [method |-> method, major |-> major, minor |-> minor]

\* HTTP/1.1 and 1.0, the 0.9 of a request without a version, and a version that
\* check_keep_alive and update_request_info do not agree on.
Versions == {Req("GET", 1, 1), Req("GET", 1, 0), Req("GET", 0, 0), Req("GET", 2, 0),
             Req("HEAD", 1, 1)}

ByTheRules == {}
===============================================================================
