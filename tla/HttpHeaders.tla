------------------------------ MODULE HttpHeaders ------------------------------
(***************************************************************************)
(* http_parser::parse_headers (src/http_parser.cpp): the request line, the *)
(* headers and the footers of a message, one character at a time.          *)
(*                                                                         *)
(* Characters are taken by kind: the ones the parser looks for ("sp",      *)
(* "tab", "cr", "lf", "?", ":", "/", ".", "H", "T", "P", "0", "1"), other  *)
(* characters a token may hold ("x"), separators ("special"), control      *)
(* characters ("ctl") and characters above 127 ("high").  Of the strings   *)
(* that are collected only the length matters.                             *)
(*                                                                         *)
(* All state is kept between two calls, so that it does not matter how the *)
(* characters are split into reads.                                        *)
(***************************************************************************)
EXTENDS Naturals

CONSTANTS
  METHOD_MAX, RESOURCE_MAX, QUERY_STRING_MAX, HEADER_NAME_MAX, HEADER_VALUE_MAX,
  VersionModulus     \* version numbers wrap here (2^16 in the code)

ASSUME MaximaAssumption ==
  {METHOD_MAX, RESOURCE_MAX, QUERY_STRING_MAX, HEADER_NAME_MAX,
   HEADER_VALUE_MAX} \subseteq Nat \ {0}

ASSUME ModulusAssumption == VersionModulus \in Nat /\ VersionModulus > 1

Digits == {"0", "1"}
Chars == {"sp", "tab", "cr", "lf", "?", ":", "/", ".", "H", "T", "P", "x",
          "special", "ctl", "high"} \cup Digits

\* Characters of methods and header names; control characters.
IsToken(c) == c \in {".", "H", "T", "P", "x"} \cup Digits
IsControl(c) == c \in {"tab", "cr", "lf", "ctl"}

Value(d) == IF d = "1" THEN 1 ELSE 0

\* The states of the machine in which a string is collected, and its limit.
Limit ==
  [METHOD |-> METHOD_MAX, URI_STEM |-> RESOURCE_MAX,
   URI_QUERY |-> QUERY_STRING_MAX, HEADER_NAME |-> HEADER_NAME_MAX,
   HEADER_VALUE |-> HEADER_VALUE_MAX]

States ==
  {"METHOD_START", "METHOD", "URI_STEM", "URI_QUERY", "HTTP_VERSION_H",
   "HTTP_VERSION_T_1", "HTTP_VERSION_T_2", "HTTP_VERSION_P",
   "HTTP_VERSION_SLASH", "HTTP_VERSION_MAJOR_START", "HTTP_VERSION_MAJOR",
   "HTTP_VERSION_MINOR_START", "HTTP_VERSION_MINOR", "EXPECTING_NEWLINE",
   "EXPECTING_CR", "HEADER_WHITESPACE", "HEADER_START", "HEADER_NAME",
   "SPACE_BEFORE_HEADER_VALUE", "HEADER_VALUE", "EXPECTING_FINAL_NEWLINE",
   "EXPECTING_FINAL_CR"}

VARIABLES
  hstate,   \* m_headers_parse_state
  size,     \* length of the string being collected
  major,    \* the message's major version
  rc,       \* "indeterminate", "true" or "false"
  footers,  \* does the parser read footers (PARSE_FOOTERS)?
  tail      \* the last four characters consumed: "cr", "lf" or "x"

vars == <<hstate, size, major, rc, footers, tail>>

Init ==
  /\ hstate = "METHOD_START"
  /\ size = 0
  /\ major = 0
  /\ rc = "indeterminate"
  /\ footers = FALSE
  /\ tail = [i \in 1 .. 4 |-> "x"]

-----------------------------------------------------------------------------
(* What a state does with character c                                      *)

\* ++m_read_ptr
Eat(c) ==
  tail' = [i \in 1 .. 4 |-> IF i < 4 THEN tail[i + 1]
                            ELSE IF c \in {"cr", "lf"} THEN c ELSE "x"]

\* c is consumed and the machine goes to state s, with a string of length n.
Enter(s, n, c) ==
  /\ hstate' = s /\ size' = n
  /\ Eat(c)
  /\ UNCHANGED rc

Goto(s, c) == Enter(s, 0, c) /\ UNCHANGED major

\* c is the first character of the string collected in state s.
Begin(s, c) == Enter(s, 1, c) /\ UNCHANGED major

Fail == rc' = "false" /\ UNCHANGED <<hstate, size, major, tail>>

\* The section is complete; c is its last character, or is left in the buffer.
Finish(c) == rc' = "true" /\ Eat(c) /\ UNCHANGED <<hstate, size, major>>
FinishBefore == rc' = "true" /\ UNCHANGED <<hstate, size, major, tail>>

\* Faulty variant: the limit is tested after the character is stored.
PushUnchecked(c) ==
  IF size > Limit[hstate] THEN Fail
  ELSE Enter(hstate, size + 1, c) /\ UNCHANGED major

\* The string grows up to its limit.
Push(c) ==
  IF size >= Limit[hstate] THEN Fail
  ELSE Enter(hstate, size + 1, c) /\ UNCHANGED major

\* The end of the line: after CR a newline is expected, and vice versa.
EndLine(c) ==
  \/ c = "cr" /\ Goto("EXPECTING_NEWLINE", c)
  \/ c = "lf" /\ Goto("EXPECTING_CR", c)

\* A request line without a version: the version is 0.0.
EndUnversioned(c) ==
  /\ major' = 0
  /\ \/ c = "cr" /\ Enter("EXPECTING_NEWLINE", 0, c)
     \/ c = "lf" /\ Enter("EXPECTING_CR", 0, c)

\* c begins a header, or white space before one.
BeginHeader(c) ==
  \/ c \in {"sp", "tab"} /\ Goto("HEADER_WHITESPACE", c)
  \/ IsToken(c) /\ Begin("HEADER_NAME", c)
  \/ c \notin {"sp", "tab", "cr", "lf"} /\ ~IsToken(c) /\ Fail

-----------------------------------------------------------------------------
(* The request line                                                        *)

MethodStart(c) ==
  /\ hstate = "METHOD_START"
  /\ \/ c \in {"sp", "cr", "lf"} /\ Goto(hstate, c)
     \/ IsToken(c) /\ Begin("METHOD", c)
     \/ c \notin {"sp", "cr", "lf"} /\ ~IsToken(c) /\ Fail

Method(c) ==
  /\ hstate = "METHOD"
  /\ \/ c = "sp" /\ Goto("URI_STEM", c)
     \/ IsToken(c) /\ Push(c)
     \/ c # "sp" /\ ~IsToken(c) /\ Fail

UriStem(c) ==
  /\ hstate = "URI_STEM"
  /\ \/ c = "sp" /\ Goto("HTTP_VERSION_H", c)
     \/ c = "?" /\ Goto("URI_QUERY", c)
     \/ EndUnversioned(c)
     \/ c \notin {"cr", "lf"} /\ IsControl(c) /\ Fail
     \/ c \notin {"sp", "?"} /\ ~IsControl(c) /\ Push(c)

UriQuery(c) ==
  /\ hstate = "URI_QUERY"
  /\ \/ c = "sp" /\ Goto("HTTP_VERSION_H", c)
     \/ EndUnversioned(c)
     \/ c \notin {"cr", "lf"} /\ IsControl(c) /\ Fail
     \/ c # "sp" /\ ~IsControl(c) /\ Push(c)

\* CR and LF set the version to 0.0, and then the state is overwritten.
VersionH(c) ==
  /\ hstate = "HTTP_VERSION_H"
  /\ \/ c = "H" /\ Goto("HTTP_VERSION_T_1", c)
     \/ c \in {"cr", "lf"} /\ Enter("HTTP_VERSION_T_1", 0, c) /\ major' = 0
     \/ c \notin {"H", "cr", "lf"} /\ Fail

\* The rest of "HTTP/".
VersionName(c) ==
  \E s \in {<<"HTTP_VERSION_T_1", "T", "HTTP_VERSION_T_2">>,
            <<"HTTP_VERSION_T_2", "T", "HTTP_VERSION_P">>,
            <<"HTTP_VERSION_P", "P", "HTTP_VERSION_SLASH">>,
            <<"HTTP_VERSION_SLASH", "/", "HTTP_VERSION_MAJOR_START">>} :
    /\ hstate = s[1]
    /\ \/ c = s[2] /\ Goto(s[3], c)
       \/ c # s[2] /\ Fail

VersionMajorStart(c) ==
  /\ hstate = "HTTP_VERSION_MAJOR_START"
  /\ \/ /\ c \in Digits
        /\ Enter("HTTP_VERSION_MAJOR", 0, c)
        /\ major' = Value(c)
     \/ c \notin Digits /\ Fail

VersionMajor(c) ==
  /\ hstate = "HTTP_VERSION_MAJOR"
  /\ \/ c = "." /\ Goto("HTTP_VERSION_MINOR_START", c)
     \/ /\ c \in Digits
        /\ Enter(hstate, 0, c)
        /\ major' = (major * 10 + Value(c)) % VersionModulus
     \/ c \notin Digits \cup {"."} /\ Fail

VersionMinorStart(c) ==
  /\ hstate = "HTTP_VERSION_MINOR_START"
  /\ \/ c \in Digits /\ Goto("HTTP_VERSION_MINOR", c)
     \/ c \notin Digits /\ Fail

VersionMinor(c) ==
  /\ hstate = "HTTP_VERSION_MINOR"
  /\ \/ c \in Digits \cup {"sp"} /\ Goto(hstate, c)
     \/ EndLine(c)
     \/ c \notin Digits \cup {"sp", "cr", "lf"} /\ Fail

-----------------------------------------------------------------------------
(* The ends of lines                                                       *)

\* A simple request (HTTP 0.9) ends with its line; CR CR ends the section.
ExpectingNewline(c) ==
  /\ hstate = "EXPECTING_NEWLINE"
  /\ \/ c = "lf" /\ major = 0 /\ Finish(c)
     \/ c = "lf" /\ major # 0 /\ Goto("HEADER_START", c)
     \/ c = "cr" /\ Finish(c)
     \/ BeginHeader(c)

\* Faulty variant: a CR after a lone LF ends the section.
ExpectingCrEager(c) ==
  /\ hstate = "EXPECTING_CR"
  /\ \/ c \in {"cr", "lf"} /\ Finish(c)
     \/ BeginHeader(c)

ExpectingCr(c) ==
  /\ hstate = "EXPECTING_CR"
  /\ \/ c = "cr" /\ Goto("HEADER_START", c)
     \/ c = "lf" /\ Finish(c)
     \/ BeginHeader(c)

\* A last CR or LF is optional, but another character must have arrived.
ExpectingFinal(c) ==
  \E s \in {<<"EXPECTING_FINAL_NEWLINE", "lf">>, <<"EXPECTING_FINAL_CR", "cr">>} :
    /\ hstate = s[1]
    /\ \/ c = s[2] /\ Finish(c)
       \/ c # s[2] /\ FinishBefore

-----------------------------------------------------------------------------
(* Headers                                                                 *)

HeaderWhitespace(c) ==
  /\ hstate = "HEADER_WHITESPACE"
  /\ EndLine(c) \/ BeginHeader(c)

\* Faulty variant: an empty line is skipped like white space.
HeaderStartSkips(c) ==
  /\ hstate = "HEADER_START"
  /\ EndLine(c) \/ BeginHeader(c)

HeaderStart(c) ==
  /\ hstate = "HEADER_START"
  /\ \/ c = "cr" /\ Goto("EXPECTING_FINAL_NEWLINE", c)
     \/ c = "lf" /\ Goto("EXPECTING_FINAL_CR", c)
     \/ BeginHeader(c)

HeaderName(c) ==
  /\ hstate = "HEADER_NAME"
  /\ \/ c = ":" /\ Goto("SPACE_BEFORE_HEADER_VALUE", c)
     \/ IsToken(c) /\ Push(c)
     \/ c # ":" /\ ~IsToken(c) /\ Fail

SpaceBeforeHeaderValue(c) ==
  /\ hstate = "SPACE_BEFORE_HEADER_VALUE"
  /\ \/ c = "sp" /\ Goto("HEADER_VALUE", c)
     \/ EndLine(c)
     \/ IsToken(c) /\ Begin("HEADER_VALUE", c)
     \/ c \notin {"sp", "cr", "lf"} /\ ~IsToken(c) /\ Fail

HeaderValue(c) ==
  /\ hstate = "HEADER_VALUE"
  /\ \/ EndLine(c)
     \/ c = "ctl" /\ Fail
     \/ c \notin {"cr", "lf", "ctl"} /\ Push(c)

-----------------------------------------------------------------------------
RequestLine(c) ==
  \/ MethodStart(c) \/ Method(c) \/ UriStem(c) \/ UriQuery(c)
  \/ VersionH(c) \/ VersionName(c)
  \/ VersionMajorStart(c) \/ VersionMajor(c)
  \/ VersionMinorStart(c) \/ VersionMinor(c)

Header(c) ==
  \/ ExpectingNewline(c) \/ ExpectingCr(c) \/ ExpectingFinal(c)
  \/ HeaderWhitespace(c) \/ HeaderStart(c) \/ HeaderName(c)
  \/ SpaceBeforeHeaderValue(c) \/ HeaderValue(c)

ParseHeaders(c) ==
  /\ rc = "indeterminate"
  /\ RequestLine(c) \/ Header(c)
  /\ UNCHANGED footers

\* The footers of a chunked message, after the line of its last chunk.  (A
\* payload handler gets the message without its footers, see HttpBody.)
ParseFooters ==
  /\ rc = "true" /\ ~footers
  /\ footers' = TRUE
  /\ rc' = "indeterminate"
  /\ hstate' = "HEADER_START" /\ size' = 0
  /\ tail' = [i \in 1 .. 4 |-> IF i = 3 THEN "cr" ELSE IF i = 4 THEN "lf" ELSE "x"]
  /\ UNCHANGED major

Next == ParseFooters \/ \E c \in Chars : ParseHeaders(c)

Spec == Init /\ [][Next]_vars

-----------------------------------------------------------------------------
(* Properties                                                              *)

\* No string grows beyond its limit: METHOD_MAX and the others bound what a
\* client can make the parser collect.
StringsBounded ==
  hstate \in DOMAIN Limit => size <= Limit[hstate]

\* A section that the parser takes for complete ends with an empty line, in
\* any mixture of CR, LF, CR LF and LF CR; only an HTTP 0.9 request has none.
EndsWithEmptyLine ==
  rc = "true" /\ major # 0 =>
    \/ tail[3] = tail[4] /\ tail[4] # "x"
    \/ \A i \in 2 .. 4 : tail[i] # "x"

\* The empty line every client sends, CR LF CR LF, always ends the section at
\* once; the parser never waits for more, or takes it for part of a header.
EmptyLineEnds ==
  /\ <<tail[1], tail[2], tail[3], tail[4]>> = <<"cr", "lf", "cr", "lf">>
  /\ hstate # "METHOD_START"
  => rc # "indeterminate"
=============================================================================
