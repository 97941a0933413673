--------------------------- MODULE HttpReaderProofs ---------------------------
(***************************************************************************)
(* Proofs about how requests are read and handed on: the header section    *)
(* (HttpHeaders), for all limits and inputs, the reader with its timer     *)
(* (RequestReader), for every number of workers and reads, and the maps of *)
(* the handlers (Routing), for any resources, methods and handlers.        *)
(***************************************************************************)
EXTENDS HttpHeaders, RequestReader, Routing, WellFoundedInduction, TLAPS


Ends == {"cr", "lf", "x"}

HeadersType ==
  /\ hstate \in States
  /\ size \in Nat
  /\ major \in Nat
  /\ rc \in {"indeterminate", "true", "false"}
  /\ footers \in BOOLEAN
  /\ tail \in [1 .. 4 -> Ends]

\* What the state knows of the characters before it.
StateKnowsTail ==
  rc = "indeterminate" =>
    /\ hstate = "EXPECTING_NEWLINE" => tail[4] = "cr"
    /\ hstate = "EXPECTING_CR" => tail[4] = "lf"
    /\ hstate = "HEADER_START" => tail[3] # "x" /\ tail[4] # "x"
    /\ hstate \in {"EXPECTING_FINAL_NEWLINE", "EXPECTING_FINAL_CR"} =>
         tail[2] # "x" /\ tail[3] # "x" /\ tail[4] # "x"

\* What the characters CR, CR LF and CR LF CR tell of the state after them.
TailKnowsState ==
  rc = "indeterminate" =>
    /\ tail[4] = "cr" =>
         hstate \in {"METHOD_START", "EXPECTING_NEWLINE", "HTTP_VERSION_T_1",
                     "HEADER_START", "EXPECTING_FINAL_NEWLINE"}
    /\ tail[3] = "cr" /\ tail[4] = "lf" =>
         hstate \in {"METHOD_START", "HEADER_START", "EXPECTING_FINAL_CR"}
    /\ tail[2] = "cr" /\ tail[3] = "lf" /\ tail[4] = "cr" =>
         hstate \in {"METHOD_START", "EXPECTING_FINAL_NEWLINE"}
    /\ tail[1] = "cr" /\ tail[2] = "lf" /\ tail[3] = "cr" /\ tail[4] = "lf" =>
         hstate = "METHOD_START"

HeadersInv ==
  HeadersType /\ StringsBounded /\ StateKnowsTail /\ TailKnowsState /\ EndsWithEmptyLine

-----------------------------------------------------------------------------
LEMMA LimitDomain ==
  /\ DOMAIN Limit = {"METHOD", "URI_STEM", "URI_QUERY", "HEADER_NAME", "HEADER_VALUE"}
  /\ \A s \in DOMAIN Limit : Limit[s] \in Nat /\ Limit[s] >= 1
<1>1. \A s \in DOMAIN Limit :
        Limit[s] \in {METHOD_MAX, RESOURCE_MAX, QUERY_STRING_MAX, HEADER_NAME_MAX,
                      HEADER_VALUE_MAX}
  BY DEF Limit
<1> QED
  BY <1>1, MaximaAssumption DEF Limit

LEMMA EatShifts ==
  ASSUME tail \in [1 .. 4 -> Ends], NEW c \in Chars, Eat(c)
  PROVE  /\ tail' \in [1 .. 4 -> Ends]
         /\ tail'[1] = tail[2] /\ tail'[2] = tail[3] /\ tail'[3] = tail[4]
         /\ tail'[4] = IF c \in {"cr", "lf"} THEN c ELSE "x"
  BY DEF Eat, Ends

LEMMA InitHeaders == Init => HeadersInv
<1> SUFFICES ASSUME Init PROVE HeadersInv
  BY Zenon
<1>1. HeadersType
  BY Zenon DEF Init, HeadersType, States, Ends
<1>2. StringsBounded /\ StateKnowsTail /\ TailKnowsState /\ EndsWithEmptyLine
  BY LimitDomain, Zenon
     DEF Init, StringsBounded, StateKnowsTail, TailKnowsState, EndsWithEmptyLine
<1> QED
  BY <1>1, <1>2, Zenon DEF HeadersInv

LEMMA FailKeeps ==
  ASSUME HeadersInv, Fail, footers' = footers
  PROVE  HeadersInv'
  BY Zenon
     DEF HeadersInv, Fail, HeadersType, StringsBounded, StateKnowsTail, TailKnowsState, EndsWithEmptyLine

\* The states in which the last character may have been CR, or the last two
\* CR LF: the others are in the middle of a line.
AtLineEnd ==
  hstate \in {"METHOD_START", "EXPECTING_NEWLINE", "HTTP_VERSION_T_1", "HEADER_START",
              "EXPECTING_FINAL_NEWLINE", "EXPECTING_FINAL_CR"}

\* A character of a line, in a state that knows nothing of the ends of lines.
LEMMA InLineKeeps ==
  ASSUME HeadersInv, rc = "indeterminate", NEW c \in Chars \ {"cr", "lf"}, NEW s \in States,
         NEW n \in Nat, Enter(s, n, c), s \in DOMAIN Limit => n <= Limit[s],
         s \notin {"EXPECTING_NEWLINE", "EXPECTING_CR", "HEADER_START",
                   "EXPECTING_FINAL_NEWLINE", "EXPECTING_FINAL_CR"},
         major' \in Nat, footers' = footers
  PROVE  HeadersInv'
<1> USE DEF HeadersInv, Enter
<1>1. tail' \in [1 .. 4 -> Ends] /\ tail'[4] = "x"
  BY EatShifts, Zenon DEF HeadersType
<1>2. HeadersType'
  BY <1>1, Zenon DEF HeadersType
<1>3. StringsBounded'
  BY LimitDomain, Zenon DEF StringsBounded
<1>4. StateKnowsTail' /\ TailKnowsState' /\ EndsWithEmptyLine'
  BY <1>1, Zenon DEF StateKnowsTail, TailKnowsState, EndsWithEmptyLine
<1> QED
  BY <1>2, <1>3, <1>4, Zenon

\* CR or LF in the middle of a line.
LEMMA EndLineKeeps ==
  ASSUME HeadersInv, rc = "indeterminate", ~AtLineEnd, footers' = footers, major' \in Nat,
         \/ Enter("EXPECTING_NEWLINE", 0, "cr")
         \/ Enter("EXPECTING_CR", 0, "lf")
  PROVE  HeadersInv'
<1> USE DEF HeadersInv, Enter
<1>1. PICK c \in {"cr", "lf"} :
        /\ Eat(c) /\ size' = 0 /\ rc' = rc
        /\ hstate' = IF c = "cr" THEN "EXPECTING_NEWLINE" ELSE "EXPECTING_CR"
  BY Zenon
<1>2. /\ tail' \in [1 .. 4 -> Ends] /\ tail'[4] = c
      /\ tail'[1] = tail[2] /\ tail'[2] = tail[3] /\ tail'[3] = tail[4]
  BY <1>1, EatShifts, Zenon DEF HeadersType, Chars
<1>3. tail[4] # "cr" /\ ~(tail[3] = "cr" /\ tail[4] = "lf")
  BY Zenon DEF TailKnowsState, AtLineEnd
<1>4. HeadersType'
  BY <1>1, <1>2, Zenon DEF HeadersType, States
<1>5. StringsBounded'
  BY <1>1, LimitDomain, Zenon DEF StringsBounded
<1>6. StateKnowsTail' /\ EndsWithEmptyLine'
  BY <1>1, <1>2, Zenon DEF StateKnowsTail, EndsWithEmptyLine
<1>7. TailKnowsState'
  BY <1>1, <1>2, <1>3, Zenon DEF TailKnowsState
<1> QED
  BY <1>4, <1>5, <1>6, <1>7, Zenon

LEMMA FinishKeeps ==
  ASSUME HeadersInv, NEW c \in Chars, Finish(c), footers' = footers,
         \/ major = 0
         \/ c \in {"cr", "lf"} /\ tail[4] = c
         \/ c \in {"cr", "lf"} /\ tail[3] # "x" /\ tail[4] # "x"
  PROVE  HeadersInv'
<1> USE DEF HeadersInv, Finish
<1>1. /\ tail' \in [1 .. 4 -> Ends]
      /\ tail'[2] = tail[3] /\ tail'[3] = tail[4]
      /\ c \in {"cr", "lf"} => tail'[4] = c
  BY EatShifts, Zenon DEF HeadersType
<1>2. HeadersType'
  BY <1>1, Zenon DEF HeadersType
<1>3. StringsBounded' /\ StateKnowsTail' /\ TailKnowsState'
  BY Zenon DEF StringsBounded, StateKnowsTail, TailKnowsState
<1>4. EndsWithEmptyLine'
  BY <1>1 DEF EndsWithEmptyLine
<1> QED
  BY <1>2, <1>3, <1>4, Zenon

LEMMA PushKeeps ==
  ASSUME HeadersInv, rc = "indeterminate", NEW c \in Chars \ {"cr", "lf"}, Push(c),
         hstate \in DOMAIN Limit, footers' = footers
  PROVE  HeadersInv'
<1>1. CASE size >= Limit[hstate]
  BY <1>1, FailKeeps, Zenon DEF Push
<1>2. CASE ~(size >= Limit[hstate])
  <2>1. size + 1 \in Nat /\ size + 1 <= Limit[hstate]
    BY <1>2, LimitDomain DEF HeadersInv, HeadersType
  <2>2. Enter(hstate, size + 1, c) /\ major' \in Nat /\ hstate \in States
    BY <1>2, Zenon DEF Push, HeadersInv, HeadersType
  <2>3. hstate \notin {"EXPECTING_NEWLINE", "EXPECTING_CR", "HEADER_START",
                       "EXPECTING_FINAL_NEWLINE", "EXPECTING_FINAL_CR"}
    BY LimitDomain, Zenon
  <2> QED
    BY <2>1, <2>2, <2>3, InLineKeeps, Zenon
<1> QED
  BY <1>1, <1>2, Zenon

LEMMA GotoKeeps ==
  ASSUME HeadersInv, rc = "indeterminate", NEW c \in Chars \ {"cr", "lf"}, NEW s \in States,
         Goto(s, c), footers' = footers,
         s \notin {"EXPECTING_NEWLINE", "EXPECTING_CR", "HEADER_START",
                   "EXPECTING_FINAL_NEWLINE", "EXPECTING_FINAL_CR"}
  PROVE  HeadersInv'
<1>1. s \in DOMAIN Limit => 0 <= Limit[s]
  BY LimitDomain
<1>2. Enter(s, 0, c) /\ major' \in Nat
  BY Zenon DEF Goto, HeadersInv, HeadersType
<1> QED
  BY <1>1, <1>2, InLineKeeps, Zenon

LEMMA BeginKeeps ==
  ASSUME HeadersInv, rc = "indeterminate", NEW c \in Chars, NEW s \in DOMAIN Limit,
         IsToken(c), Begin(s, c), footers' = footers
  PROVE  HeadersInv'
<1>1. Limit[s] >= 1 /\ s \in States
  BY LimitDomain, Zenon DEF States
<1>2. s \notin {"EXPECTING_NEWLINE", "EXPECTING_CR", "HEADER_START",
                "EXPECTING_FINAL_NEWLINE", "EXPECTING_FINAL_CR"}
  BY LimitDomain, Zenon
<1>3. c \in Chars \ {"cr", "lf"}
  BY Zenon DEF IsToken, Digits
<1>4. Enter(s, 1, c) /\ major' \in Nat /\ 1 <= Limit[s]
  BY <1>1, LimitDomain, Zenon DEF Begin, HeadersInv, HeadersType
<1> QED
  BY <1>1, <1>2, <1>3, <1>4, InLineKeeps, Zenon

\* The start of a header, after any end of line.
LEMMA BeginHeaderKeeps ==
  ASSUME HeadersInv, rc = "indeterminate", NEW c \in Chars, BeginHeader(c), footers' = footers
  PROVE  HeadersInv'
<1>1. CASE c \in {"sp", "tab"} /\ Goto("HEADER_WHITESPACE", c)
  BY <1>1, GotoKeeps, Zenon DEF States
<1>2. CASE IsToken(c) /\ Begin("HEADER_NAME", c)
  BY <1>2, BeginKeeps, LimitDomain, Zenon
<1>3. CASE Fail
  BY <1>3, FailKeeps, Zenon
<1> QED
  BY <1>1, <1>2, <1>3, Zenon DEF BeginHeader

LEMMA EndLineStep ==
  ASSUME HeadersInv, rc = "indeterminate", ~AtLineEnd, NEW c \in Chars, footers' = footers,
         EndLine(c) \/ EndUnversioned(c)
  PROVE  HeadersInv'
<1>1. major' \in Nat
  BY DEF EndLine, EndUnversioned, Goto, HeadersInv, HeadersType
<1> QED
  BY <1>1, EndLineKeeps, Zenon DEF EndLine, EndUnversioned, Goto

-----------------------------------------------------------------------------
\* In METHOD_START any of the ends of lines may have come before.
LEMMA MethodStartKeeps ==
  ASSUME HeadersInv, rc = "indeterminate", NEW c \in Chars, MethodStart(c), footers' = footers
  PROVE  HeadersInv'
<1>1. CASE c \in {"sp", "cr", "lf"} /\ Goto(hstate, c)
  <2>1. /\ hstate' = "METHOD_START" /\ size' = 0 /\ rc' = rc /\ major' = major
        /\ tail' \in [1 .. 4 -> Ends]
    BY <1>1, EatShifts, Zenon DEF MethodStart, Goto, Enter, HeadersInv, HeadersType
  <2>2. HeadersType'
    BY <2>1, Zenon DEF HeadersInv, HeadersType, States
  <2>3. StringsBounded'
    BY <2>1, LimitDomain, Zenon DEF StringsBounded
  <2>4. StateKnowsTail' /\ TailKnowsState' /\ EndsWithEmptyLine'
    BY <2>1, Zenon DEF StateKnowsTail, TailKnowsState, EndsWithEmptyLine
  <2> QED
    BY <2>2, <2>3, <2>4, Zenon DEF HeadersInv
<1>2. CASE IsToken(c) /\ Begin("METHOD", c)
  BY <1>2, BeginKeeps, LimitDomain, Zenon
<1>3. CASE Fail
  BY <1>3, FailKeeps, Zenon
<1> QED
  BY <1>1, <1>2, <1>3, Zenon DEF MethodStart

LEMMA TokensKeep ==
  ASSUME HeadersInv, rc = "indeterminate", NEW c \in Chars, footers' = footers,
         Method(c) \/ HeaderName(c)
  PROVE  HeadersInv'
<1>1. CASE c = "sp" /\ Goto("URI_STEM", c)
  BY <1>1, GotoKeeps, Zenon DEF States
<1>2. CASE c = ":" /\ Goto("SPACE_BEFORE_HEADER_VALUE", c)
  BY <1>2, GotoKeeps, Zenon DEF States
<1>3. CASE IsToken(c) /\ Push(c)
  <2>1. c \in Chars \ {"cr", "lf"} /\ hstate \in DOMAIN Limit
    BY <1>3, LimitDomain, Zenon DEF IsToken, Digits, Method, HeaderName
  <2> QED
    BY <1>3, <2>1, PushKeeps, Zenon
<1>4. CASE Fail
  BY <1>4, FailKeeps, Zenon
<1> QED
  BY <1>1, <1>2, <1>3, <1>4, Zenon DEF Method, HeaderName

LEMMA UriKeeps ==
  ASSUME HeadersInv, rc = "indeterminate", NEW c \in Chars, footers' = footers,
         UriStem(c) \/ UriQuery(c)
  PROVE  HeadersInv'
<1>1. hstate \in DOMAIN Limit /\ ~AtLineEnd
  BY LimitDomain, Zenon DEF UriStem, UriQuery, AtLineEnd
<1>2. CASE c = "sp" /\ Goto("HTTP_VERSION_H", c)
  BY <1>2, GotoKeeps, Zenon DEF States
<1>3. CASE c = "?" /\ Goto("URI_QUERY", c)
  BY <1>3, GotoKeeps, Zenon DEF States
<1>4. CASE EndUnversioned(c)
  BY <1>1, <1>4, EndLineStep, Zenon
<1>5. CASE ~IsControl(c) /\ Push(c)
  BY <1>1, <1>5, PushKeeps, Zenon DEF IsControl
<1>6. CASE Fail
  BY <1>6, FailKeeps, Zenon
<1> QED
  BY <1>2, <1>3, <1>4, <1>5, <1>6, Zenon DEF UriStem, UriQuery

\* After "GET / " a CR or LF is taken for the H of the version.
LEMMA VersionHKeeps ==
  ASSUME HeadersInv, rc = "indeterminate", NEW c \in Chars, VersionH(c), footers' = footers
  PROVE  HeadersInv'
<1>1. CASE c = "H" /\ Goto("HTTP_VERSION_T_1", c)
  BY <1>1, GotoKeeps, Zenon DEF States
<1>2. CASE c \in {"cr", "lf"} /\ Enter("HTTP_VERSION_T_1", 0, c) /\ major' = 0
  <2>1. /\ hstate' = "HTTP_VERSION_T_1" /\ size' = 0 /\ rc' = rc
        /\ tail' \in [1 .. 4 -> Ends] /\ tail'[4] = c
        /\ tail'[1] = tail[2] /\ tail'[2] = tail[3] /\ tail'[3] = tail[4]
    BY <1>2, EatShifts, Zenon DEF Enter, HeadersInv, HeadersType
  <2>2. tail[4] # "cr" /\ ~(tail[3] = "cr" /\ tail[4] = "lf")
    BY Zenon DEF HeadersInv, TailKnowsState, VersionH
  <2>3. HeadersType'
    BY <1>2, <2>1, Zenon DEF HeadersInv, HeadersType, States
  <2>4. StringsBounded'
    BY <2>1, LimitDomain, Zenon DEF StringsBounded
  <2>5. StateKnowsTail' /\ TailKnowsState' /\ EndsWithEmptyLine'
    BY <1>2, <2>1, <2>2, Zenon DEF StateKnowsTail, TailKnowsState, EndsWithEmptyLine
  <2> QED
    BY <2>3, <2>4, <2>5, Zenon DEF HeadersInv
<1>3. CASE Fail
  BY <1>3, FailKeeps, Zenon
<1> QED
  BY <1>1, <1>2, <1>3, Zenon DEF VersionH

LEMMA VersionKeeps ==
  ASSUME HeadersInv, rc = "indeterminate", NEW c \in Chars, footers' = footers,
         \/ VersionName(c) \/ VersionMajorStart(c) \/ VersionMajor(c)
         \/ VersionMinorStart(c) \/ VersionMinor(c)
  PROVE  HeadersInv'
<1>1. CASE Fail
  BY <1>1, FailKeeps, Zenon
<1>2. CASE c \notin {"cr", "lf"} /\ \E s \in States : 
             /\ Goto(s, c)
             /\ s \notin {"EXPECTING_NEWLINE", "EXPECTING_CR", "HEADER_START",
                          "EXPECTING_FINAL_NEWLINE", "EXPECTING_FINAL_CR"}
  BY <1>2, GotoKeeps, Zenon
<1>3. CASE /\ c \in Digits /\ Enter("HTTP_VERSION_MAJOR", 0, c)
           /\ major' \in {Value(c), (major * 10 + Value(c)) % VersionModulus}
  <2>1. major' \in Nat
    BY <1>3, ModulusAssumption DEF Value, HeadersInv, HeadersType
  <2>2. c \in Chars \ {"cr", "lf"}
    BY <1>3, Zenon DEF Digits
  <2>3. "HTTP_VERSION_MAJOR" \in States \ DOMAIN Limit
    BY LimitDomain, Zenon DEF States
  <2> QED
    BY <1>3, <2>1, <2>2, <2>3, InLineKeeps, Zenon
<1>4. CASE VersionMinor(c) /\ EndLine(c)
  BY <1>4, EndLineStep, Zenon DEF VersionMinor, AtLineEnd
<1>5. CASE VersionName(c)
  BY <1>1, <1>2, <1>5 DEF VersionName, States
<1>6. CASE VersionMajorStart(c)
  BY <1>1, <1>3, <1>6, Zenon DEF VersionMajorStart
<1>7. CASE VersionMajor(c)
  BY <1>1, <1>2, <1>3, <1>7, Zenon DEF VersionMajor, States
<1>8. CASE VersionMinorStart(c)
  BY <1>1, <1>2, <1>8, Zenon DEF VersionMinorStart, States, Digits
<1>9. CASE VersionMinor(c)
  BY <1>1, <1>2, <1>4, <1>9, Zenon DEF VersionMinor, States, Digits
<1> QED
  BY <1>5, <1>6, <1>7, <1>8, <1>9, Zenon

-----------------------------------------------------------------------------
\* The second character of an end of line: the section goes on with the next
\* line, and the state knows both characters.
LEMMA NextLineKeeps ==
  ASSUME HeadersInv, rc = "indeterminate", NEW c \in {"cr", "lf"}, Goto("HEADER_START", c),
         hstate = IF c = "lf" THEN "EXPECTING_NEWLINE" ELSE "EXPECTING_CR",
         footers' = footers
  PROVE  HeadersInv'
<1> USE DEF Goto, Enter
<1>1. /\ tail' \in [1 .. 4 -> Ends] /\ tail'[4] = c
      /\ tail'[1] = tail[2] /\ tail'[2] = tail[3] /\ tail'[3] = tail[4]
  BY EatShifts, Zenon DEF HeadersInv, HeadersType, Chars
<1>2. tail[4] \in {"cr", "lf"} /\ tail[4] # c
  BY Zenon DEF HeadersInv, StateKnowsTail
<1>3. ~(tail[2] = "cr" /\ tail[3] = "lf" /\ tail[4] = "cr")
      /\ ~(tail[3] = "cr" /\ tail[4] = "lf")
  BY Zenon DEF HeadersInv, TailKnowsState
<1>4. HeadersType'
  BY <1>1, Zenon DEF HeadersInv, HeadersType, States
<1>5. StringsBounded'
  BY LimitDomain, Zenon DEF StringsBounded
<1>6. StateKnowsTail' /\ TailKnowsState' /\ EndsWithEmptyLine'
  BY <1>1, <1>2, <1>3, Zenon DEF StateKnowsTail, TailKnowsState, EndsWithEmptyLine
<1> QED
  BY <1>4, <1>5, <1>6, Zenon DEF HeadersInv

LEMMA LineEndsKeep ==
  ASSUME HeadersInv, rc = "indeterminate", NEW c \in Chars, footers' = footers,
         ExpectingNewline(c) \/ ExpectingCr(c)
  PROVE  HeadersInv'
<1>1. CASE c \in {"cr", "lf"} /\ Goto("HEADER_START", c)
  BY <1>1, NextLineKeeps, Zenon
     DEF ExpectingNewline, ExpectingCr, Finish, BeginHeader, Goto,
     Begin, Enter, Fail, IsToken, Digits
<1>2. CASE c = "lf" /\ major = 0 /\ Finish(c)
  BY <1>2, FinishKeeps, Zenon
<1>3. CASE ExpectingNewline(c) /\ c = "cr" /\ Finish(c)
  <2>1. tail[4] = c
    BY <1>3, Zenon DEF HeadersInv, StateKnowsTail, ExpectingNewline
  <2> QED
    BY <1>3, <2>1, FinishKeeps, Zenon
<1>4. CASE ExpectingCr(c) /\ c = "lf" /\ Finish(c)
  <2>1. tail[4] = c
    BY <1>4, Zenon DEF HeadersInv, StateKnowsTail, ExpectingCr
  <2> QED
    BY <1>4, <2>1, FinishKeeps, Zenon
<1>5. CASE BeginHeader(c)
  BY <1>5, BeginHeaderKeeps, Zenon
<1> QED
  BY <1>1, <1>2, <1>3, <1>4, <1>5, Zenon DEF ExpectingNewline, ExpectingCr

LEMMA FinalKeeps ==
  ASSUME HeadersInv, rc = "indeterminate", NEW c \in Chars, ExpectingFinal(c), footers' = footers
  PROVE  HeadersInv'
<1>1. tail[2] # "x" /\ tail[3] # "x" /\ tail[4] # "x"
  BY DEF ExpectingFinal, HeadersInv, StateKnowsTail
<1>2. CASE c \in {"cr", "lf"} /\ Finish(c)
  BY <1>1, <1>2, FinishKeeps, Zenon
<1>3. CASE FinishBefore
  <2>1. HeadersType' /\ StringsBounded' /\ StateKnowsTail' /\ TailKnowsState'
    BY <1>3, Zenon
       DEF FinishBefore, HeadersInv, HeadersType, StringsBounded, StateKnowsTail, TailKnowsState
  <2>2. EndsWithEmptyLine'
    BY <1>1, <1>3 DEF FinishBefore, EndsWithEmptyLine
  <2> QED
    BY <2>1, <2>2, Zenon DEF HeadersInv
<1> QED
  BY <1>2, <1>3 DEF ExpectingFinal

LEMMA HeaderStartKeeps ==
  ASSUME HeadersInv, rc = "indeterminate", NEW c \in Chars, HeaderStart(c), footers' = footers
  PROVE  HeadersInv'
<1>1. CASE \/ c = "cr" /\ Goto("EXPECTING_FINAL_NEWLINE", c)
           \/ c = "lf" /\ Goto("EXPECTING_FINAL_CR", c)
  <2> USE <1>1 DEF Goto, Enter
  <2>1. /\ tail' \in [1 .. 4 -> Ends] /\ tail'[4] = c
        /\ tail'[1] = tail[2] /\ tail'[2] = tail[3] /\ tail'[3] = tail[4]
    BY EatShifts, Zenon DEF HeadersInv, HeadersType
  <2>2. tail[3] # "x" /\ tail[4] # "x"
    BY Zenon DEF HeadersInv, StateKnowsTail, HeaderStart
  <2>3. ~(tail[2] = "cr" /\ tail[3] = "lf" /\ tail[4] = "cr")
    BY Zenon DEF HeadersInv, TailKnowsState, HeaderStart
  <2>4. HeadersType'
    BY <2>1 DEF HeadersInv, HeadersType, States
  <2>5. StringsBounded'
    BY LimitDomain, Zenon DEF StringsBounded
  <2>6. StateKnowsTail' /\ EndsWithEmptyLine'
    BY <2>1, <2>2, Zenon DEF StateKnowsTail, EndsWithEmptyLine
  <2>7. TailKnowsState'
    BY <2>1, <2>3, Zenon DEF TailKnowsState
  <2> QED
    BY <2>4, <2>5, <2>6, <2>7, Zenon DEF HeadersInv
<1>2. CASE BeginHeader(c)
  BY <1>2, BeginHeaderKeeps, Zenon
<1> QED
  BY <1>1, <1>2, Zenon DEF HeaderStart

LEMMA HeaderValueKeeps ==
  ASSUME HeadersInv, rc = "indeterminate", NEW c \in Chars, footers' = footers,
         HeaderWhitespace(c) \/ SpaceBeforeHeaderValue(c) \/ HeaderValue(c)
  PROVE  HeadersInv'
<1>1. CASE EndLine(c)
  BY <1>1, EndLineStep, Zenon
     DEF HeaderWhitespace, SpaceBeforeHeaderValue, HeaderValue, AtLineEnd
<1>2. CASE BeginHeader(c)
  BY <1>2, BeginHeaderKeeps, Zenon
<1>3. CASE c = "sp" /\ Goto("HEADER_VALUE", c)
  BY <1>3, GotoKeeps, Zenon DEF States
<1>4. CASE IsToken(c) /\ Begin("HEADER_VALUE", c)
  BY <1>4, BeginKeeps, LimitDomain, Zenon
<1>5. CASE HeaderValue(c) /\ c \notin {"cr", "lf"} /\ Push(c)
  BY <1>5, PushKeeps, LimitDomain, Zenon DEF HeaderValue
<1>6. CASE Fail
  BY <1>6, FailKeeps, Zenon
<1> QED
  BY <1>1, <1>2, <1>3, <1>4, <1>5, <1>6, Zenon
     DEF HeaderWhitespace, SpaceBeforeHeaderValue,
     HeaderValue

LEMMA ParseFootersKeeps ==
  ASSUME HeadersInv, ParseFooters
  PROVE  HeadersInv'
<1> USE DEF ParseFooters
<1>1. tail' \in [1 .. 4 -> Ends] /\ tail'[2] = "x" /\ tail'[3] = "cr" /\ tail'[4] = "lf"
  BY DEF Ends
<1>2. footers' \in BOOLEAN
  BY Zenon
<1>3. HeadersType'
  BY <1>1, <1>2, Zenon DEF HeadersInv, HeadersType, States
<1>4. StringsBounded'
  BY LimitDomain, Zenon DEF StringsBounded
<1>5. StateKnowsTail' /\ TailKnowsState' /\ EndsWithEmptyLine'
  BY <1>1, Zenon DEF StateKnowsTail, TailKnowsState, EndsWithEmptyLine
<1> QED
  BY <1>3, <1>4, <1>5, Zenon DEF HeadersInv

LEMMA StepHeaders == HeadersInv /\ [Next]_vars => HeadersInv'
<1> SUFFICES ASSUME HeadersInv, [Next]_vars PROVE HeadersInv'
  BY Zenon
<1>1. ASSUME NEW c \in Chars, ParseHeaders(c) PROVE HeadersInv'
  <2> USE <1>1 DEF ParseHeaders
  <2>1. CASE RequestLine(c)
    BY <2>1, MethodStartKeeps, TokensKeep, UriKeeps, VersionHKeeps, VersionKeeps, Zenon
    DEF RequestLine
  <2>2. CASE Header(c)
    BY <2>2, LineEndsKeep, FinalKeeps, HeaderStartKeeps, TokensKeep, HeaderValueKeeps, Zenon
    DEF Header
  <2> QED
    BY <2>1, <2>2, Zenon
<1>2. CASE ParseFooters
  BY <1>2, ParseFootersKeeps, Zenon
<1>3. CASE UNCHANGED vars
  BY <1>3 DEF vars, HeadersInv, HeadersType, StringsBounded, StateKnowsTail, TailKnowsState,
     EndsWithEmptyLine
<1> QED
  BY <1>1, <1>2, <1>3, Zenon DEF Next

-----------------------------------------------------------------------------
\* Whatever the limits are, no string the parser collects outgrows its own:
\* parse_headers tests the size before it stores a character.
THEOREM StringsBoundedHolds == Spec => []StringsBounded
<1>1. HeadersInv => StringsBounded
  BY Zenon DEF HeadersInv
<1> QED
  BY InitHeaders, StepHeaders, <1>1, PTL DEF Spec

\* For every input, a section that parse_headers takes for complete ends with
\* an empty line, unless the request is an HTTP 0.9 one.
THEOREM EndsWithEmptyLineHolds == Spec => []EndsWithEmptyLine
<1>1. HeadersInv => EndsWithEmptyLine
  BY Zenon DEF HeadersInv
<1> QED
  BY InitHeaders, StepHeaders, <1>1, PTL DEF Spec

\* For every input, parse_headers does not wait for more once it has consumed
\* CR LF CR LF after the start of the request line.
THEOREM EmptyLineEndsHolds == Spec => []EmptyLineEnds
<1>1. HeadersInv => EmptyLineEnds
  BY Zenon DEF HeadersInv, TailKnowsState, EmptyLineEnds
<1> QED
  BY InitHeaders, StepHeaders, <1>1, PTL DEF Spec

-----------------------------------------------------------------------------
(* The reader and its timer.                                               *)


\* Only the first read is started outside the strand: a worker that has yet to
\* start the wait of a later read is inside the strand, and that read is the
\* current one.
StrandOwner ==
  \A w \in Workers : pc[w] \notin {0, 1} => strand = w /\ pc[w] = reads

ReaderInv == TypeOK /\ StrandOwner /\ ReadHasTimer /\ WaitsBounded

LEMMA InitReader == ReaderInit => ReaderInv
<1> SUFFICES ASSUME ReaderInit PROVE ReaderInv
  BY Zenon
<1>1. open \in BOOLEAN
  BY Zenon DEF ReaderInit
<1>2. TypeOK
  BY <1>1, MaxReadsAssumption DEF ReaderInit, TypeOK
<1> QED
  BY <1>2, Zenon DEF ReaderInit, ReaderInv, StrandOwner, ReadHasTimer, WaitsBounded

\* Setting or cancelling the timer leaves no wait running.
LEMMA AbortedWaits ==
  ASSUME TypeOK
  PROVE  /\ Aborted(wait) \in [Reads -> {"none", "pending", "expired", "aborted"}]
         /\ \A n \in Reads : Aborted(wait)[n] # "pending"
  BY Zenon DEF Aborted, TypeOK

\* A read that is started outside the strand is the first; any other is started
\* by a worker that entered the strand, when no other worker was inside.
LEMMA StartReadKeeps ==
  ASSUME ReaderInv, NEW w \in Workers, StartRead(w), open' = open,
         \/ reads = 0 /\ strand' = strand
         \/ strand = NoWorker /\ strand' = w
  PROVE  ReaderInv'
<1> USE DEF ReaderInv, StartRead
<1>1. reads' \in Reads /\ reads' = reads + 1 /\ pc'[w] = reads'
  BY MaxReadsAssumption DEF TypeOK, Reads
<1>2. TypeOK'
  BY <1>1, AbortedWaits, MaxReadsAssumption DEF TypeOK, Reads
<1>3. StrandOwner'
  BY <1>1, WorkersAssumption DEF StrandOwner, TypeOK
<1>4. ReadHasTimer' /\ WaitsBounded'
  BY <1>1, AbortedWaits, Zenon DEF ReadHasTimer, WaitsBounded
<1> QED
  BY <1>2, <1>3, <1>4, Zenon

LEMMA StepReader == ReaderInv /\ [ReaderNext]_readerVars => ReaderInv'
<1> SUFFICES ASSUME ReaderInv, [ReaderNext]_readerVars PROVE ReaderInv'
  BY Zenon
<1> USE DEF ReaderInv
<1>1. ASSUME NEW w \in Workers, HandleConnection(w) PROVE ReaderInv'
  BY <1>1, StartReadKeeps, Zenon DEF HandleConnection
<1>2. ASSUME NEW w \in Workers, AsyncWait(w) PROVE ReaderInv'
  <2> USE <1>2 DEF AsyncWait
  <2>1. pc[w] \in Reads /\ pc[w] \in {1, reads}
    <3>1. pc[w] \in Reads
      BY MaxReadsAssumption DEF TypeOK, Reads
    <3>2. pc[w] = 1 \/ pc[w] = reads
      BY Zenon DEF StrandOwner
    <3> QED
      BY <3>1, <3>2, Zenon
  <2>2. TypeOK'
    BY <2>1, MaxReadsAssumption DEF TypeOK
  <2>3. StrandOwner'
    BY Zenon DEF StrandOwner, TypeOK
  <2>4. ReadHasTimer' /\ WaitsBounded'
    BY <2>1, Zenon DEF ReadHasTimer, WaitsBounded, TypeOK
  <2> QED
    BY <2>2, <2>3, <2>4, Zenon
<1>3. CASE Completes \/ TimerExpires \/ CloseSocket
  <2> USE <1>3 DEF Completes, TimerExpires, CloseSocket, AbortedResult
  <2>1. open' \in BOOLEAN
    BY Zenon DEF TypeOK
  <2>2. TypeOK'
    BY <2>1, Zenon DEF TypeOK
  <2>3. StrandOwner'
    BY Zenon DEF StrandOwner
  <2>4. ReadHasTimer' /\ WaitsBounded'
    BY Zenon DEF ReadHasTimer, WaitsBounded, TypeOK
  <2> QED
    BY <2>2, <2>3, <2>4, Zenon
<1>4. ASSUME NEW w \in Workers, NEW n \in Reads, Timeout(w, n) PROVE ReaderInv'
  <2> USE <1>4 DEF Timeout, AbortedResult
  <2>1. TypeOK'
    BY Zenon DEF TypeOK
  <2>2. StrandOwner'
    BY Zenon DEF StrandOwner
  <2>3. ReadHasTimer' /\ WaitsBounded'
    BY Zenon DEF ReadHasTimer, WaitsBounded, TypeOK
  <2> QED
    BY <2>1, <2>2, <2>3, Zenon
<1>5. ASSUME Proceed, wait' \in {wait, Aborted(wait)} PROVE ReaderInv'
  <2> USE <1>5 DEF Proceed
  <2>1. open' \in BOOLEAN
    BY Zenon DEF TypeOK
  <2>2. TypeOK'
    BY <2>1, AbortedWaits, Zenon DEF TypeOK
  <2>3. StrandOwner' /\ ReadHasTimer' /\ WaitsBounded'
    BY AbortedWaits, Zenon DEF StrandOwner, ReadHasTimer, WaitsBounded
  <2> QED
    BY <2>2, <2>3, Zenon
<1>6. ASSUME NEW w \in Workers, ReadHandler(w) \/ OtherHandler(w) PROVE ReaderInv'
  <2>1. CASE Proceed
    BY <1>5, <1>6, <2>1, Zenon DEF ReadHandler, OtherHandler, StartRead
  <2>2. CASE StartRead(w) /\ strand' = w /\ UNCHANGED open
    BY <1>6, <2>2, StartReadKeeps, Zenon DEF ReadHandler, OtherHandler, Enters
  <2> QED
    BY <1>6, <2>1, <2>2, Zenon DEF ReadHandler, OtherHandler
<1>7. CASE UNCHANGED readerVars
  BY <1>7, Zenon DEF readerVars, TypeOK, StrandOwner, ReadHasTimer, WaitsBounded
<1> QED
  BY <1>1, <1>2, <1>3, <1>4, <1>6, <1>7, Zenon DEF ReaderNext, Worker

LEMMA ReaderInvariant == ReaderSpec => []ReaderInv
  BY InitReader, StepReader, PTL DEF ReaderSpec

\* A pending read always has its timer, on any number of workers, although the
\* first read of a connection is started outside the strand.
THEOREM ReadHasTimerHolds == ReaderSpec => []ReadHasTimer
<1>1. ReaderInv => ReadHasTimer
  BY Zenon DEF ReaderInv
<1> QED
  BY <1>1, ReaderInvariant, PTL

\* However many requests a connection serves, at most two waits are running.
THEOREM WaitsBoundedHolds == ReaderSpec => []WaitsBounded
<1>1. ReaderInv => WaitsBounded
  BY Zenon DEF ReaderInv
<1> QED
  BY <1>1, ReaderInvariant, PTL

-----------------------------------------------------------------------------
(* The handlers: find_submatch.                                            *)

LEMMA LeastNatural ==
  ASSUME NEW S \in SUBSET Nat, S # {}
  PROVE  \E m \in S : \A n \in S : m <= n
<1>1. IsWellFoundedOn(OpToRel(<, Nat), Nat)
  BY NatLessThanWellFounded, Zenon
<1>2. PICK m \in S : \A n \in S : ~ (<<n, m>> \in OpToRel(<, Nat))
  BY <1>1, WFMin, Zenon
<1>3. \A n \in S : ~ (n < m)
  BY <1>2, Zenon DEF OpToRel
<1> QED
  BY <1>3

LEMMA SetInduction ==
  ASSUME NEW S \in SUBSET Nat, 0 \in S, \A n \in S : n + 1 \in S
  PROVE  S = Nat
<1> SUFFICES ASSUME S # Nat PROVE FALSE
  BY Zenon
<1>1. PICK m \in Nat \ S : \A n \in Nat \ S : m <= n
  BY LeastNatural, Zenon
<1>2. m # 0 /\ m - 1 \in Nat /\ m - 1 \in S
  BY <1>1
<1> QED
  BY <1>1, <1>2

\* One turn of the loop, with f the turns that come after it.
Turn(map, st, f, n) ==
  IF Cut(st, n) \in DOMAIN map THEN {Cut(st, n)}
  ELSE IF n = 1 THEN {} ELSE f[n - 1]

\* The longest of the first n cuts of st that the map has.
Longest(map, st, n) ==
  {Cut(st, m) : m \in {k \in 1 .. n : /\ Cut(st, k) \in DOMAIN map
                                      /\ \A j \in k + 1 .. n : Cut(st, j) \notin DOMAIN map}}

LEMMA LongestTurn ==
  ASSUME NEW map, NEW st, NEW n \in Nat \ {0}
  PROVE  Longest(map, st, n) =
           IF Cut(st, n) \in DOMAIN map THEN {Cut(st, n)}
           ELSE IF n = 1 THEN {} ELSE Longest(map, st, n - 1)
<1> DEFINE Has(k) == Cut(st, k) \in DOMAIN map
           Best(i) == {k \in 1 .. i : Has(k) /\ \A j \in k + 1 .. i : ~Has(j)}
<1> HIDE DEF Has
<1>1. CASE Has(n)
  <2>1. Best(n) = {n}
    BY <1>1
  <2> QED
    BY <1>1, <2>1, Zenon DEF Longest, Has
<1>2. CASE ~Has(n) /\ n = 1
  <2>1. Best(n) = {}
    BY <1>2
  <2> QED
    BY <1>2, <2>1, Zenon DEF Longest, Has
<1>3. CASE ~Has(n) /\ n # 1
  <2>1. 1 .. n = (1 .. n - 1) \cup {n}
    BY <1>3
  <2>2. \A k \in 1 .. n - 1 : k + 1 .. n = (k + 1 .. n - 1) \cup {n}
    BY <1>3
  <2>3. Best(n) = Best(n - 1)
    BY <1>3, <2>1, <2>2, Zenon
  <2> QED
    BY <1>3, <2>3, Zenon DEF Longest, Has
<1> QED
  BY <1>1, <1>2, <1>3, Zenon

LEMMA FindIsLongest ==
  ASSUME NEW map, NEW st, Len(st) \in Nat \ {0}
  PROVE  FindSubmatch(map, st) = Longest(map, st, Len(st))
<1> DEFINE L == Len(st)
           Solves(f) == f = [n \in 1 .. L |-> Turn(map, st, f, n)]
           find == CHOOSE f : Solves(f)
           best == [n \in 1 .. L |-> Longest(map, st, n)]
<1>1. FindSubmatch(map, st) = find[L]
  BY Zenon DEF FindSubmatch, Turn
<1>2. Solves(best)
  <2>1. ASSUME NEW n \in 1 .. L PROVE Longest(map, st, n) = Turn(map, st, best, n)
    <3>1. n # 1 => n - 1 \in 1 .. L /\ best[n - 1] = Longest(map, st, n - 1)
      OBVIOUS
    <3>2. n \in Nat \ {0}
      OBVIOUS
    <3> HIDE DEF best
    <3> QED
      BY <3>1, <3>2, LongestTurn, Zenon DEF Turn
  <2> QED
    BY <2>1, Zenon
<1>3. Solves(find)
  <2> HIDE DEF Solves, best
  <2> QED
    BY <1>2, Zenon
<1>4. \A n \in 1 .. L : find[n] = Turn(map, st, find, n)
  <2> HIDE DEF find
  <2> QED
    BY <1>3, Zenon
<1> HIDE DEF find, L
<1> DEFINE S == {n \in Nat : n + 1 <= L => find[n + 1] = Longest(map, st, n + 1)}
<1>5. 0 \in S
  <2>1. 1 \in 1 .. L /\ 1 \in Nat \ {0}
    BY DEF L
  <2>2. find[1] = Longest(map, st, 1)
    BY <1>4, <2>1, LongestTurn, Zenon DEF Turn
  <2> QED
    BY <2>2
<1>6. ASSUME NEW n \in S PROVE n + 1 \in S
  <2> SUFFICES ASSUME (n + 1) + 1 <= L PROVE find[(n + 1) + 1] = Longest(map, st, (n + 1) + 1)
    OBVIOUS
  <2> DEFINE k == (n + 1) + 1
  <2>1. L \in Nat
    BY Zenon DEF L
  <2>2. k \in 1 .. L /\ k \in Nat \ {0} /\ k # 1 /\ k - 1 = n + 1 /\ n + 1 <= L
    BY <1>6, <2>1
  <2>3. find[k - 1] = Longest(map, st, k - 1)
    BY <1>6, <2>2, Zenon
  <2> HIDE DEF k
  <2>4. find[k] = Longest(map, st, k)
    <3>1. find[k] = Turn(map, st, find, k)
      BY <1>4, <2>2, Zenon
    <3>2. Longest(map, st, k) = IF Cut(st, k) \in DOMAIN map THEN {Cut(st, k)}
                                ELSE IF k = 1 THEN {} ELSE Longest(map, st, k - 1)
      BY <2>2, LongestTurn
    <3> QED
      BY <2>2, <2>3, <3>1, <3>2, Zenon DEF Turn
  <2> QED
    BY <2>4, Zenon DEF k
<1>7. S \in SUBSET Nat
  BY Zenon
<1> HIDE DEF S
<1>8. S = Nat
  BY <1>5, <1>6, <1>7, SetInduction, Zenon
<1>9. L - 1 \in Nat /\ (L - 1) + 1 = L
  BY DEF L
<1>10. PICK e \in Nat : e + 1 = L
  BY <1>9, Zenon
<1>11. e \in S /\ e + 1 <= L
  BY <1>8, <1>10
<1>12. find[e + 1] = Longest(map, st, e + 1)
  BY <1>11, Zenon DEF S
<1> QED
  BY <1>1, <1>10, <1>12, Zenon DEF L

LEMMA CutLength ==
  ASSUME NEW st \in Seq(STRING), NEW n \in 1 .. Len(st)
  PROVE  Len(Cut(st, n)) = n
  BY DEF Cut

\* The loop of find_submatch stops at the nearest resource of the map.
LEMMA FindIsNearest ==
  ASSUME NEW map, NEW st \in Seq(STRING), st # <<>>
  PROVE  FindSubmatch(map, st) = Nearest(map, st)
<1>1. Len(st) \in Nat \ {0}
  OBVIOUS
<1> DEFINE L == Len(st)
<1>2. \A n \in 1 .. L : Len(Cut(st, n)) = n
  BY CutLength, Zenon
<1>3. ASSUME NEW x PROVE x \in Nearest(map, st) <=> x \in Longest(map, st, L)
  <2>1. CASE x \in {Cut(st, n) : n \in 1 .. L}
    <3> PICK n \in 1 .. L : x = Cut(st, n)
      BY <2>1, Zenon
    <3>1. Len(x) = n /\ n \in Nat
      BY <1>1, <1>2
    <3>2. x \in Nearest(map, st) <=>
            x \in DOMAIN map /\ \A k \in 1 .. L : Cut(st, k) \in DOMAIN map => k <= n
      BY <1>2, <3>1, Zenon DEF Nearest, LeadTo
    <3>3. x \in Longest(map, st, L) <=>
            x \in DOMAIN map /\ \A j \in n + 1 .. L : Cut(st, j) \notin DOMAIN map
      <4>1. \A k \in 1 .. L : x = Cut(st, k) => k = n
        BY <1>2, <3>1, Zenon
      <4> QED
        BY <4>1, Zenon DEF Longest
    <3>4. \A k \in 1 .. L : k <= n <=> k \notin n + 1 .. L
      BY <1>1, <3>1
    <3>5. n + 1 .. L \subseteq 1 .. L
      BY <1>1, <3>1
    <3> QED
      BY <3>2, <3>3, <3>4, <3>5, Zenon
  <2>2. CASE x \notin {Cut(st, n) : n \in 1 .. L}
    BY <2>2, Zenon DEF Nearest, LeadTo, Longest
  <2> QED
    BY <2>1, <2>2, Zenon
<1>4. Nearest(map, st) = Longest(map, st, L)
  BY <1>3, Zenon
<1> QED
  BY <1>1, <1>4, FindIsLongest, Zenon

-----------------------------------------------------------------------------
(* The maps and the decisions.                                             *)

\* What is recorded of an add_* call.
AddRecords ==
  [kind : {"handlers", "payloads", "websocket"},
   key : Methods \cup Events \cup {"WSERROR"},
   resource : Resources, result : {"added", "throws"}]

\* The add_* call number k, when it returned, has put its handler in the map.
AddInMap(k) ==
  adds[k].result = "added" =>
    \E n \in ChooseMap(adds[k].kind, adds[k].key) :
      /\ Strip(adds[k].resource) \in DOMAIN maps[n]
      /\ maps[n][Strip(adds[k].resource)] = k

\* An upgrade goes to the websocket handlers of its resource.
WsServed == Upgraded => served.to.by = WsHandlers(served.resource)

RoutesInv ==
  /\ maps = [n \in MapNames |-> maps[n]]
  /\ adds \in Seq(AddRecords)
  /\ running \in BOOLEAN
  /\ served # Nothing => running /\ served.resource \in Resources
  /\ ServedByNearest
  /\ WsServed
  /\ \A k \in DOMAIN adds : AddInMap(k)

\* No method and no event has two maps of a kind.
LEMMA OneMap ==
  ASSUME NEW kind \in {"handlers", "payloads", "websocket"}, NEW key
  PROVE  /\ ChooseMap(kind, key) \subseteq MapNames
         /\ \A m, n \in ChooseMap(kind, key) : m = n
  BY DEF ChooseMap, MapNames

LEMMA StripResource ==
  ASSUME NEW r \in Resources
  PROVE  Strip(r) \in Seq(STRING) /\ Strip(r) # <<>>
<1>1. r \in Seq(STRING) /\ r # <<>>
  BY ResourcesAssumption, Zenon
<1>2. CASE Len(r) > 1
  <2>1. Len(r) - 1 \in 1 .. Len(r)
    BY <1>1, <1>2
  <2>2. Cut(r, Len(r) - 1) \in Seq(STRING) /\ Len(Cut(r, Len(r) - 1)) = Len(r) - 1
    BY <1>1, <2>1 DEF Cut
  <2>3. Cut(r, Len(r) - 1) # <<>>
    BY <1>1, <2>1, <2>2
  <2> QED
    BY <1>1, <2>2, <2>3, Zenon DEF Strip
<1>3. CASE ~ (Len(r) > 1)
  BY <1>1, <1>3, Zenon DEF Strip
<1> QED
  BY <1>2, <1>3, Zenon

\* A resource that the map has is nearest to itself.
LEMMA NearestToItself ==
  ASSUME NEW map, NEW st \in Seq(STRING), st # <<>>, st \in DOMAIN map
  PROVE  Nearest(map, st) = {st}
<1>1. Len(st) \in 1 .. Len(st) /\ Len(st) \in Nat
  OBVIOUS
<1>2. Cut(st, Len(st)) = st
  BY <1>1 DEF Cut
<1>3. \A n \in 1 .. Len(st) : Len(Cut(st, n)) = n /\ n <= Len(st) /\ n \in Nat
  BY CutLength
<1>4. st \in LeadTo(map, st)
  BY <1>1, <1>2, Zenon DEF LeadTo
<1>5. \A y \in LeadTo(map, st) : Len(y) \in Nat /\ Len(y) <= Len(st)
  BY <1>3, Zenon DEF LeadTo
<1>6. ASSUME NEW y \in LeadTo(map, st), Len(st) <= Len(y) PROVE y = st
  <2> PICK n \in 1 .. Len(st) : y = Cut(st, n)
    BY Zenon DEF LeadTo
  <2>1. n = Len(st)
    BY <1>1, <1>3, <1>6
  <2> QED
    BY <1>2, <2>1, Zenon
<1> QED
  BY <1>4, <1>5, <1>6, Zenon DEF Nearest

\* The decision for the headers of a request.
LEMMA PayloadNearest ==
  ASSUME NEW method, NEW r \in Resources, NEW n \in ChooseMap("payloads", method)
  PROVE  PayloadDecision(method, r).by = Handlers(n, Nearest(maps[n], Strip(r)))
<1>1. ChooseMap("payloads", method) = {n}
  BY OneMap
<1>2. (CHOOSE x \in ChooseMap("payloads", method) : TRUE) = n
  BY <1>1, Zenon
<1>3. FindSubmatch(maps[n], Strip(r)) = Nearest(maps[n], Strip(r))
  BY StripResource, FindIsNearest, Zenon
<1>4. Handlers(n, {}) = {}
  BY Zenon DEF Handlers
<1>5. PayloadDecision(method, r) =
        IF Nearest(maps[n], Strip(r)) = {} THEN To("ignore_body", {})
        ELSE To("payload", Handlers(n, Nearest(maps[n], Strip(r))))
  BY <1>1, <1>2, <1>3, Zenon DEF PayloadDecision
<1> QED
  BY <1>4, <1>5 DEF To

\* The decision for a request, where it is one of the maps.
LEMMA RequestNearest ==
  ASSUME NEW method, NEW r \in Resources, NEW isOpen, NEW n \in ChooseMap("handlers", method),
         ~RootOptions(method, r)
  PROVE  RequestDecision(method, r, FALSE, "none", isOpen).by =
           Handlers(n, Nearest(maps[n], Strip(r)))
<1>1. ChooseMap("handlers", method) = {n}
  BY OneMap
<1>2. (CHOOSE x \in ChooseMap("handlers", method) : TRUE) = n
  BY <1>1, Zenon
<1>3. FindSubmatch(maps[n], Strip(r)) = Nearest(maps[n], Strip(r))
  BY StripResource, FindIsNearest, Zenon
<1>4. Handlers(n, {}) = {}
  BY Zenon DEF Handlers
<1> DEFINE D == RequestDecision(method, r, FALSE, "none", isOpen)
<1>5. D = IF Nearest(maps[n], Strip(r)) = {} THEN To("not_found", {})
          ELSE To("handler", Handlers(n, Nearest(maps[n], Strip(r))))
  BY <1>1, <1>2, <1>3, Zenon DEF RequestDecision
<1> SUFFICES D.by = Handlers(n, Nearest(maps[n], Strip(r)))
  BY Zenon
<1> HIDE DEF D
<1>6. CASE Nearest(maps[n], Strip(r)) = {}
  <2>1. D = To("not_found", {})
    BY <1>5, <1>6, Zenon
  <2> QED
    BY <1>4, <1>6, <2>1, Zenon DEF To
<1>7. CASE Nearest(maps[n], Strip(r)) # {}
  <2>1. D = To("handler", Handlers(n, Nearest(maps[n], Strip(r))))
    BY <1>5, <1>7, Zenon
  <2> QED
    BY <2>1, Zenon DEF To
<1> QED
  BY <1>6, <1>7, Zenon

LEMMA NothingServed == served = Nothing => ServedByNearest /\ WsServed
  BY DEF ServedByNearest, Routed, WsServed, Upgraded, Nothing

LEMMA InitRoutes == RoutingInit => RoutesInv
<1> SUFFICES ASSUME RoutingInit PROVE RoutesInv
  BY Zenon
<1>1. maps = [n \in MapNames |-> maps[n]] /\ running \in BOOLEAN /\ served = Nothing
  BY Zenon DEF RoutingInit
<1>2. adds = <<>>
  BY Zenon DEF RoutingInit
<1>3. ServedByNearest /\ WsServed
  BY <1>1, NothingServed, Zenon
<1> QED
  BY <1>1, <1>2, <1>3 DEF RoutesInv

\* An add_* call leaves the handlers that are in the maps where they are.
LEMMA StepAdd ==
  ASSUME RoutesInv, NEW kind \in {"handlers", "payloads", "websocket"},
         NEW key \in Methods \cup Events \cup {"WSERROR"}, NEW r \in Resources,
         Add(kind, key, r)
  PROVE  RoutesInv'
<1>1. /\ maps = [n \in MapNames |-> maps[n]]
      /\ adds \in Seq(AddRecords)
      /\ served = Nothing /\ running \in BOOLEAN /\ UNCHANGED <<running, served>>
  BY Zenon DEF RoutesInv, Add
<1>2. ServedByNearest' /\ WsServed'
  <2>1. (served = Nothing => ServedByNearest /\ WsServed)'
    BY NothingServed, PTL
  <2> QED
    BY <1>1, <2>1, Zenon
<1>3. ASSUME NEW res \in {"added", "throws"}, Record(kind, key, r, res)
      PROVE  /\ adds' \in Seq(AddRecords)
             /\ DOMAIN adds' = DOMAIN adds \cup {Len(adds) + 1}
             /\ \A k \in DOMAIN adds : adds'[k] = adds[k] /\ k # Len(adds) + 1
             /\ adds'[Len(adds) + 1] =
                  [kind |-> kind, key |-> key, resource |-> r, result |-> res]
  <2>1. [kind |-> kind, key |-> key, resource |-> r, result |-> res] \in AddRecords
    BY Zenon DEF AddRecords
  <2> QED
    BY <1>1, <1>3, <2>1 DEF Record
<1>4. \A k \in DOMAIN adds : AddInMap(k)
  BY Zenon DEF RoutesInv
<1>5. CASE Record(kind, key, r, "throws") /\ UNCHANGED maps
  <2>1. ASSUME NEW k \in DOMAIN adds PROVE AddInMap(k)'
    <3>1. adds'[k] = adds[k]
      BY <1>3, <1>5, Zenon
    <3>2. AddInMap(k)
      BY <1>4, Zenon
    <3> QED
      BY <1>5, <3>1, <3>2, Zenon DEF AddInMap
  <2>2. ASSUME NEW k, k = Len(adds) + 1 PROVE AddInMap(k)'
    <3>1. adds'[k] = [kind |-> kind, key |-> key, resource |-> r, result |-> "throws"]
      BY <1>3, <1>5, <2>2, Zenon
    <3>2. adds'[k].result # "added"
      BY <3>1
    <3> QED
      BY <3>2, Zenon DEF AddInMap
  <2>3. \A k \in DOMAIN adds' : AddInMap(k)'
    BY <1>3, <1>5, <2>1, <2>2, Zenon
  <2> QED
    BY <1>1, <1>2, <1>3, <1>5, <2>3, Zenon DEF RoutesInv
<1>6. ASSUME NEW n \in ChooseMap(kind, key), Strip(r) \notin DOMAIN maps[n],
             maps' = [maps EXCEPT ![n] = Put(maps[n], Strip(r), Len(adds) + 1)],
             Record(kind, key, r, "added")
      PROVE  RoutesInv'
  <2>1. n \in MapNames
    BY OneMap, Zenon
  <2>2. maps' = [m \in MapNames |-> maps'[m]]
    BY <1>1, <1>6, Zenon
  <2>3. /\ Strip(r) \in DOMAIN maps'[n] /\ maps'[n][Strip(r)] = Len(adds) + 1
        /\ \A x \in DOMAIN maps[n] : x \in DOMAIN maps'[n] /\ maps'[n][x] = maps[n][x]
    BY <1>1, <1>6, <2>1, Zenon DEF Put
  <2>4. \A m \in MapNames \ {n} : maps'[m] = maps[m]
    BY <1>1, <1>6, Zenon
  <2>5. \A m \in MapNames : \A x \in DOMAIN maps[m] :
          x \in DOMAIN maps'[m] /\ maps'[m][x] = maps[m][x]
    BY <2>3, <2>4, Zenon
  <2>6. ASSUME NEW k \in DOMAIN adds PROVE AddInMap(k)'
    <3>1. adds'[k] = adds[k] /\ adds[k] \in AddRecords
      BY <1>1, <1>3, <1>6
    <3>2. SUFFICES ASSUME adds[k].result = "added"
                   PROVE  \E m \in ChooseMap(adds[k].kind, adds[k].key) :
                            /\ Strip(adds[k].resource) \in DOMAIN maps'[m]
                            /\ maps'[m][Strip(adds[k].resource)] = k
      BY <3>1, Zenon DEF AddInMap
    <3>3. PICK m \in ChooseMap(adds[k].kind, adds[k].key) :
            /\ Strip(adds[k].resource) \in DOMAIN maps[m]
            /\ maps[m][Strip(adds[k].resource)] = k
      BY <1>4, <3>2, Zenon DEF AddInMap
    <3>4. m \in MapNames
      BY <3>1, OneMap DEF AddRecords
    <3> QED
      BY <2>5, <3>3, <3>4, Zenon
  <2>7. ASSUME NEW k, k = Len(adds) + 1 PROVE AddInMap(k)'
    <3>1. adds'[k] = [kind |-> kind, key |-> key, resource |-> r, result |-> "added"]
      BY <1>3, <1>6, <2>7, Zenon
    <3>2. adds'[k].kind = kind /\ adds'[k].key = key /\ adds'[k].resource = r
      BY <3>1
    <3> QED
      BY <1>6, <2>3, <2>7, <3>2, Zenon DEF AddInMap
  <2>8. \A k \in DOMAIN adds' : AddInMap(k)'
    BY <1>3, <1>6, <2>6, <2>7, Zenon
  <2> QED
    BY <1>1, <1>2, <1>3, <1>6, <2>2, <2>8, Zenon DEF RoutesInv
<1> QED
  BY <1>5, <1>6, Zenon DEF Add

LEMMA StepHandlers ==
  ASSUME RoutesInv, NEW m \in Methods, NEW r \in Resources, HandleHeaders(m, r)
  PROVE  RoutesInv'
<1>1. UNCHANGED <<maps, adds, running>>
  BY Zenon DEF HandleHeaders
<1>2. /\ served'.request = "headers" /\ served'.method = m /\ served'.resource = r
      /\ served'.to = PayloadDecision(m, r)
  BY Zenon DEF HandleHeaders
<1>3. ServedByNearest'
  <2>1. ~Routed("handlers")'
    BY <1>2, Zenon DEF Routed
  <2>2. ASSUME NEW n \in ChooseMap("payloads", m)
        PROVE  served'.to.by = Handlers(n, Nearest(maps[n], Strip(r)))
    BY <1>2, PayloadNearest
  <2>3. ASSUME NEW n \in ChooseMap("payloads", served.method)'
        PROVE  served'.to.by = Handlers(n, Nearest(maps[n], Strip(served.resource)))'
    <3>1. served'.to.by = Handlers(n, Nearest(maps[n], Strip(r)))
      BY <1>2, <2>2, <2>3, Zenon
    <3> QED
      BY <1>1, <1>2, <3>1, Zenon DEF Handlers
  <2> QED
    BY <2>1, <2>3, Zenon DEF ServedByNearest
<1>4. \A k \in DOMAIN adds : AddInMap(k)'
  BY <1>1, Zenon DEF RoutesInv, AddInMap
<1>5. WsServed'
  BY <1>2, Zenon DEF WsServed, Upgraded
<1> QED
  BY <1>1, <1>2, <1>3, <1>4, <1>5 DEF RoutesInv, HandleHeaders

LEMMA StepRequest ==
  ASSUME RoutesInv, NEW m \in Methods, NEW r \in Resources, NEW upgrade \in BOOLEAN,
         NEW isOpen \in BOOLEAN, NEW ec \in {"none", "parser", "io"},
         HandleRequest(m, r, upgrade, ec, isOpen)
  PROVE  RoutesInv'
<1>1. UNCHANGED <<maps, adds, running>>
  BY Zenon DEF HandleRequest
<1>2. /\ served'.request = (IF upgrade THEN "upgrade" ELSE "http")
      /\ served'.method = m /\ served'.resource = r
      /\ served'.ec = ec /\ served'.to = RequestDecision(m, r, upgrade, ec, isOpen)
  BY Zenon DEF HandleRequest
<1>3. ServedByNearest'
  <2>1. ~Routed("payloads")' /\ (upgrade => ~Routed("handlers")')
    BY <1>2, Zenon DEF Routed
  <2>2. ASSUME ~upgrade, Routed("handlers")', NEW n \in ChooseMap("handlers", m)
        PROVE  served'.to.by = Handlers(n, Nearest(maps[n], Strip(r)))
    <3>1. ec = "none" /\ ~RootOptions(m, r)
      BY <1>2, <2>2, Zenon DEF Routed
    <3>2. served'.to = RequestDecision(m, r, FALSE, "none", isOpen)
      BY <1>2, <2>2, <3>1, Zenon
    <3> QED
      BY <3>1, <3>2, RequestNearest, Zenon
  <2>3. ASSUME Routed("handlers")', NEW n \in ChooseMap("handlers", served.method)'
        PROVE  served'.to.by = Handlers(n, Nearest(maps[n], Strip(served.resource)))'
    <3>1. served'.to.by = Handlers(n, Nearest(maps[n], Strip(r)))
      BY <1>2, <2>1, <2>2, <2>3, Zenon
    <3> QED
      BY <1>1, <1>2, <3>1, Zenon DEF Handlers
  <2> QED
    BY <2>1, <2>3, Zenon DEF ServedByNearest
<1>4. \A k \in DOMAIN adds : AddInMap(k)'
  BY <1>1, Zenon DEF RoutesInv, AddInMap
<1>5. WsServed'
  <2> SUFFICES ASSUME Upgraded' PROVE served'.to.by = WsHandlers(served.resource)'
    BY Zenon DEF WsServed
  <2>1. upgrade /\ ec = "none"
    <3>1. served'.request = "upgrade" /\ served'.ec = "none"
      BY Zenon DEF Upgraded
    <3>2. CASE ~upgrade
      BY <1>2, <3>1, <3>2
    <3> QED
      BY <1>2, <3>1, <3>2, Zenon
  <2>2. served'.to.by = WsHandlers(r)
    <3>1. served'.to = IF WsHandlers(r) # {} THEN To("websocket", WsHandlers(r))
                       ELSE To("not_found", {})
      BY <1>2, <2>1, Zenon DEF RequestDecision
    <3>2. CASE WsHandlers(r) = {}
      <4>1. served'.to = To("not_found", {})
        BY <3>1, <3>2, Zenon
      <4> QED
        BY <3>2, <4>1 DEF To
    <3>3. CASE WsHandlers(r) # {}
      <4>1. served'.to = To("websocket", WsHandlers(r))
        BY <3>1, <3>3, Zenon
      <4> QED
        BY <4>1 DEF To
    <3> QED
      BY <3>2, <3>3, Zenon
  <2>3. WsHandlers(served.resource)' = WsHandlers(r)
    BY <1>1, <1>2 DEF WsHandlers, Handlers
  <2> QED
    BY <2>2, <2>3, Zenon
<1> QED
  BY <1>1, <1>2, <1>3, <1>4, <1>5 DEF RoutesInv, HandleRequest

LEMMA StepRoutes == RoutesInv /\ [RoutingNext]_routingVars => RoutesInv'
<1> SUFFICES ASSUME RoutesInv, [RoutingNext]_routingVars PROVE RoutesInv'
  BY Zenon
<1>1. ASSUME NEW kind \in {"handlers", "payloads"}, NEW m \in Methods,
             NEW r \in Resources, Add(kind, m, r)
      PROVE  RoutesInv'
  BY <1>1, StepAdd, Zenon
<1>2. ASSUME NEW e \in Events \cup {"WSERROR"}, NEW r \in Resources, Add("websocket", e, r)
      PROVE  RoutesInv'
  BY <1>2, StepAdd, Zenon
<1>3. CASE Start \/ Return \/ UNCHANGED routingVars
  <2>1. UNCHANGED <<maps, adds>> /\ (served' = served \/ served' = Nothing)
    BY <1>3, Zenon DEF Start, Return, routingVars
  <2>2. running' = running \/ running' = TRUE
    BY <1>3, Zenon DEF Start, Return, routingVars
  <2>3. \A k \in DOMAIN adds : AddInMap(k)'
    BY <2>1, Zenon DEF RoutesInv, AddInMap
  <2>4. ServedByNearest' /\ WsServed'
    <3>1. CASE served' = Nothing
      <4>1. (served = Nothing => ServedByNearest /\ WsServed)'
        BY NothingServed, PTL
      <4> QED
        BY <3>1, <4>1, Zenon
    <3>2. CASE served' = served
      <4>1. ServedByNearest /\ WsServed
        BY Zenon DEF RoutesInv
      <4>2. ServedByNearest'
        BY <2>1, <3>2, <4>1 DEF ServedByNearest, Routed, Handlers
      <4>3. WsServed'
        BY <2>1, <3>2, <4>1 DEF WsServed, Upgraded, WsHandlers, Handlers
      <4> QED
        BY <4>2, <4>3, Zenon
    <3> QED
      BY <2>1, <3>1, <3>2, Zenon
  <2>5. /\ running' \in BOOLEAN
        /\ served' # Nothing => running' /\ served'.resource \in Resources
    BY <2>1, <2>2, Zenon DEF RoutesInv
  <2> QED
    BY <2>1, <2>3, <2>4, <2>5, Zenon DEF RoutesInv
<1>4. ASSUME NEW m \in Methods, NEW r \in Resources, HandleHeaders(m, r)
      PROVE  RoutesInv'
  BY <1>4, StepHandlers, Zenon
<1>5. ASSUME NEW m \in Methods, NEW r \in Resources, NEW upgrade \in BOOLEAN,
             NEW isOpen \in BOOLEAN, NEW ec \in {"none", "parser", "io"},
             HandleRequest(m, r, upgrade, ec, isOpen)
      PROVE  RoutesInv'
  BY <1>5, StepRequest, Zenon
<1> QED
  BY <1>1, <1>2, <1>3, <1>4, <1>5, Zenon DEF RoutingNext

LEMMA RoutesInvariant == RoutingSpec => []RoutesInv
  BY InitRoutes, StepRoutes, PTL DEF RoutingSpec

\* For every set of resources and methods, a request and its payload go to the
\* handler of the nearest resource that leads to its own: the loop of
\* find_submatch misses none of the cuts of the path and stops at the longest
\* that has a handler.
THEOREM ServedByNearestHolds == RoutingSpec => []ServedByNearest
<1>1. RoutesInv => ServedByNearest
  BY Zenon DEF RoutesInv
<1> QED
  BY <1>1, RoutesInvariant, PTL

\* For every sequence of calls of add_handler and add_payload_handler, the handler
\* of each call that returned serves the resource that it was added for, but for
\* those of add_handler that OPTIONS "*" and "/*" never reach; and a handler of
\* add_websocket_handler, unless added with a trailing slash, is among those of
\* its resource.
THEOREM AddedIsServedHolds == RoutingSpec => []AddedIsServed
<1>1. ASSUME RoutesInv PROVE AddedIsServed
  <2>0. ASSUME NEW k \in DOMAIN adds, adds[k].result = "added"
        PROVE  /\ adds[k].kind \in {"handlers", "payloads", "websocket"}
               /\ adds[k].resource \in Resources
               /\ \E n \in ChooseMap(adds[k].kind, adds[k].key) :
                    /\ Strip(adds[k].resource) \in DOMAIN maps[n]
                    /\ maps[n][Strip(adds[k].resource)] = k
    <3>1. adds[k] \in AddRecords
      BY <1>1 DEF RoutesInv
    <3> QED
      BY <1>1, <2>0, <3>1, Zenon DEF AddRecords, RoutesInv, AddInMap
  <2>1. ASSUME NEW k \in DOMAIN adds, adds[k].result = "added",
               adds[k].kind # "websocket", Routed(adds[k].kind),
               ChooseMap(adds[k].kind, adds[k].key) = ChooseMap(adds[k].kind, served.method),
               adds[k].resource = served.resource
        PROVE  served.to.by = {k}
    <3> PICK r \in Resources : r = adds[k].resource
      BY <2>0, <2>1, Zenon
    <3>1. PICK n \in ChooseMap(adds[k].kind, adds[k].key) :
            Strip(r) \in DOMAIN maps[n] /\ maps[n][Strip(r)] = k
      BY <2>0, <2>1, Zenon
    <3>2. n \in ChooseMap(adds[k].kind, served.method) /\ adds[k].kind \in {"handlers", "payloads"}
      BY <2>0, <2>1, Zenon
    <3>3. served.to.by = Handlers(n, Nearest(maps[n], Strip(r)))
      BY <1>1, <2>1, <3>2, Zenon DEF RoutesInv, ServedByNearest
    <3>4. Nearest(maps[n], Strip(r)) = {Strip(r)}
      BY <3>1, StripResource, NearestToItself, Zenon
    <3> QED
      BY <3>1, <3>3, <3>4, Zenon DEF Handlers
  <2>2. ASSUME NEW k \in DOMAIN adds, adds[k].result = "added",
               adds[k].kind = "websocket", Upgraded, adds[k].resource = served.resource,
               Strip(adds[k].resource) = adds[k].resource
        PROVE  k \in served.to.by
    <3>1. PICK n \in ChooseMap("websocket", adds[k].key) :
            served.resource \in DOMAIN maps[n] /\ maps[n][served.resource] = k
      BY <2>0, <2>2, Zenon
    <3>2. n \in {"websocket"} \X Events
      BY <3>1 DEF ChooseMap
    <3>3. k \in Handlers(n, {served.resource} \cap DOMAIN maps[n])
      BY <3>1, Zenon DEF Handlers
    <3>4. k \in WsHandlers(served.resource)
      BY <3>2, <3>3, Zenon DEF WsHandlers
    <3> QED
      BY <1>1, <2>2, <3>4, Zenon DEF RoutesInv, WsServed
  <2> SUFFICES ASSUME NEW k \in DOMAIN adds, adds[k].result = "added"
               PROVE  /\ /\ adds[k].kind # "websocket" /\ Routed(adds[k].kind)
                         /\ ChooseMap(adds[k].kind, adds[k].key)
                              = ChooseMap(adds[k].kind, served.method)
                         /\ adds[k].resource = served.resource
                         => served.to.by = {k}
                      /\ /\ adds[k].kind = "websocket" /\ Upgraded
                         /\ adds[k].resource = served.resource
                         /\ Strip(adds[k].resource) = adds[k].resource
                         => k \in served.to.by
    BY Zenon DEF AddedIsServed
  <2> QED
    BY <2>1, <2>2, Zenon
<1> QED
  BY <1>1, RoutesInvariant, PTL
==============================================================================
