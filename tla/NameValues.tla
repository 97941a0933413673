------------------------------ MODULE NameValues ------------------------------
(***************************************************************************)
(* The parsers of names and values in http_parser: parse_url_encoded, for  *)
(* query strings and forms; parse_cookie_header, for the Cookie header of  *)
(* a request and the Set-Cookie header of a response; the loop of          *)
(* parse_multipart_form_data; and parse_uri.  The first three are loops    *)
(* over the characters of their input, one action for each state of the    *)
(* loop.  What the first two put in the dictionary is compared with the    *)
(* pairs that splitting the whole input gives.  The inputs of the others   *)
(* are put together from parts, which the parser has to find again.        *)
(*                                                                         *)
(* A character is one of the kinds that the code tells apart: "x" is any   *)
(* other, "esc" an escape that url_decode turns into an ampersand, "lf" a  *)
(* line feed, carriage return or tab, "ctl" another control character.  A  *)
(* word the code looks for is one character: "attr", an attribute of a     *)
(* Set-Cookie header; "B", two dashes and the boundary; "CD" and "CT", the *)
(* names Content-Disposition and Content-Type; "name" and "file", the      *)
(* parameters that name a field and a file; "text", the beginning of a     *)
(* text type; "http".                                                      *)
(***************************************************************************)
EXTENDS Integers, Sequences, SequencesExt

CONSTANTS
  MaxLength,  \* bound on the length of a query string or cookie header
  MaxParts,   \* bound on the parts of a multipart body
  MaxHeaders, \* bound on the headers of a part
  NameMax,    \* QUERY_NAME_MAX, COOKIE_NAME_MAX
  ValueMax,   \* QUERY_VALUE_MAX, COOKIE_VALUE_MAX
  Liberties   \* what the writer of a body or a URI, or the caller, may do:
              \* end lines with "bare_lf"; write a header with "no_value",
              \* the name of a file in front of the field's ("file_first") or
              \* a part with "no_data"; give a "query_only" or a "nested" URI;
              \* pass "reused" strings for the results

ASSUME LibertiesAssumption ==
  Liberties \subseteq {"bare_lf", "no_value", "file_first", "no_data", "query_only",
                       "nested", "reused"}

VARIABLES
  kind,  \* which parser runs: "query", "cookie", "set_cookie", "multipart", "uri"
  input, \* the characters read so far; the whole body or URI
  state, \* parse_state
  name,  \* query_name, cookie_name, header_name
  value, \* query_value, cookie_value, header_value
  quote, \* value_quote_character, or "none"
  dict,  \* the pairs inserted, in order; the results of parse_uri
  rc,    \* "reading"; "true" or "false" when the parser has returned it
  form,  \* the parts of which the body or the URI was put together
  pos,   \* where ptr is in a body
  field, \* field_name
  save   \* save_current_field

vars == <<kind, input, state, name, value, quote, dict, rc, form, pos, field, save>>

multipart == <<form, pos, field, save>>

Cookies == {"cookie", "set_cookie"}

Chars == [query |-> {"x", "esc", "=", "&", ",", "lf", "ctl"},
          cookie |-> {"x", "$", "=", ";", " ", "'", "\"", "ctl"},
          set_cookie |-> {"x", "attr", "=", ";", " ", "\""}]

\* sl::utils::url_decode
Decode(s) == [i \in DOMAIN s |-> IF s[i] = "esc" THEN "&" ELSE s[i]]

\* is_cookie_attribute
IsAttribute(n) ==
  n = <<>> \/ n[1] = "$" \/ (kind = "set_cookie" /\ n = <<"attr">>)

\* algorithm::is_control
IsControl(c) == c \in {"lf", "ctl"}

\* The position of the first character of s in cs; past the end if none is.
First(s, cs) ==
  LET at == {i \in DOMAIN s : s[i] \in cs} IN
  IF at = {} THEN Len(s) + 1 ELSE CHOOSE i \in at : \A j \in at : i <= j

Before(s, i) == SubSeq(s, 1, i - 1)
After(s, i) == SubSeq(s, i + 1, Len(s))

-----------------------------------------------------------------------------
(* Bodies and URIs, put together from parts                                *)

HeaderLine ==
  [disposition |-> <<"CD", ":", " ", "name">>,
   file |-> <<"CD", ":", " ", "name", "file">>,
   file_first |-> <<"CD", ":", " ", "file", "name">>,
   text |-> <<"CT", ":", " ", "text">>,
   binary |-> <<"CT", ":", "x">>,
   other |-> <<"x", ":", " ", " ", "x">>,
   no_value |-> <<"x", ":">>]

\* No header is written twice.
Headers ==
  {h \in SeqOf(DOMAIN HeaderLine, MaxHeaders) :
     /\ \A i, j \in DOMAIN h : HeaderLine[h[i]][1] = HeaderLine[h[j]][1] => i = j
     /\ Range(h) \cap {"no_value", "file_first"} \subseteq Liberties}

Data ==
  [empty |-> <<>>, text |-> <<"x">>, lines |-> <<"CR", "LF", "-">>, no_data |-> <<>>]

Parts ==
  [headers : Headers,
   data : {d \in DOMAIN Data : d = "no_data" => d \in Liberties},
   end : {<<"CR", "LF">>} \cup (IF "bare_lf" \in Liberties THEN {<<"LF">>} ELSE {})]

\* A part that has no data has no line for it either.
PartText(p) ==
  <<"B">> \o p.end
    \o FlattenSeq([i \in DOMAIN p.headers |-> HeaderLine[p.headers[i]] \o p.end])
    \o p.end
    \o Data[p.data]
    \o (IF p.data = "no_data" THEN <<>> ELSE p.end)

\* A body that has been cut off is not closed by a boundary and two dashes.
Bodies == [parts : SeqOf(Parts, MaxParts), closed : BOOLEAN]

BodyText(b) ==
  <<"x">> \o FlattenSeq([i \in DOMAIN b.parts |-> PartText(b.parts[i])])
    \o (IF b.closed THEN <<"B", "-", "-">> ELSE <<>>)

NoPart == <<"none">>

Uris ==
  {u \in [proto : {NoPart, <<"http">>, <<"https">>, <<"x">>},
          host : {<<>>, <<"x">>},
          port : {NoPart, <<"9">>, <<"x">>, <<>>},
          path : {NoPart, <<"/">>, <<"/", ":", "x">>},
          query : {NoPart, <<>>, <<"x", "/", "?">>, <<"x", ":", "/", "/", "x">>}] :
     /\ u.path = NoPart /\ u.query # NoPart => "query_only" \in Liberties
     /\ u.proto = NoPart /\ Len(u.query) = 5 => "nested" \in Liberties}

UriText(u) ==
  (IF u.proto = NoPart THEN <<>> ELSE u.proto \o <<":", "/", "/">>)
    \o u.host
    \o (IF u.port = NoPart THEN <<>> ELSE <<":">> \o u.port)
    \o (IF u.path = NoPart THEN <<>> ELSE u.path)
    \o (IF u.query = NoPart THEN <<>> ELSE <<"?">> \o u.query)

\* The strings passed for the results are empty unless they are used again.
Results ==
  [proto : {<<>>}, host : {<<>>}, port : {0}, path : {<<>>},
   query : {<<>>} \cup (IF "reused" \in Liberties THEN {<<"x">>} ELSE {})]

-----------------------------------------------------------------------------
\* Where std::search finds the boundary, from position p on.
Search(p) == p - 1 + First(After(input, p - 1), {"B"})

Init ==
  /\ \/ kind \in {"query"} \cup Cookies /\ form = <<>> /\ input = <<>>
     \/ kind = "multipart" /\ form \in Bodies /\ input = BodyText(form)
     \/ kind = "uri" /\ form \in Uris /\ input = UriText(form)
  /\ state = IF kind = "multipart" THEN "START" ELSE "NAME"
  /\ pos = Search(1)
  /\ name = <<>>
  /\ value = <<>>
  /\ quote = "none"
  /\ field = <<>>
  /\ save = TRUE
  /\ dict \in IF kind = "uri" THEN Results ELSE {<<>>}
  /\ rc = "reading"

\* The loop reads the next character, c.
Reads(k, s, c) ==
  /\ rc = "reading"
  /\ kind \in k
  /\ state = s
  /\ Len(input) < MaxLength
  /\ input' = Append(input, c)
  /\ UNCHANGED <<kind, multipart>>

Fails ==
  /\ rc' = "false"
  /\ UNCHANGED <<state, name, value, quote, dict>>

Skips == UNCHANGED <<state, name, value, quote, dict, rc>>

PushName(c) ==
  /\ name' = Append(name, c)
  /\ UNCHANGED <<state, value, quote, dict, rc>>

PushValue(c) ==
  /\ value' = Append(value, c)
  /\ UNCHANGED <<state, name, quote, dict, rc>>

-----------------------------------------------------------------------------
(* parse_url_encoded                                                       *)

\* A name that is empty has no pair.
QueryInsert(d, n, v) == IF n = <<>> THEN d ELSE Append(d, <<Decode(n), Decode(v)>>)

QueryName(c) ==
  /\ Reads({"query"}, "NAME", c)
  /\ \/ /\ c = "="
        /\ state' = "VALUE"
        /\ UNCHANGED <<name, value, quote, dict, rc>>
     \/ /\ c = "&"
        /\ dict' = QueryInsert(dict, name, value)
        /\ name' = <<>>
        /\ UNCHANGED <<state, value, quote, rc>>
     \/ c = "lf" /\ Skips
     \/ /\ c \notin {"=", "&", "lf"}
        /\ IF IsControl(c) \/ Len(name) >= NameMax THEN Fails ELSE PushName(c)

QueryValue(c) ==
  /\ Reads({"query"}, "VALUE", c)
  /\ \/ /\ c = "&"
        /\ dict' = QueryInsert(dict, name, value)
        /\ name' = <<>> /\ value' = <<>>
        /\ state' = "NAME"
        /\ UNCHANGED <<quote, rc>>
     \/ /\ c = ","
        /\ dict' = QueryInsert(dict, name, value)
        /\ value' = <<>>
        /\ UNCHANGED <<state, name, quote, rc>>
     \/ c = "lf" /\ Skips
     \/ /\ c \notin {"&", ",", "lf"}
        /\ IF IsControl(c) \/ Len(value) >= ValueMax THEN Fails ELSE PushValue(c)

\* The input ends; the last pair is still to be inserted.
QueryEnd ==
  /\ kind = "query" /\ rc = "reading"
  /\ dict' = QueryInsert(dict, name, value)
  /\ rc' = "true"
  /\ UNCHANGED <<kind, input, state, name, value, quote, multipart>>

-----------------------------------------------------------------------------
(* parse_cookie_header; a comma is like a semicolon                        *)

CookieInsert(d, n, v) == IF IsAttribute(n) THEN d ELSE Append(d, <<n, v>>)

CookieName(c) ==
  /\ Reads(Cookies, "NAME", c)
  /\ \/ /\ c = "="
        /\ quote' = "none"
        /\ state' = "VALUE"
        /\ UNCHANGED <<name, value, dict, rc>>
     \/ /\ c = ";"
        /\ dict' = CookieInsert(dict, name, value)
        /\ name' = <<>>
        /\ UNCHANGED <<state, value, quote, rc>>
     \/ c = " " /\ Skips
     \/ /\ c \notin {"=", ";", " "}
        /\ IF IsControl(c) \/ Len(name) >= NameMax THEN Fails ELSE PushName(c)

\* The cookie is inserted and the next state is s.
EndCookie(s) ==
  /\ dict' = CookieInsert(dict, name, value)
  /\ name' = <<>> /\ value' = <<>>
  /\ state' = s
  /\ UNCHANGED <<quote, rc>>

CookieValue(c) ==
  /\ Reads(Cookies, "VALUE", c)
  /\ quote = "none"
  /\ \/ c = ";" /\ EndCookie("NAME")
     \/ /\ c \in {"'", "\""} /\ value = <<>>
        /\ quote' = c
        /\ UNCHANGED <<state, name, value, dict, rc>>
     \/ c = " " /\ value = <<>> /\ Skips
     \/ /\ c # ";" /\ (c \in {"'", "\"", " "} => value # <<>>)
        /\ IF IsControl(c) \/ Len(value) >= ValueMax THEN Fails ELSE PushValue(c)

\* A quoted value that a semicolon ends too.
CookieQuotedSplits(c) ==
  /\ Reads(Cookies, "VALUE", c)
  /\ quote # "none"
  /\ \/ c = quote /\ EndCookie("IGNORE")
     \/ c = ";" /\ EndCookie("NAME")
     \/ /\ c \notin {quote, ";"}
        /\ IF Len(value) >= ValueMax THEN Fails ELSE PushValue(c)

CookieQuoted(c) ==
  /\ Reads(Cookies, "VALUE", c)
  /\ quote # "none"
  /\ \/ c = quote /\ EndCookie("IGNORE")
     \/ /\ c # quote
        /\ IF Len(value) >= ValueMax THEN Fails ELSE PushValue(c)

CookieIgnore(c) ==
  /\ Reads(Cookies, "IGNORE", c)
  /\ state' = IF c = ";" THEN "NAME" ELSE "IGNORE"
  /\ UNCHANGED <<name, value, quote, dict, rc>>

CookieEnd ==
  /\ kind \in Cookies /\ rc = "reading"
  /\ dict' = CookieInsert(dict, name, value)
  /\ rc' = "true"
  /\ UNCHANGED <<kind, input, state, name, value, quote, multipart>>

-----------------------------------------------------------------------------
(* parse_multipart_form_data; the body is not empty and its type names the *)
(* boundary                                                                *)

\* The loop is at character c, in state s.
At(s, c) ==
  /\ kind = "multipart" /\ rc = "reading"
  /\ state = s
  /\ pos <= Len(input) /\ input[pos] = c
  /\ UNCHANGED <<kind, input, quote, form>>

Goes(s) == state' = s /\ pos' = pos + 1

Returns(r) ==
  /\ rc' = r
  /\ UNCHANGED <<state, name, value, dict, pos, field, save>>

\* After the character c, which is "CR" or "LF".
AfterEnd(c, ifCr, ifLf) == Goes(IF c = "CR" THEN ifCr ELSE ifLf)

\* MP_PARSE_START that keeps the name of the last field.
MpStartKeeps(c) ==
  /\ At("START", c)
  /\ name' = <<>> /\ value' = <<>> /\ save' = TRUE
  /\ Goes("HEADER_CR")
  /\ UNCHANGED <<dict, rc, field>>

\* c is the boundary.
MpStart(c) ==
  /\ At("START", c)
  /\ name' = <<>> /\ value' = <<>> /\ field' = <<>> /\ save' = TRUE
  /\ Goes("HEADER_CR")
  /\ UNCHANGED <<dict, rc>>

MpHeaderCr(c) ==
  /\ At("HEADER_CR", c)
  /\ IF c \in {"CR", "LF"}
     THEN /\ AfterEnd(c, "HEADER_LF", "HEADER_NAME")
          /\ UNCHANGED <<name, value, dict, rc, field, save>>
     ELSE Returns(IF c = "-" /\ pos < Len(input) /\ input[pos + 1] = "-"
                  THEN "true" ELSE "false")

MpHeaderLf(c) ==
  /\ At("HEADER_LF", c)
  /\ IF c = "LF"
     THEN Goes("HEADER_NAME") /\ UNCHANGED <<name, value, dict, rc, field, save>>
     ELSE Returns("false")

\* A line that ends before its colon keeps what it has put into header_name.
MpHeaderName(c) ==
  /\ At("HEADER_NAME", c)
  /\ name' = IF c \in {"CR", "LF", ":"} THEN name ELSE Append(name, c)
  /\ \/ /\ c \in {"CR", "LF"}
        /\ IF name = <<>> THEN AfterEnd(c, "HEADER_LAST_LF", "FIELD_DATA")
           ELSE AfterEnd(c, "HEADER_LF", "HEADER_NAME")
     \/ c = ":" /\ Goes("HEADER_SPACE")
     \/ c \notin {"CR", "LF", ":"} /\ Goes("HEADER_NAME")
  /\ UNCHANGED <<value, dict, rc, field, save>>

MpHeaderSpace(c) ==
  /\ At("HEADER_SPACE", c)
  /\ value' = IF c \in {"CR", "LF", " "} THEN value ELSE Append(value, c)
  /\ IF c \in {"CR", "LF"} THEN AfterEnd(c, "HEADER_LF", "HEADER_NAME")
     ELSE Goes(IF c = " " THEN "HEADER_SPACE" ELSE "HEADER_VALUE")
  /\ UNCHANGED <<name, dict, rc, field, save>>

\* What stands in the quotes behind name="; filename=" ends like it.
Quoted == [name |-> "x", file |-> "f"]

MpHeaderValue(c) ==
  /\ At("HEADER_VALUE", c)
  /\ \/ /\ c \in {"CR", "LF"}
        /\ save' = IF name = <<"CT">> THEN value[1] = "text" ELSE save
        /\ field' = IF name = <<"CD">> /\ First(value, DOMAIN Quoted) <= Len(value)
                    THEN Append(field, Quoted[value[First(value, DOMAIN Quoted)]]) ELSE field
        /\ name' = <<>> /\ value' = <<>>
        /\ AfterEnd(c, "HEADER_LF", "HEADER_NAME")
     \/ /\ c \notin {"CR", "LF"}
        /\ value' = Append(value, c)
        /\ Goes("HEADER_VALUE")
        /\ UNCHANGED <<name, field, save>>
  /\ UNCHANGED <<dict, rc>>

\* The field is skipped unless it has a name and is kept.
MpHeaderLastLf(c) ==
  /\ At("HEADER_LAST_LF", c)
  /\ IF c # "LF" THEN Returns("false")
     ELSE /\ IF save /\ field # <<>> THEN Goes("FIELD_DATA")
             ELSE state' = "START" /\ pos' = Search(pos)
          /\ UNCHANGED <<name, value, dict, rc, field, save>>

\* The data ends at the boundary, or before the CR and LF in front of it.  These
\* may be the ones in front of ptr: assign() throws for the negative length.
MpFieldData(c) ==
  LET next == Search(pos)
      last == IF SubSeq(input, next - 2, next - 1) = <<"CR", "LF">>
              THEN next - 3 ELSE next - 1
  IN  /\ At("FIELD_DATA", c)
      /\ IF last < pos - 1 THEN Returns("throws")
         ELSE /\ dict' = Append(dict, <<field, SubSeq(input, pos, last)>>)
              /\ state' = "START" /\ pos' = next
              /\ UNCHANGED <<name, value, rc, field, save>>

\* The body ends; found_parameter is returned.
MpEnd ==
  /\ kind = "multipart" /\ rc = "reading"
  /\ pos > Len(input)
  /\ Returns(IF dict # <<>> THEN "true" ELSE "false")
  /\ UNCHANGED <<kind, input, quote, form>>

-----------------------------------------------------------------------------
(* parse_uri                                                               *)

\* sl::utils::parse_uint16 takes no other of the ports that are written here.
IsPort(s) == s = <<"9">>

DefaultPort(proto) ==
  CASE proto = <<"http">> -> 80 [] proto = <<"https">> -> 443 [] OTHER -> 0

\* The results, given what the strings held before: the query is assigned or
\* cleared only if there is a path.
ParseUri ==
  LET colons == {i \in 1 .. Len(input) - 2 :
                   SubSeq(input, i, i + 2) = <<":", "/", "/">>}
      proto == IF colons = {} THEN <<>>
               ELSE Before(input, CHOOSE i \in colons : \A j \in colons : i <= j)
      rest == IF colons = {} THEN input ELSE After(input, Len(proto) + 3)
      slash == First(rest, {"/"})
      server == Before(rest, slash)
      colon == First(server, {":"})
      port == After(server, colon)
      path == After(rest, slash - 1)
      mark == First(path, {"?"})
      ok == colon > 1 /\ (colon <= Len(server) => IsPort(port))
  IN  /\ kind = "uri" /\ rc = "reading"
      /\ rc' = IF ok THEN "true" ELSE "false"
      /\ dict' = [proto |-> proto,
                  host |-> Before(server, colon),
                  port |-> IF ~ok THEN dict.port
                           ELSE IF colon <= Len(server) THEN 9
                           ELSE DefaultPort(proto),
                  path |-> IF path = <<>> THEN <<"/">>
                           ELSE IF ok THEN Before(path, mark) ELSE dict.path,
                  query |-> IF path = <<>> \/ ~ok THEN dict.query
                            ELSE After(path, mark)]
      /\ UNCHANGED <<kind, input, state, name, value, quote, multipart>>

-----------------------------------------------------------------------------
MultipartStep(c) ==
  \/ MpStart(c) \/ MpHeaderCr(c) \/ MpHeaderLf(c) \/ MpHeaderName(c)
  \/ MpHeaderSpace(c) \/ MpHeaderValue(c) \/ MpHeaderLastLf(c) \/ MpFieldData(c)

Next ==
  \/ \E c \in Chars.query : QueryName(c) \/ QueryValue(c)
  \/ QueryEnd
  \/ \E k \in Cookies : \E c \in Chars[k] :
       /\ kind = k
       /\ CookieName(c) \/ CookieValue(c) \/ CookieQuoted(c) \/ CookieIgnore(c)
  \/ CookieEnd
  \/ \E c \in Range(input) : MultipartStep(c)
  \/ MpEnd
  \/ ParseUri

Spec == Init /\ [][Next]_vars

-----------------------------------------------------------------------------
(* What the parsers should find: the input is split, not read.             *)

Without(s, c) == SelectSeq(s, LAMBDA x : x # c)

\* The parts of s between its separators c.
RECURSIVE Split(_, _)
Split(s, c) ==
  LET i == First(s, {c}) IN
  IF i > Len(s) THEN <<s>> ELSE <<Before(s, i)>> \o Split(After(s, i), c)

\* A field is a name, and a list of values after the first equals sign.
FieldPairs(f) ==
  LET i == First(f, {"="})
      values == Split(After(f, i), ",")
  IN  IF Before(f, i) = <<>> THEN <<>>
      ELSE [j \in DOMAIN values |-> <<Decode(Before(f, i)), Decode(values[j])>>]

QueryPairs(s) ==
  LET fields == Split(Without(s, "lf"), "&") IN
  FlattenSeq([i \in DOMAIN fields |-> FieldPairs(fields[i])])

Pair(n, v) ==
  IF IsAttribute(Without(n, " ")) THEN <<>> ELSE <<<<Without(n, " "), v>>>>

\* The first cookie ends at a semicolon; one that has a value in quotes ends at
\* the first semicolon behind them, or with the input if they are not closed.
RECURSIVE CookiePairs(_)
CookiePairs(s) ==
  IF s = <<>> THEN <<>>
  ELSE
    LET i == First(s, {"=", ";"})
        n == Before(s, i)
        r == After(s, i)
        skip == CHOOSE j \in 0..Len(r) : /\ \A k \in 1..j : r[k] = " "
                                         /\ j = Len(r) \/ r[j + 1] # " "
        v == After(r, skip)
        close == First(Tail(v), {v[1]})
        rest == After(Tail(v), close)
    IN  IF i > Len(s) \/ s[i] = ";" THEN Pair(n, <<>>) \o CookiePairs(r)
        ELSE IF v # <<>> /\ v[1] \in {"'", "\""}
        THEN Pair(n, Before(Tail(v), close)) \o CookiePairs(After(rest, First(rest, {";"})))
        ELSE Pair(n, Before(v, First(v, {";"}))) \o CookiePairs(After(v, First(v, {";"})))

-----------------------------------------------------------------------------
(* What was put together                                                   *)

\* A field has a name, and a text type or none.
IsField(p) ==
  /\ Range(p.headers) \cap {"disposition", "file", "file_first"} # {}
  /\ "binary" \notin Range(p.headers)

Fields(b) ==
  LET kept == SelectSeq(b.parts, IsField) IN
  [i \in DOMAIN kept |-> <<<<"x">>, Data[kept[i].data]>>]

Valid(u) == u.host # <<>> /\ (u.port = NoPart \/ IsPort(u.port))

Or(part, default) == IF part = NoPart THEN default ELSE part

UriParts(u) ==
  [proto |-> Or(u.proto, <<>>),
   host |-> u.host,
   port |-> IF u.port = NoPart THEN DefaultPort(u.proto) ELSE 9,
   path |-> Or(u.path, <<"/">>),
   query |-> Or(u.query, <<>>)]

-----------------------------------------------------------------------------
\* A query string that parse_url_encoded accepts, and a Cookie or Set-Cookie
\* header that parse_cookie_header accepts, give the dictionary their pairs and
\* no others: each value of a list has the name of its field, an escape is no
\* separator and neither is a semicolon in quotes, what follows the quotes does
\* not leak into the next cookie, and the last pair is not lost.
PairsExact ==
  rc = "true" => /\ kind = "query" => dict = QueryPairs(input)
                 /\ kind \in Cookies => dict = CookiePairs(input)

\* What was put together is taken apart again.  parse_multipart_form_data finds
\* exactly the fields of a form, with their data, and fails only for a body that
\* was cut off before a field; parse_uri fails exactly for a URI without a host
\* or with a port that is none, and returns the parts of any other.  This is
\* without the Liberties.
TakenApart ==
  /\ kind = "multipart" /\ rc # "reading" =>
       /\ dict = Fields(form)
       /\ rc = IF form.closed \/ Fields(form) # <<>> THEN "true" ELSE "false"
  /\ kind = "uri" /\ rc # "reading" =>
       /\ (rc = "true") = Valid(form)
       /\ Valid(form) => dict = UriParts(form)
===============================================================================
