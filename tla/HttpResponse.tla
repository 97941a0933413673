---------------------------- MODULE HttpResponse ----------------------------
(***************************************************************************)
(* http_response and the http_message under it, as a request handler sees  *)
(* them through get_response(): the status, the first line with its cache, *)
(* the dictionaries of headers and cookies, and what is made of them when  *)
(* the header block is put together.                                       *)
(*                                                                         *)
(* A dictionary maps a name to its values: its order is not specified.     *)
(***************************************************************************)
EXTENDS Naturals, Sequences

\* The headers that say where a message ends and what becomes of the connection,
\* and one of the others, that may have several values.
HeaderNames == {"Connection", "Content-Length", "Transfer-Encoding", "Set-Cookie"}

\* clear_first_line: an empty line is made anew by get_first_line.
NoLine == <<>>

\* http_response::update_request_info: get_chunks_supported().
ChunksSupported(r) == r.major = 1 /\ r.minor >= 1

\* http_response(request): the answer to a request without a version has the
\* version 0.0 and no status.
NewResponse(r) ==
  [version |-> IF r.major = 0 THEN <<0, 0>> ELSE <<1, 1>>,
   status_code |-> IF r.major = 0 THEN 0 ELSE 200,
   status_message |-> IF r.major = 0 THEN "" ELSE "OK",
   first_line |-> NoLine,
   chunks_supported |-> ChunksSupported(r),
   headers |-> [n \in HeaderNames |-> <<>>],
   cookies |-> {},
   content_length |-> 0,
   do_not_send_content_length |-> FALSE]

\* set_status_code and set_status_message
SetStatusCode(msg, n) == [msg EXCEPT !.status_code = n, !.first_line = NoLine]
SetStatusMessage(msg, m) == [msg EXCEPT !.status_message = m, !.first_line = NoLine]

\* http_response::update_first_line
UpdatedFirstLine(msg) == <<msg.version, msg.status_code, msg.status_message>>

\* get_first_line
GetFirstLine(msg) ==
  IF msg.first_line = NoLine THEN [msg EXCEPT !.first_line = UpdatedFirstLine(msg)] ELSE msg

\* add_header
AddHeader(msg, name, value) == [msg EXCEPT !.headers[name] = Append(@, value)]

\* Faulty variant: change_value sets the first value and leaves the others.
ChangeFirstValue(msg, name, value) ==
  [msg EXCEPT !.headers[name] = IF @ = <<>> THEN <<value>> ELSE [@ EXCEPT ![1] = value]]

\* change_header and change_value: one value takes the place of all.
ChangeHeader(msg, name, value) == [msg EXCEPT !.headers[name] = <<value>>]

\* delete_header and delete_value
DeleteHeader(msg, name) == [msg EXCEPT !.headers[name] = <<>>]

\* add_cookie, of the message's dictionary of cookies.
AddCookie(msg, cookie) == [msg EXCEPT !.cookies = @ \cup {cookie}]

\* Faulty variant: set_cookie replaces the header of the cookies set before.
SetCookieReplaces(msg, cookie) == ChangeHeader(msg, "Set-Cookie", cookie)

\* http_response::set_cookie and delete_cookie, which are all a Set-Cookie header.
SetCookie(msg, cookie) == AddHeader(msg, "Set-Cookie", cookie)

\* set_content_length and set_do_not_send_content_length
SetContentLength(msg, n) == [msg EXCEPT !.content_length = n]
DoNotSendContentLength(msg) == [msg EXCEPT !.do_not_send_content_length = TRUE]

\* prepare_headers_for_send
PrepareHeadersForSend(msg, keep_alive, using_chunks) ==
  LET told == ChangeHeader(msg, "Connection", IF keep_alive THEN "Keep-Alive" ELSE "close")
  IN  IF using_chunks
      THEN IF msg.chunks_supported THEN ChangeHeader(told, "Transfer-Encoding", "chunked") ELSE told
      ELSE IF msg.do_not_send_content_length THEN told
      ELSE ChangeHeader(told, "Content-Length", msg.content_length)

\* append_cookie_headers: the one that prepare_buffers_for_send calls is not
\* virtual and does nothing, so that the one of http_response is never called.
AppendCookieHeaders(msg) == msg

\* prepare_buffers_for_send: the message as it is left, whose first line and
\* headers are sent.
PrepareBuffersForSend(msg, keep_alive, using_chunks) ==
  AppendCookieHeaders(GetFirstLine(PrepareHeadersForSend(msg, keep_alive, using_chunks)))

\* append_headers: the header block.
HeaderBlock(msg) == [unit |-> "head", line |-> msg.first_line, headers |-> msg.headers]
=============================================================================
