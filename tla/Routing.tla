------------------------------- MODULE Routing -------------------------------
(***************************************************************************)
(* How http_server finds the handler of a request: the maps that the add_* *)
(* operations fill before the server is started, find_submatch, and the    *)
(* decisions of handle_request_after_headers_parsed and handle_request.    *)
(*                                                                         *)
(* A resource is the sequence of the parts between its slashes: "" is      *)
(* <<"">>, "/" is <<"", "">>, "/a/b" is <<"", "a", "b">>, "*" is <<"*">>.  *)
(* To cut a string at its last slash is to drop the last part.             *)
(***************************************************************************)
EXTENDS Naturals, Sequences

CONSTANTS
  Methods,   \* the methods of requests
  Resources, \* the resources that handlers are added for and requests name
  MaxAdds    \* bound on the calls of add_handler and the like

\* A resource without a slash has one part.
ASSUME ResourcesAssumption == \A r \in Resources : r \in Seq(STRING) /\ r # <<>>

VARIABLES
  maps,   \* the handler maps: for each, the resource -> the number of the handler
  adds,   \* the add_* calls so far, with what became of each
  running,\* has the server been started?
  served  \* the request being dispatched and what it is dispatched to

routingVars == <<maps, adds, running, served>>

-----------------------------------------------------------------------------
(* Resources.                                                              *)

\* The first n parts of a resource.
Cut(r, n) == SubSeq(r, 1, n)

\* strip_trailing_slash
Strip(r) == IF Len(r) > 1 /\ r[Len(r)] = "" THEN Cut(r, Len(r) - 1) ELSE r

\* find_submatch that stops in front of the root.
FindSubmatchNoRoot(map, st) ==
  LET find[n \in 1 .. Len(st)] ==
        IF Cut(st, n) \in DOMAIN map THEN {Cut(st, n)}
        ELSE IF n <= 2 THEN {} ELSE find[n - 1]
  IN  find[Len(st)]

\* find_submatch: the resource itself, else what is left of it when it is cut at
\* its last slash, until there is none.
FindSubmatch(map, st) ==
  LET find[n \in 1 .. Len(st)] ==
        IF Cut(st, n) \in DOMAIN map THEN {Cut(st, n)}
        ELSE IF n = 1 THEN {} ELSE find[n - 1]
  IN  find[Len(st)]

-----------------------------------------------------------------------------
(* The maps.                                                               *)

\* choose_map_by_method
ByMethod == [GET |-> "get", HEAD |-> "get", POST |-> "post", PUT |-> "put",
             DELETE |-> "delete", OPTIONS |-> "options"]

Events == {"WSOPEN", "WSMESSAGE", "WSCLOSE"}

\* The kinds of handlers, and the map that each kind has for a method or event;
\* choose_map_by_method and choose_ws_map throw where there is none.
MapNames == ({"handlers", "payloads"} \X {ByMethod[m] : m \in DOMAIN ByMethod})
            \cup ({"websocket"} \X Events)

ChooseMap(kind, key) ==
  IF kind = "websocket" THEN {<<kind, e>> : e \in Events \cap {key}}
  ELSE {<<kind, ByMethod[m]>> : m \in DOMAIN ByMethod \cap {key}}

\* emplace, of a resource that the map does not have.
Put(map, r, h) == [x \in DOMAIN map \cup {r} |-> IF x = r THEN h ELSE map[x]]

Nothing == [request |-> "none"]

RoutingInit ==
  /\ maps = [n \in MapNames |-> <<>>]
  /\ adds = <<>>
  /\ running = FALSE
  /\ served = Nothing

Record(kind, key, r, result) ==
  adds' = Append(adds, [kind |-> kind, key |-> key, resource |-> r, result |-> result])

\* add_handler that replaces the handler of a resource that has one.
AddReplaces(kind, key, r) ==
  /\ ~running /\ Len(adds) < MaxAdds
  /\ \/ /\ ChooseMap(kind, key) = {}
        /\ Record(kind, key, r, "throws")
        /\ UNCHANGED maps
     \/ \E n \in ChooseMap(kind, key) :
          /\ maps' = [maps EXCEPT ![n] = Put(@, Strip(r), Len(adds) + 1)]
          /\ Record(kind, key, r, "added")
  /\ UNCHANGED <<running, served>>

\* add_handler, add_payload_handler, add_websocket_handler: the handler gets the
\* number of the call; an unknown method or event, and a resource that has a
\* handler, are refused with an exception.
Add(kind, key, r) ==
  /\ ~running /\ Len(adds) < MaxAdds
  /\ \/ /\ \A n \in ChooseMap(kind, key) : Strip(r) \in DOMAIN maps[n]
        /\ Record(kind, key, r, "throws")
        /\ UNCHANGED maps
     \/ \E n \in ChooseMap(kind, key) :
          /\ Strip(r) \notin DOMAIN maps[n]
          /\ maps' = [maps EXCEPT ![n] = Put(@, Strip(r), Len(adds) + 1)]
          /\ Record(kind, key, r, "added")
  /\ UNCHANGED <<running, served>>

\* start()
Start ==
  /\ ~running
  /\ running' = TRUE
  /\ UNCHANGED <<maps, adds, served>>

-----------------------------------------------------------------------------
(* The requests.                                                           *)

To(what, by) == [what |-> what, by |-> by]

Handlers(n, rs) == {maps[n][r] : r \in rs}

\* handle_request_after_headers_parsed: the payload handler, or the body is
\* ignored; an exception leaves parse().
PayloadDecision(method, r) ==
  LET n == ChooseMap("payloads", method) IN
  IF n = {} THEN To("throws", {})
  ELSE LET map == CHOOSE x \in n : TRUE
           found == FindSubmatch(maps[map], Strip(r))
       IN  IF found = {} THEN To("ignore_body", {}) ELSE To("payload", Handlers(map, found))

\* find_ws_handlers: the handlers for exactly this resource, of any event.
WsHandlers(r) ==
  UNION {Handlers(n, {r} \cap DOMAIN maps[n]) : n \in {"websocket"} \X Events}

\* The OPTIONS request that is about the server itself.
RootOptions(method, r) == method = "OPTIONS" /\ Strip(r) \in {<<"*">>, <<"", "*">>}

\* handle_request, for a request with the error ec ("none", "parser", or "io" for
\* another and for a request that is not valid) on a connection that is open or
\* not.
RequestDecision(method, r, upgrade, ec, open) ==
  IF ec # "none" THEN To(IF open /\ ec = "parser" THEN "bad_request" ELSE "finish", {})
  ELSE IF upgrade THEN
    IF WsHandlers(r) # {} THEN To("websocket", WsHandlers(r)) ELSE To("not_found", {})
  ELSE IF RootOptions(method, r) THEN To("root_options", {})
  ELSE IF ChooseMap("handlers", method) = {} THEN To("throws", {})
  ELSE LET map == CHOOSE x \in ChooseMap("handlers", method) : TRUE
           found == FindSubmatch(maps[map], Strip(r))
       IN  IF found = {} THEN To("not_found", {}) ELSE To("handler", Handlers(map, found))

\* The headers of a request are parsed.
HandleHeaders(method, r) ==
  /\ running
  /\ served = Nothing
  /\ served' = [request |-> "headers", method |-> method, resource |-> r,
                to |-> PayloadDecision(method, r)]
  /\ UNCHANGED <<maps, adds, running>>

\* A request is complete, or has failed.
HandleRequest(method, r, upgrade, ec, open) ==
  /\ running
  /\ served = Nothing
  /\ served' = [request |-> IF upgrade THEN "upgrade" ELSE "http", method |-> method,
                resource |-> r, ec |-> ec,
                to |-> RequestDecision(method, r, upgrade, ec, open)]
  /\ UNCHANGED <<maps, adds, running>>

\* What the request was dispatched to returns.
Return ==
  /\ served # Nothing
  /\ served' = Nothing
  /\ UNCHANGED <<maps, adds, running>>

RoutingNext ==
  \/ \E kind \in {"handlers", "payloads"}, m \in Methods, r \in Resources : Add(kind, m, r)
  \/ \E e \in Events \cup {"WSERROR"}, r \in Resources : Add("websocket", e, r)
  \/ Start
  \/ Return
  \/ \E m \in Methods, r \in Resources : HandleHeaders(m, r)
  \/ \E m \in Methods, r \in Resources, upgrade, open \in BOOLEAN,
        ec \in {"none", "parser", "io"} : HandleRequest(m, r, upgrade, ec, open)

RoutingSpec == RoutingInit /\ [][RoutingNext]_routingVars

-----------------------------------------------------------------------------
\* Is the request one that the maps of this kind decide?  Its headers go to the
\* payload maps; the request itself, when it is no upgrade and has no error, to
\* the handler maps, but for the OPTIONS that handle_root_options answers.
Routed(kind) ==
  IF kind = "payloads" THEN served.request = "headers"
  ELSE /\ served.request = "http"
       /\ served.ec = "none"
       /\ ~RootOptions(served.method, served.resource)

\* Is the request an upgrade, that the websocket maps decide?
Upgraded == served.request = "upgrade" /\ served.ec = "none"

\* The resources of a map that lead to r, being its first parts, and of those
\* the longest.
LeadTo(map, r) == DOMAIN map \cap {Cut(r, n) : n \in 1 .. Len(r)}
Nearest(map, r) ==
  {x \in LeadTo(map, r) : \A y \in LeadTo(map, r) : Len(y) <= Len(x)}

\* A request, and its payload, go to the handler of the nearest resource that
\* leads to its own, a trailing slash aside, in the map of its method, and are
\* refused only where no resource does: the loop of find_submatch tries them all.
\* An OPTIONS request for "*" or "/*" is answered before the handler maps are
\* looked at, whatever they have.
ServedByNearest ==
  \A kind \in {"handlers", "payloads"} : Routed(kind) =>
    \A n \in ChooseMap(kind, served.method) :
      served.to.by = Handlers(n, Nearest(maps[n], Strip(served.resource)))

\* A handler whose add_handler or add_payload_handler returned serves the
\* resource that it was added for, whatever is added after it, for every method
\* that has the same map; only one that add_handler took for OPTIONS and "*" or
\* "/*" never does.  A handler of add_websocket_handler is among those of its
\* resource, unless it was added with a trailing slash: the map has it without,
\* and an upgrade is looked up with it.
AddedIsServed ==
  \A k \in DOMAIN adds : adds[k].result = "added" =>
    LET a == adds[k] IN
      /\ /\ a.kind # "websocket" /\ Routed(a.kind)
         /\ ChooseMap(a.kind, a.key) = ChooseMap(a.kind, served.method)
         /\ a.resource = served.resource
         => served.to.by = {k}
      /\ /\ a.kind = "websocket" /\ Upgraded
         /\ a.resource = served.resource
         /\ Strip(a.resource) = a.resource
         => k \in served.to.by
=============================================================================
