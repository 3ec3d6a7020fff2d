------------------------------ MODULE HttpEdge ------------------------------
(***************************************************************************)
(* The edge of the service, every request on its own: the validators, the  *)
(* exception handlers, the middleware stack with its request id, access    *)
(* log and metrics, the client address behind the proxies, the 429 and the *)
(* pages of the list.  No state outlives a request but what is counted and *)
(* logged, which is part of the outcome here: operators only.              *)
(***************************************************************************)
EXTENDS Integers, Sequences, SequencesExt, FiniteSets, Sieve

-----------------------------------------------------------------------------
(* Bodies of POST /api/complaints.  A text is the number of its code       *)
(* points and how many of them JavaScript counts as two units.             *)

TEXT_MIN == 10
TEXT_MAX == 2000
LOCATION_MIN == 3
LOCATION_MAX == 200
CONTACT_MAX == 120

Contacts == {"none", "empty", "email", "phone", "neither", "overlong"}

Length(field, n, low, high) ==
    IF n < low THEN {[field |-> field, code |-> "too_short"]}
    ELSE IF n > high THEN {[field |-> field, code |-> "too_long"]} ELSE {}

_contact_is_email_or_phone(contact) ==
    CASE contact = "overlong" ->
            {[field |-> "reporter_contact", code |-> "too_long"]}
      [] contact = "neither" ->
            {[field |-> "reporter_contact", code |-> "invalid"]}
      [] OTHER -> {}

\* The errors of a body, as _to_field_error names them.
ComplaintCreate(body) ==
    IF body.json = "missing" THEN {[field |-> "body", code |-> "missing"]}
    ELSE IF body.json = "broken"  \* the place of the error is its field
    THEN {[field |-> "position", code |-> "invalid_json"]}
    ELSE Length("text", body.text.points, TEXT_MIN, TEXT_MAX)
         \cup Length("location", body.location.points,
                     LOCATION_MIN, LOCATION_MAX)
         \cup _contact_is_email_or_phone(body.contact)
         \cup {[field |-> f, code |-> "unexpected_field"] : f \in body.extra}

\* The form's copy of the bounds, in UTF-16 units, and no format of a contact.
Units(text) == text.points + text.wide

validate(body) ==
    Length("text", Units(body.text), TEXT_MIN, TEXT_MAX)
    \cup Length("location", Units(body.location), LOCATION_MIN, LOCATION_MAX)
    \cup {e \in _contact_is_email_or_phone(body.contact) :
             e.code = "too_long"}

\* What the form shows for the fields of a 400: each at its input, or if one
\* has no input, the message of the whole.
Inputs == {"text", "location", "reporter_contact"}

\* Mutant of Shown: what has no input is left out.
ShownAtInputs(errors) == {e.field : e \in errors} \cap Inputs

Shown(errors) ==
    LET known == {e \in errors : e.field \in Inputs}
    IN  IF known # {} /\ known = errors THEN {e.field : e \in known}
                                       ELSE {"form"}

-----------------------------------------------------------------------------
(* Request ids.  "v4" and "V4" are one UUIDv4 in small and in capital      *)
(* letters; "new" and "other" are generated.                               *)

RequestIds == {"absent", "junk", "v1", "v4", "V4"}

Lower(id) == IF id = "V4" THEN "v4" ELSE id

\* Mutant of _is_uuid4: any UUID will do.
IsUuid(candidate) == candidate \in {"v1", "v4", "V4"}

_is_uuid4(candidate) == candidate \in {"v4", "V4"}

\* The id of an error body: the middleware's, if it is one.
request_id_of(rid) ==
    IF rid \in {"v4", "V4", "new"} THEN Lower(rid) ELSE "other"

-----------------------------------------------------------------------------
(* The stack.  A passage is what a layer hands outwards: a response or an  *)
(* exception, what was counted and logged, and the ContextVar that stamps  *)
(* log lines with the request's id.                                        *)

\* What a route raises, with the status and code its handler gives it.
Handlers ==
    [path |-> <<404, "not_found">>, body |-> <<400, "validation_error">>,
     NotFound |-> <<404, "not_found">>,
     InvalidTransition |-> <<409, "invalid_transition">>,
     NotReady |-> <<503, "not_ready">>,
     HTTP404 |-> <<404, "not_found">>, HTTP405 |-> <<405, "http_error">>]

\* Routes, and what can be raised on each.
Templates == {"/api/complaints", "/api/complaints/{id}/status", "/ready",
              "/metrics"}
RaisedOn ==
    [r \in Templates \cup {"unmatched"} |->
        CASE r = "/api/complaints" -> {"nothing", "body", "HTTP405", "crash"}
          [] r = "/api/complaints/{id}/status" ->
                {"nothing", "path", "body", "NotFound", "InvalidTransition",
                 "HTTP405", "crash"}
          [] r = "/ready" -> {"nothing", "NotReady"}
          [] r = "/metrics" -> {"nothing"}
          [] r = "unmatched" -> {"HTTP404"}]

Requests ==
    {q \in [route : Templates \cup {"unmatched"}, id : RequestIds,
            raises : UNION Range(RaisedOn), over : BOOLEAN] :
        /\ q.raises \in RaisedOn[q.route]
        /\ q.over => q.route = "/api/complaints" /\ q.raises # "HTTP405"}

error_response(status, code, rid, route) ==
    [raised |-> FALSE, status |-> status, code |-> code, route |-> route,
     header |-> request_id_of(rid), body |-> request_id_of(rid),
     counted |-> {}, lines |-> {}, var |-> rid]

\* Inside the exception handlers of the application; a success has no id of
\* its own, and a crash has no response yet.
Route(q, rid) ==
    CASE q.raises = "nothing" ->
            [error_response(200, "ok", rid, q.route) EXCEPT !.body = "none"]
      [] q.raises = "crash" ->
            [error_response(0, "none", rid, q.route) EXCEPT !.raised = TRUE]
      [] OTHER -> error_response(Handlers[q.raises][1],
                                 Handlers[q.raises][2], rid, q.route)

\* A refused request has met no router.
RateLimitMiddleware(q, rid) ==
    IF q.over THEN error_response(429, "rate_limited", rid, "unmatched")
              ELSE Route(q, rid)

\* Mutant of PrometheusMiddleware: it counts what a route answers and not
\* what the layers between them do.
CountsRouted(q, rid) ==
    LET p == RateLimitMiddleware(q, rid)
    IN  IF p.raised \/ q.route = "/metrics" \/ q.over THEN p
        ELSE [p EXCEPT !.counted = {<<p.route, p.status>>}]

PrometheusMiddleware(q, rid) ==
    LET p == RateLimitMiddleware(q, rid)
    IN  IF p.raised \/ q.route = "/metrics" THEN p
        ELSE [p EXCEPT !.counted = {<<p.route, p.status>>}]

AccessLogMiddleware(q, rid) ==
    LET p == PrometheusMiddleware(q, rid)
    IN  IF p.raised \/ q.route \in {"/ready", "/metrics"} THEN p
        ELSE [p EXCEPT !.lines = {[log |-> "access", id |-> p.var]}]

\* The variable is reset on the way out of an exception too.
RequestIDMiddleware(q) ==
    LET rid == IF _is_uuid4(q.id) THEN q.id ELSE "new"
        p == AccessLogMiddleware(q, rid)
    IN  IF p.raised THEN [p EXCEPT !.var = "-"]
        ELSE [p EXCEPT !.var = "-", !.header = rid]

\* An exception that no layer took is logged and answered outside them all;
\* the request still knows its id.
_on_unhandled(q, p) ==
    LET rid == IF _is_uuid4(q.id) THEN q.id ELSE "new"
    IN  [error_response(500, "internal_error", rid, p.route) EXCEPT
            !.lines = p.lines \cup {[log |-> "unhandled", id |-> p.var]},
            !.counted = p.counted]

Serve(q) ==
    LET p == RequestIDMiddleware(q)
    IN  IF p.raised THEN _on_unhandled(q, p) ELSE p

-----------------------------------------------------------------------------
(* The 429: time in quarters of a second.                                  *)

\* Redis rounds what is left of a window to the nearest second.
RedisTTL(left) == (left + 2) \div 4

AtLeastOne(n) == IF n > 1 THEN n ELSE 1

\* Mutant of rate_limited_response: no clamp.
Unclamped(left, now) ==
    [retry_after |-> RedisTTL(left), reset |-> now \div 4 + RedisTTL(left)]

rate_limited_response(left, now) ==
    LET retry_after == AtLeastOne(AtLeastOne(RedisTTL(left)))
    IN  [retry_after |-> retry_after, reset |-> now \div 4 + retry_after]

-----------------------------------------------------------------------------
(* The client's address.  A proxy appends the address it was called from.  *)

\* X-Forwarded-For after the request went through the proxies of path.
Forwarded(sent, citizen, path) ==
    IF path = <<>> THEN sent
    ELSE sent \o <<citizen>> \o SubSeq(path, 1, Len(path) - 1)

_peer_host(citizen, path) == IF path = <<>> THEN citizen ELSE Last(path)

\* Mutant of client_ip: counts from the left.
LeftmostIp(header, peer, trusted_hops) ==
    LET xff == Without(header, "")
    IN  IF Len(xff) < trusted_hops \/ trusted_hops <= 0 THEN peer
        ELSE xff[trusted_hops]

client_ip(header, peer, trusted_hops) ==
    LET xff == Without(header, "")
    IN  IF trusted_hops <= 0 \/ Len(xff) < trusted_hops THEN peer
        ELSE xff[Len(xff) - trusted_hops + 1]

\* The proxies before the backend and TRUSTED_PROXY_HOPS: nginx of compose,
\* and the ingress, which sends /api straight to the backend.
Compose == [path |-> <<"nginx">>, hops |-> 1]
OverlayDev == [path |-> <<"ingress">>, hops |-> 1]
OverlayProd == [path |-> <<"ingress">>, hops |-> 2]

-----------------------------------------------------------------------------
(* Pages of a list.  The statement orders its rows by one column; rows of  *)
(* equal keys come in any order, another one each time.                    *)

Orders(keys) ==
    {p \in [1 .. Len(keys) -> 1 .. Len(keys)] :
        /\ \A i, j \in 1 .. Len(keys) : i # j => p[i] # p[j]
        /\ \A i \in 1 .. Len(keys) - 1 : keys[p[i]] <= keys[p[i + 1]]}

LeastOf(a, b) == IF a < b THEN a ELSE b

\* Mutant of list_page: pages counted from zero.
PageFromZero(order, page, page_size) ==
    LET items == SubSeq(order, page * page_size + 1,
                        LeastOf(Len(order), (page + 1) * page_size))
    IN  [items |-> items, total |-> IF items = <<>> THEN 0 ELSE Len(order)]

list_page(order, page, page_size) ==
    LET items == SubSeq(order, (page - 1) * page_size + 1,
                        LeastOf(Len(order), page * page_size))
    IN  [items |-> items, total |-> IF items = <<>> THEN 0 ELSE Len(order)]

list_complaints(order, page, page_size) ==
    LET listed == list_page(order, page, page_size)
    IN  [items |-> listed.items, total |-> listed.total,
         pages |-> (listed.total + page_size - 1) \div page_size]
=============================================================================
