---------------------------- MODULE HttpGateway ----------------------------
(***************************************************************************)
(* The HTTP/JSON front end (src/http_gateway.cpp): requests answered by    *)
(* httplib's threads while the gateway listens.  A request's `lines` are   *)
(* what its answer carries: the events, the trailer and the error, as JSON *)
(* array elements (/v1/convert) or as lines sent one by one                *)
(* (/v1/convert/stream).  The pipeline behind it is ConvertPages, here by  *)
(* what it hands to write() and by the status it returns.                  *)
(***************************************************************************)
EXTENDS Config, FiniteSets

CONSTANTS
    Requests,   \* bound: the requests of a behaviour
    Paths,      \* request paths
    Bodies,     \* request bodies; a large one is past http_max_body_bytes
    MaxEvents   \* bound: events the pipeline writes for one page

VARIABLES
    config,     \* config_
    gateway,    \* off, listening, stopping, stopped
    request     \* the requests

convertPath == "/v1/convert"
streamPath == "/v1/convert/stream"

(* http_status_for: the request-shape errors are 4xx, the rest is 500. *)
HttpStatus(code) ==
    CASE code = "OK" -> 200
      [] code = "INVALID_ARGUMENT" -> 400
      [] code = "UNAUTHENTICATED" -> 401
      [] code = "PERMISSION_DENIED" -> 403
      [] code = "RESOURCE_EXHAUSTED" -> 413
      [] code = "UNIMPLEMENTED" -> 501
      [] OTHER -> 500

(* parse_convert_body: an object, its options (an empty message when they  *)
(* are absent), then one message per page.                                 *)
BodyOk(b) ==
    /\ b.object /\ b.has_options # "bad"
    /\ b.pages # <<"not an array">> /\ \A i \in DOMAIN b.pages : b.pages[i] = "page"

NoRequest ==
    [phase |-> "idle", path |-> "none", bearer |-> FALSE, here |-> FALSE, status |-> 0,
     verdict |-> "none", endpoint |-> NoEndpoint, format |-> "none", pages |-> 0,
     written |-> 0, lines |-> <<>>, halted |-> FALSE, serialize_failed |-> FALSE]

Answered(r, status, lines) == [r EXCEPT !.phase = "answered", !.status = status, !.lines = @ \o lines]

(* What a body that parsed starts: the checks of the options first. *)
Started(r, body) ==
    LET o == body.options
        verdict == IF body.has_options = "absent" THEN "INVALID_ARGUMENT" ELSE OptionsVerdict(config, o)
    IN  [r EXCEPT !.phase = "running", !.verdict = verdict,
                  !.pages = Len(body.pages),
                  !.endpoint = IF verdict = "accepted" THEN EndpointOf(config, o) ELSE NoEndpoint,
                  !.format = IF verdict = "accepted" THEN FinalFormat(o) ELSE "none",
                  \* the chunked answer's headers leave before the pipeline runs
                  !.status = IF r.path = streamPath THEN 200 ELSE 0]

(* Mutant: the token is asked for on the converting routes one by one, and *)
(* the stream is forgotten.                                                *)
NeedsTokenLax(path) == config.http_token /\ path = convertPath

(* With a token configured, every route but /healthz needs it. *)
NeedsToken(path) == config.http_token /\ path # "/healthz"

(* A request is routed: the pre-routing handler, httplib's payload cap,    *)
(* the body's parse.                                                       *)
Receive(id, path, bearer, body) ==
    LET r == [NoRequest EXCEPT !.path = path, !.bearer = bearer, !.here = TRUE]
    IN  /\ gateway = "listening" /\ request[id].phase = "idle"
        /\ request' = [request EXCEPT ![id] =
               IF NeedsToken(path) /\ ~bearer THEN Answered(r, 401, <<"error">>)
               ELSE IF path = "/healthz" THEN Answered(r, 200, <<>>)
               ELSE IF path \notin {convertPath, streamPath} THEN Answered(r, 404, <<>>)
               ELSE IF body.large THEN Answered(r, 413, <<>>)
               ELSE IF ~BodyOk(body) THEN Answered(r, 400, <<"error">>)
               ELSE Started(r, body)]
        /\ UNCHANGED <<config, gateway>>

(* Mutant: a line the sink refused is taken for sent. *)
WriteUnchecked(r, line, serializes) ==
    IF serializes /\ r.here THEN [r EXCEPT !.lines = Append(@, line), !.written = @ + 1]
    ELSE [r EXCEPT !.written = @ + 1, !.serialize_failed = ~serializes]

(* write(): the event as JSON, collected or sent on.  False, and with it   *)
(* the end of the pipeline, when it does not serialize or when the sink    *)
(* refuses the line.                                                       *)
Write(r, line, serializes) ==
    IF serializes /\ (r.path = streamPath => r.here)
    THEN [r EXCEPT !.lines = Append(@, line), !.written = @ + 1]
    ELSE [r EXCEPT !.halted = TRUE, !.written = @ + 1,
                   !.serialize_failed = r.path = convertPath /\ ~serializes]

PipelineWrites(id) ==
    LET r == request[id]
    IN  /\ r.phase = "running" /\ r.verdict = "accepted" /\ ~r.halted
        /\ r.written < MaxEvents * r.pages
        /\ \E serializes \in BOOLEAN : request' = [request EXCEPT ![id] = Write(r, "event", serializes)]
        /\ UNCHANGED <<config, gateway>>

(* What the read loop may refuse a page with. *)
ReadErrors == {"INVALID_ARGUMENT", "RESOURCE_EXHAUSTED"}

(* The statuses the pipeline may return, from the state it is in: a halted *)
(* consumer or one that left is CANCELLED, unless the read loop already    *)
(* had refused a message.                                                  *)
PipelineStatuses(r) ==
    IF r.verdict # "accepted" THEN {r.verdict}
    ELSE IF r.halted \/ ~r.here THEN {"CANCELLED"} \cup ReadErrors
    ELSE IF r.pages = 0 THEN {"INVALID_ARGUMENT"}
    ELSE {"ABORTED"} \cup ReadErrors \cup (IF r.written = MaxEvents * r.pages THEN {"OK"} ELSE {})

(* Mutant: the error of a conversion that sent events is left out. *)
ReturnSilently(id, code) ==
    LET r == request[id]
        done == IF code = "OK" THEN Write(r, "trailer", TRUE) ELSE r
    IN  /\ r.phase = "running" /\ code \in PipelineStatuses(r)
        /\ request' = [request EXCEPT ![id] =
               IF r.path = streamPath
               THEN Answered(done, 200, IF code = "OK" \/ done.lines # <<>> THEN <<>> ELSE <<"error">>)
               ELSE Answered(done, HttpStatus(code), IF code = "OK" THEN <<>> ELSE <<"error">>)]
        /\ UNCHANGED <<config, gateway>>

(* The pipeline returns: after an OK the trailer was written; the events   *)
(* so far ride with an error.  A stream's status is already committed, and *)
(* its error line reaches a client that is still there.                    *)
PipelineReturns(id, code) ==
    LET r == request[id]
        done == IF code = "OK" THEN Write(r, "trailer", TRUE) ELSE r
        final == IF done.serialize_failed /\ code = "OK" THEN "INTERNAL" ELSE code
    IN  /\ r.phase = "running" /\ code \in PipelineStatuses(r)
        /\ request' = [request EXCEPT ![id] =
               IF r.path = streamPath
               THEN Answered(done, 200, IF code = "OK" \/ ~r.here THEN <<>> ELSE <<"error">>)
               ELSE Answered(done, HttpStatus(final), IF final = "OK" THEN <<>> ELSE <<"error">>)]
        /\ UNCHANGED <<config, gateway>>

(* The client hangs up: is_connection_closed, or a sink not writable. *)
HangUp(id) ==
    /\ request[id].phase = "running" /\ request[id].here
    /\ request' = [request EXCEPT ![id].here = FALSE]
    /\ UNCHANGED <<config, gateway>>

GatewayNext ==
    \E id \in Requests :
        \/ \E path \in Paths, bearer \in BOOLEAN, body \in Bodies : Receive(id, path, bearer, body)
        \/ PipelineWrites(id)
        \/ \E code \in PipelineStatuses(request[id]) : PipelineReturns(id, code)
        \/ HangUp(id)
=============================================================================
