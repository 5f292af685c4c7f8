------------------------------ MODULE Endpoint ------------------------------
(***************************************************************************)
(* Endpoints (src/vlm_client.cpp, parse_endpoint).  An endpoint is given   *)
(* by the parts the parser splits it into: the path is the sequence of the *)
(* segments after each slash, "" for a segment that is empty.              *)
(***************************************************************************)
EXTENDS Integers, Sequences, SequencesExt

(* Hosts, with the case-blind form same_endpoint compares. *)
Lower == [vlm |-> "vlm", VLM |-> "vlm", six |-> "six"]

(* A port that is not given, and one that is no number. *)
NoPort == -1
BadPort == -2

(* A base with an ordinary host and no path, and the empty string. *)
Base == [scheme |-> "http", clean |-> TRUE, user |-> FALSE, host |-> "vlm", port |-> NoPort,
         path |-> <<>>, query |-> FALSE, fragment |-> FALSE]
NoEndpoint == [Base EXCEPT !.scheme = ""]

(* The reasons parse_endpoint refuses an endpoint for. *)
EndpointError(e) ==
    \/ e.scheme # "http" \/ ~e.clean \/ e.user
    \/ e.host \notin DOMAIN Lower
    \/ e.port # NoPort /\ e.port \notin 1 .. 65535

(* Trailing slashes would produce "//v1/chat/completions". *)
Trim[path \in Seq(STRING)] ==
    IF path # <<>> /\ Last(path) = "" THEN Trim[Front(path)] ELSE path

(* A full completions URL is used as is, a base that ends in /v1 gets the  *)
(* rest of the route, any other base the whole route.                      *)
Route(path) ==
    IF IsSuffix(<<"chat", "completions">>, path) THEN path
    ELSE IF IsSuffix(<<"v1">>, path) THEN path \o <<"chat", "completions">>
    ELSE path \o <<"v1", "chat", "completions">>

(* What is kept of an endpoint; a fragment never leaves the client. *)
ParseEndpoint(e) ==
    [host |-> Lower[e.host], port |-> IF e.port = NoPort THEN 80 ELSE e.port,
     target |-> Route(Trim[e.path]), query |-> e.query]

(* Scheme, host and port: what may be shown of an endpoint. *)
EndpointOrigin(e) == [host |-> e.host, port |-> e.port]

SameEndpoint(left, right) ==
    /\ ~EndpointError(left) /\ ~EndpointError(right)
    /\ ParseEndpoint(left) = ParseEndpoint(right)
=============================================================================
