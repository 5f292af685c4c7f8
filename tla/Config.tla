------------------------------- MODULE Config -------------------------------
(***************************************************************************)
(* load_config_from_env (src/config.cpp): the environment is a record with *)
(* a field per variable that the rest of the model tells apart.  A value   *)
(* that is refused stops the server before anything listens.               *)
(***************************************************************************)
EXTENDS ConvertOptions

(* A size that is not set, and a string that is no number. *)
Unset == -1
Junk == -2

(* An integer in range, or the fallback. *)
SizeOk(raw, minimum, maximum) == raw = Unset \/ raw \in minimum .. maximum
ConfiguredSize(raw, fallback) == IF raw = Unset THEN fallback ELSE raw

(* true, 1, false or 0: a typo must not flip a default. *)
BoolOk(raw) == raw \in {"", "true", "1", "false", "0"}
ConfiguredBool(raw, fallback) == IF raw = "" THEN fallback ELSE raw \in {"true", "1"}

(* localhost, ::1, or four numbers that start with 127.  A host is a name  *)
(* or the sequence of its labels.                                          *)
IsLoopback(host) ==
    \/ host \in {<<"localhost">>, <<"::1">>, <<"[::1]">>}
    \/ Len(host) = 4 /\ host[1] = "127" /\ \A i \in 2 .. 4 : host[i] \in {"0", "1"}

(* Sizes are counted in pages of the smallest cap. *)
DefaultPage == 2
MaxPage == 4
MaxBuffered == 64

(* 0 stands for 0 and for the empty string, which turn the listener off. *)
HttpPort(env) == ConfiguredSize(env.http_port, 50059)
HttpHost(env) == IF env.http_host = <<>> THEN <<"127", "0", "0", "1">> ELSE env.http_host
PageCap(env) == ConfiguredSize(env.max_page_bytes, DefaultPage)

(* The checks of the loader, with the least a buffer cap may be.  Off      *)
(* loopback, callers must authenticate.                                    *)
ConfigOkWith(env, leastBuffer) ==
    /\ env.endpoint = NoEndpoint \/ ~EndpointError(env.endpoint)
    /\ BoolOk(env.allow_endpoint_override) /\ BoolOk(env.logprobs)
    /\ SizeOk(env.max_page_bytes, 1, MaxPage)
    /\ SizeOk(env.max_stream_buffered_bytes, leastBuffer, MaxBuffered)
    /\ SizeOk(env.max_buffered_bytes, leastBuffer, MaxBuffered)
    /\ SizeOk(env.http_port, 0, 65535)
    /\ HttpPort(env) # 0 /\ ~IsLoopback(HttpHost(env)) => env.http_token

(* Mutant: a buffer may hold less than one page. *)
ConfigOkUnrelated(env) == ConfigOkWith(env, 1)

(* A page that fits no budget could never be admitted. *)
ConfigOk(env) == ConfigOkWith(env, PageCap(env))

(* The configuration; the buffer caps default to a multiple of the page's. *)
LoadConfig(env) ==
    [endpoint |-> env.endpoint,
     allow_endpoint_override |-> ConfiguredBool(env.allow_endpoint_override, FALSE),
     request_logprobs |-> ConfiguredBool(env.logprobs, TRUE),
     presets |-> env.presets,
     max_page_bytes |-> PageCap(env),
     max_stream_buffered_bytes |-> ConfiguredSize(env.max_stream_buffered_bytes, 4 * PageCap(env)),
     max_buffered_bytes |-> ConfiguredSize(env.max_buffered_bytes, 16 * PageCap(env)),
     http_port |-> HttpPort(env), http_host |-> HttpHost(env), http_token |-> env.http_token,
     metrics |-> env.metrics]
=============================================================================
