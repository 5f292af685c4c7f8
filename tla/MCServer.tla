------------------------------ MODULE MCServer ------------------------------
(***************************************************************************)
(* An instance of Server for TLC.  Each environment differs from a plain   *)
(* one in a few variables, so that every check of the loader refuses and   *)
(* lets through; the options vary one field of a request at a time, and    *)
(* the pairs of fields that the checks relate together.                    *)
(***************************************************************************)
EXTENDS Server

PlainEnv ==
    [endpoint |-> [Base EXCEPT !.path = <<"v1", "">>], allow_endpoint_override |-> "",
     logprobs |-> "", presets |-> {}, max_page_bytes |-> Unset,
     max_stream_buffered_bytes |-> Unset, max_buffered_bytes |-> Unset, http_port |-> Unset,
     http_host |-> <<>>, http_token |-> FALSE, metrics |-> TRUE]

MCEndpoints ==
    {NoEndpoint, [Base EXCEPT !.path = <<"a", "chat", "completions">>, !.query = TRUE],
     [Base EXCEPT !.host = "VLM", !.port = 8080], [Base EXCEPT !.user = TRUE],
     [Base EXCEPT !.scheme = "https"], [Base EXCEPT !.port = 0], [Base EXCEPT !.port = BadPort],
     [Base EXCEPT !.host = ""]}

Sizes(p, s, b) ==
    [PlainEnv EXCEPT !.max_page_bytes = p, !.max_stream_buffered_bytes = s, !.max_buffered_bytes = b]

Http(p, h, t) == [PlainEnv EXCEPT !.http_port = p, !.http_host = h, !.http_token = t]
OffLoopback == {<<"0", "0", "0", "0">>, <<"127", "0", "0", "example">>}

MCEnvs ==
    {[PlainEnv EXCEPT !.endpoint = e] : e \in MCEndpoints}
    \cup {[PlainEnv EXCEPT !.allow_endpoint_override = b] : b \in {"1", "yes"}}
    \cup {[PlainEnv EXCEPT !.logprobs = b, !.metrics = FALSE] : b \in {"false", "off"}}
    \cup {Sizes(Junk, Unset, Unset), Sizes(5, Unset, Unset), Sizes(3, 2, Unset), Sizes(3, Unset, 2),
          Sizes(3, 3, 3)}
    \cup {Http(Unset, h, t) : h \in OffLoopback, t \in BOOLEAN}
    \cup {Http(Junk, <<>>, FALSE), Http(0, <<"0", "0", "0", "0">>, FALSE)}

PlainOptions ==
    [endpoint |-> NoEndpoint, preset |-> "UNSPECIFIED", preset_raw |-> "",
     response_format |-> "UNSPECIFIED", response_format_raw |-> "", top_logprobs |-> 0]

MCOptions ==
    {[PlainOptions EXCEPT !.endpoint = e] :
         e \in {[Base EXCEPT !.path = <<"v1", "chat", "completions">>, !.port = 80],
               [Base EXCEPT !.host = "six"], [Base EXCEPT !.scheme = "https"]}}
    \cup {[PlainOptions EXCEPT !.preset = p, !.preset_raw = m] :
             p \in {"RAW", "GOT_OCR_2", "unknown"}, m \in {"", "model"}}
    \cup {[PlainOptions EXCEPT !.response_format = f, !.response_format_raw = r] :
             f \in {"UNSPECIFIED", "DOCTAGS", "MINERU2", "unknown"},
             r \in {"", "doctags", "mineru2", "unknown"}}
    \cup {[PlainOptions EXCEPT !.top_logprobs = n] : n \in {20, 21}}

GoodBody ==
    [large |-> FALSE, object |-> TRUE, has_options |-> "good", options |-> PlainOptions,
     pages |-> <<"page">>]

MCBodies ==
    {[GoodBody EXCEPT !.options = o] : o \in MCOptions}
    \cup {[GoodBody EXCEPT !.large = TRUE], [GoodBody EXCEPT !.object = FALSE],
          [GoodBody EXCEPT !.has_options = "absent"], [GoodBody EXCEPT !.has_options = "bad"],
          [GoodBody EXCEPT !.pages = <<>>], [GoodBody EXCEPT !.pages = <<"page", "bad">>],
          [GoodBody EXCEPT !.pages = <<"not an array">>]}

MCPaths == {"/healthz", "/v1/convert", "/v1/convert/stream", "/"}
=============================================================================
