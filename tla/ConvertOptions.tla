--------------------------- MODULE ConvertOptions ---------------------------
(***************************************************************************)
(* What a ConvertPages call does with its ConvertOptions before it reads a *)
(* page (src/service/vlm_convert_service.cpp, src/presets.cpp), and what   *)
(* GetServiceInfo advertises of it.                                        *)
(***************************************************************************)
EXTENDS Endpoint

Formats == {"DOCTAGS", "MARKDOWN", "MINERU2"}

(* kPresets: two families tell the rules apart, each with its format. *)
PresetFormat == [GRANITE_DOCLING |-> "DOCTAGS", GOT_OCR_2 |-> "MARKDOWN"]
PresetNames == [granite |-> "GRANITE_DOCLING", got |-> "GOT_OCR_2"]

(* docling's spelling of the formats; any other string names none. *)
FromDocling == [doctags |-> "DOCTAGS", markdown |-> "MARKDOWN", mineru2 |-> "MINERU2"]

Served(format) == format \in Formats \ {"MINERU2"}

MaxTopLogprobs == 20

(* resolve_request: the model on the wire and the format, or none. *)
Preset(o) == IF o.preset = "UNSPECIFIED" THEN "GRANITE_DOCLING" ELSE o.preset
Resolves(o) == IF o.preset = "RAW" THEN o.preset_raw # "" ELSE Preset(o) \in DOMAIN PresetFormat
FormatOf(o) ==
    IF o.response_format # "UNSPECIFIED" THEN o.response_format
    ELSE IF o.preset = "RAW" THEN "DOCTAGS" ELSE PresetFormat[Preset(o)]

Override(c, o) == o.endpoint # NoEndpoint /\ ~SameEndpoint(o.endpoint, c.endpoint)
EndpointOf(c, o) == IF Override(c, o) THEN o.endpoint ELSE c.endpoint

(* The format the pages are mapped with: the docling spelling, when given. *)
FinalFormat(o) == IF o.response_format_raw # "" THEN FromDocling[o.response_format_raw] ELSE FormatOf(o)

(* Mutant: an override is refused only on a server that has an endpoint. *)
EndpointVerdictLax(c, o) ==
    IF c.endpoint # NoEndpoint /\ Override(c, o) /\ ~c.allow_endpoint_override
    THEN "PERMISSION_DENIED"
    ELSE IF EndpointOf(c, o) = NoEndpoint THEN "FAILED_PRECONDITION"
    ELSE IF EndpointError(EndpointOf(c, o)) THEN "INVALID_ARGUMENT"
    ELSE "accepted"

EndpointVerdict(c, o) ==
    IF Override(c, o) /\ ~c.allow_endpoint_override THEN "PERMISSION_DENIED"
    ELSE IF EndpointOf(c, o) = NoEndpoint THEN "FAILED_PRECONDITION"
    ELSE IF EndpointError(EndpointOf(c, o)) THEN "INVALID_ARGUMENT"
    ELSE "accepted"

(* Mutant: whether the format is served is asked before docling's spelling *)
(* of it is read.                                                          *)
FormatVerdictEarly(o) ==
    IF ~Resolves(o) \/ FormatOf(o) \notin Formats THEN "INVALID_ARGUMENT"
    ELSE IF ~Served(FormatOf(o)) THEN "UNIMPLEMENTED"
    ELSE IF o.response_format_raw \notin {""} \cup DOMAIN FromDocling THEN "INVALID_ARGUMENT"
    ELSE "accepted"

FormatVerdict(o) ==
    IF ~Resolves(o) \/ FormatOf(o) \notin Formats THEN "INVALID_ARGUMENT"
    ELSE IF /\ o.response_format_raw # ""
            /\ \/ o.response_format_raw \notin DOMAIN FromDocling
               \/ o.response_format \notin {"UNSPECIFIED", FromDocling[o.response_format_raw]}
    THEN "INVALID_ARGUMENT"
    ELSE IF ~Served(FinalFormat(o)) THEN "UNIMPLEMENTED"
    ELSE "accepted"

(* The checks on the options, in the code's order. *)
OptionsVerdict(c, o) ==
    IF EndpointVerdict(c, o) # "accepted" THEN EndpointVerdict(c, o)
    ELSE IF FormatVerdict(o) # "accepted" THEN FormatVerdict(o)
    ELSE IF o.top_logprobs > MaxTopLogprobs THEN "INVALID_ARGUMENT"
    ELSE IF o.top_logprobs > 0 /\ ~c.request_logprobs THEN "FAILED_PRECONDITION"
    ELSE "accepted"

(* GetServiceInfo: no more than the endpoint's origin, the presets the     *)
(* endpoint claims to serve, the formats served.                           *)
ServiceInfo(c) ==
    LET known == c.presets \cap DOMAIN PresetNames
        some == c.endpoint # NoEndpoint
    IN  [endpoint |-> IF some THEN EndpointOrigin(c.endpoint) ELSE NoEndpoint,
         presets |-> IF ~some THEN {}
                     ELSE IF c.presets = {} THEN DOMAIN PresetFormat
                     ELSE {PresetNames[n] : n \in known},
         raw_presets |-> IF some THEN c.presets \ known ELSE {},
         response_formats |-> {f \in Formats : Served(f)}]
=============================================================================
