---------------------------- MODULE ServerProofs ----------------------------
(***************************************************************************)
(* Proofs about Server for every environment, every set of requests and    *)
(* every number of signals and calls: nothing outlives main(), a request   *)
(* that is accepted was allowed, the largest page fits the buffers, and an *)
(* answer over HTTP says how the conversion ended.                         *)
(***************************************************************************)
EXTENDS Server, FiniteSetTheorems, TLAPS

Fields == DOMAIN NoRequest

(* Where main() is once shutdown_thread exists. *)
Threaded == {"wait", "stop_http", "wake", "join_shutdown", "join_metrics", "exit0"}

TypeOK ==
    /\ main \in {"config", "grpc", "http", "unwind", "threads", "exit1"} \cup Threaded
    /\ rpcs \in Nat
    /\ grpc \in {"none", "serving", "draining", "down"}
    /\ gateway \in {"off", "listening", "stopping", "stopped"}
    /\ shutdown \in {"none", "reading", "shutting", "ended"}
    /\ metrics \in {"none", "waiting", "ended"}
    /\ DOMAIN request = Requests
    /\ \A id \in Requests : DOMAIN request[id] = Fields

(* The configuration in use is one that the loader let through. *)
Configured ==
    /\ config = LoadConfig(env)
    /\ main \notin {"config", "exit1"} => ConfigOk(env)
    /\ gateway # "off" => ConfigOk(env) /\ config.http_port # 0

(* What is up, by where main() is. *)
UpDown ==
    /\ gateway = "listening" => main \in {"threads", "wait", "stop_http"}
    /\ gateway = "stopping" => main = "stop_http"
    /\ gateway = "stopped" => main \in {"wake", "join_shutdown", "join_metrics", "exit0"}
    /\ Handling => gateway \in {"listening", "stopping"}
    /\ grpc = "none" => main \in {"config", "grpc", "exit1"}
    /\ main \in {"config", "grpc"} => grpc = "none"
    /\ main = "unwind" => gateway = "off"
    /\ main = "exit1" => grpc \in {"none", "down"}
    /\ grpc \in {"none", "down"} => rpcs = 0
    /\ shutdown # "none" <=> main \in Threaded
    /\ shutdown = "ended" => grpc = "down"
    /\ main \in {"join_metrics", "exit0"} => shutdown = "ended"
    /\ metrics # "none" => main \in Threaded
    /\ main = "exit0" => metrics # "waiting"

IInv == TypeOK /\ Configured /\ UpDown /\ AcceptedIsAllowed
-----------------------------------------------------------------------------
LEMMA InitLemma == Init => IInv
<1> SUFFICES ASSUME Init PROVE IInv
  OBVIOUS
<1> USE DEF Init
<1>1. TypeOK
  BY DEF TypeOK, Fields, Threaded
<1>2. Configured
  BY DEF Configured
<1>3. UpDown
  BY DEF UpDown, Handling, Threaded, NoRequest
<1>4. AcceptedIsAllowed
  BY DEF AcceptedIsAllowed, NoRequest
<1> QED BY <1>1, <1>2, <1>3, <1>4 DEF IInv

(* A step that leaves the requests and the configuration alone. *)
LEMMA AllowedUnchanged ==
    ASSUME AcceptedIsAllowed, UNCHANGED <<config, request>> PROVE AcceptedIsAllowed'
BY DEF AcceptedIsAllowed

LEMMA MainKeeps == ASSUME IInv, MainStep \/ WaitReturns PROVE IInv'
<1> USE AllowedUnchanged
    DEF IInv, TypeOK, Configured, UpDown, Threaded, Handling, threadVars, gatewayVars, MainGoes
<1>1. CASE Load
  BY <1>1 DEF Load
<1>2. CASE StartGrpc
  BY <1>2 DEF StartGrpc
<1>3. CASE StartHttp
  BY <1>3 DEF StartHttp
<1>4. CASE Unwind
  BY <1>4 DEF Unwind
<1>5. CASE StartThreads
  BY <1>5 DEF StartThreads
<1>6. CASE StopHttp
  BY <1>6 DEF StopHttp
<1>7. CASE JoinHttp
  BY <1>7 DEF JoinHttp
<1>8. CASE Wake
  BY <1>8 DEF Wake
<1>9. CASE JoinShutdown
  BY <1>9 DEF JoinShutdown
<1>10. CASE JoinMetrics
  BY <1>10 DEF JoinMetrics
<1>11. CASE WaitReturns
  BY <1>11 DEF WaitReturns
<1> QED BY <1>1, <1>2, <1>3, <1>4, <1>5, <1>6, <1>7, <1>8, <1>9, <1>10, <1>11, Zenon DEF MainStep

Beside == ReadPipe \/ ShutdownEnds \/ MetricsEnds \/ RpcStarts \/ RpcEnds \/ Signal

LEMMA BesideKeeps == ASSUME IInv, Beside PROVE IInv'
<1> USE AllowedUnchanged
    DEF IInv, TypeOK, Configured, UpDown, Threaded, Handling, threadVars, gatewayVars
<1>1. CASE ReadPipe
  BY <1>1 DEF ReadPipe
<1>2. CASE ShutdownEnds
  BY <1>2 DEF ShutdownEnds
<1>3. CASE MetricsEnds
  BY <1>3 DEF MetricsEnds
<1>4. CASE RpcStarts
  BY <1>4 DEF RpcStarts
<1>5. CASE RpcEnds
  BY <1>5 DEF RpcEnds
<1>6. CASE Signal
  BY <1>6 DEF Signal
<1> QED BY <1>1, <1>2, <1>3, <1>4, <1>5, <1>6, Zenon DEF Beside

-----------------------------------------------------------------------------
(* The gateway's steps.                                                    *)

(* What a request must be for AcceptedIsAllowed. *)
Allowed(r) ==
    /\ r.verdict # "none" => r.bearer \/ IsLoopback(config.http_host)
    /\ r.verdict = "accepted" =>
          /\ \/ SameEndpoint(r.endpoint, config.endpoint)
             \/ config.allow_endpoint_override /\ ~EndpointError(r.endpoint)
          /\ r.format \in ServiceInfo(config).response_formats

(* The checks let only an endpoint and a format through that are allowed. *)
LEMMA VerdictLemma ==
    ASSUME NEW o, OptionsVerdict(config, o) = "accepted"
    PROVE  /\ \/ SameEndpoint(EndpointOf(config, o), config.endpoint)
              \/ config.allow_endpoint_override /\ ~EndpointError(EndpointOf(config, o))
           /\ FinalFormat(o) \in ServiceInfo(config).response_formats
<1>1. EndpointVerdict(config, o) = "accepted" /\ FormatVerdict(o) = "accepted"
  BY DEF OptionsVerdict
<1>2. ~EndpointError(EndpointOf(config, o))
  BY <1>1 DEF EndpointVerdict
<1>3. ASSUME Override(config, o) PROVE config.allow_endpoint_override
  BY <1>1, <1>3 DEF EndpointVerdict
<1>4. ASSUME ~Override(config, o) PROVE SameEndpoint(EndpointOf(config, o), config.endpoint)
  BY <1>2, <1>4 DEF EndpointOf, SameEndpoint
<1>5. Served(FinalFormat(o))
  BY <1>1 DEF FormatVerdict
<1>6. FinalFormat(o) \in ServiceInfo(config).response_formats
  BY <1>5 DEF Served, ServiceInfo
<1> QED BY <1>2, <1>3, <1>4, <1>6

(* A route that converts is open without a token on loopback only. *)
LEMMA TokenLemma ==
    ASSUME Configured, gateway = "listening", NEW path \in {convertPath, streamPath},
           ~NeedsToken(path)
    PROVE  IsLoopback(config.http_host)
<1>1. ~config.http_token
  BY DEF NeedsToken, convertPath, streamPath
<1>2. config.http_host = HttpHost(env) /\ config.http_port = HttpPort(env)
      /\ config.http_token = env.http_token
  BY DEF Configured, LoadConfig
<1> QED BY <1>1, <1>2 DEF Configured, ConfigOk, ConfigOkWith

(* A step of one request keeps the invariant when it keeps the request's   *)
(* fields and the request is allowed.                                      *)
LEMMA OneRequest ==
    ASSUME IInv, NEW id \in Requests, NEW r, request' = [request EXCEPT ![id] = r],
           DOMAIN r = Fields, Allowed(r), gateway \in {"listening", "stopping"},
           UNCHANGED <<config, gateway, env, main, grpc, rpcs, threadVars>>
    PROVE  IInv'
<1> USE DEF IInv
<1>1. \A x \in Requests : request'[x] = IF x = id THEN r ELSE request[x]
  BY DEF TypeOK
<1>2. TypeOK'
  BY <1>1 DEF TypeOK, threadVars
<1>3. Configured'
  BY DEF Configured
<1>4. UpDown'
  BY DEF UpDown, threadVars
<1>5. AcceptedIsAllowed'
  BY <1>1 DEF AcceptedIsAllowed, Allowed
<1> QED BY <1>2, <1>3, <1>4, <1>5

LEMMA HandleKeeps == ASSUME IInv, Handle PROVE IInv'
<1>1. PICK id \in Requests :
          \/ \E path \in Paths, bearer \in BOOLEAN, body \in Bodies : Receive(id, path, bearer, body)
          \/ PipelineWrites(id)
          \/ \E code \in PipelineStatuses(request[id]) : PipelineReturns(id, code)
          \/ HangUp(id)
  BY DEF Handle, GatewayNext
<1>2. UNCHANGED <<env, main, grpc, rpcs, threadVars>>
  BY DEF Handle
<1> DEFINE q == request[id]
<1>3. DOMAIN q = Fields /\ Allowed(q)
  BY DEF IInv, TypeOK, AcceptedIsAllowed, Allowed
<1>4. q.phase = "running" => gateway \in {"listening", "stopping"}
  BY DEF IInv, UpDown, Handling
<1>5. ASSUME NEW path \in Paths, NEW bearer \in BOOLEAN, NEW body \in Bodies,
             Receive(id, path, bearer, body)
      PROVE  IInv'
  <2> DEFINE r == [NoRequest EXCEPT !.path = path, !.bearer = bearer, !.here = TRUE]
             v == IF NeedsToken(path) /\ ~bearer THEN Answered(r, 401, <<"error">>)
                  ELSE IF path = "/healthz" THEN Answered(r, 200, <<>>)
                  ELSE IF path \notin {convertPath, streamPath} THEN Answered(r, 404, <<>>)
                  ELSE IF body.large THEN Answered(r, 413, <<>>)
                  ELSE IF ~BodyOk(body) THEN Answered(r, 400, <<"error">>)
                  ELSE Started(r, body)
  <2>1. DOMAIN r = Fields /\ r.verdict = "none" /\ r.bearer = bearer /\ r.path = path
    BY DEF Fields, NoRequest
  <2>2. \A status, lines : LET a == Answered(r, status, lines)
                           IN  DOMAIN a = Fields /\ Allowed(a)
    BY <2>1 DEF Answered, Allowed, Fields, NoRequest
  <2>3. ASSUME path \in {convertPath, streamPath}, ~(NeedsToken(path) /\ ~bearer)
        PROVE  DOMAIN Started(r, body) = Fields /\ Allowed(Started(r, body))
    <3>1. DOMAIN Started(r, body) = Fields /\ Started(r, body).bearer = bearer
      BY <2>1 DEF Started, Fields, NoRequest
    <3>2. bearer \/ IsLoopback(config.http_host)
      BY <1>5, <2>3, TokenLemma DEF Receive, IInv
    <3>3. ASSUME Started(r, body).verdict = "accepted"
          PROVE  /\ OptionsVerdict(config, body.options) = "accepted"
                 /\ Started(r, body).endpoint = EndpointOf(config, body.options)
                 /\ Started(r, body).format = FinalFormat(body.options)
      BY <3>3, <2>1 DEF Started, Fields, NoRequest
    <3> QED BY <3>1, <3>2, <3>3, VerdictLemma DEF Allowed
  <2>4. DOMAIN v = Fields /\ Allowed(v)
    <3> HIDE DEF r
    <3> QED BY <2>2, <2>3
  <2>5. /\ request' = [request EXCEPT ![id] = v]
        /\ gateway = "listening" /\ UNCHANGED <<config, gateway>>
    BY <1>5 DEF Receive
  <2> HIDE DEF v
  <2> QED BY <1>2, <2>4, <2>5, OneRequest, Zenon
<1>6. CASE PipelineWrites(id)
  <2>1. \A b \in BOOLEAN : DOMAIN Write(q, "event", b) = Fields /\ Allowed(Write(q, "event", b))
    BY <1>3 DEF Write, Allowed, Fields, NoRequest
  <2> QED BY <1>2, <1>4, <1>6, <2>1, OneRequest, Zenon DEF PipelineWrites
<1>7. ASSUME NEW code, PipelineReturns(id, code) PROVE IInv'
  <2> DEFINE done == IF code = "OK" THEN Write(q, "trailer", TRUE) ELSE q
             final == IF done.serialize_failed /\ code = "OK" THEN "INTERNAL" ELSE code
             v == IF q.path = streamPath
                  THEN Answered(done, 200, IF code = "OK" \/ ~q.here THEN <<>> ELSE <<"error">>)
                  ELSE Answered(done, HttpStatus(final),
                                IF final = "OK" THEN <<>> ELSE <<"error">>)
  <2>1. DOMAIN done = Fields /\ Allowed(done)
    BY <1>3 DEF Write, Allowed, Fields, NoRequest
  <2>2. \A status, lines : LET a == Answered(done, status, lines)
                           IN  DOMAIN a = Fields /\ Allowed(a)
    BY <2>1 DEF Answered, Allowed, Fields, NoRequest
  <2>3. DOMAIN v = Fields /\ Allowed(v)
    <3> HIDE DEF done, final
    <3> QED BY <2>2, ZenonT(30)
  <2>4. /\ request' = [request EXCEPT ![id] = v]
        /\ q.phase = "running" /\ UNCHANGED <<config, gateway>>
    BY <1>7, Zenon DEF PipelineReturns
  <2> HIDE DEF v
  <2> QED BY <1>2, <1>4, <2>3, <2>4, OneRequest, Zenon
<1>8. CASE HangUp(id)
  <2>1. LET a == [q EXCEPT !.here = FALSE] IN DOMAIN a = Fields /\ Allowed(a)
    BY <1>3 DEF Allowed, Fields, NoRequest
  <2>2. request' = [request EXCEPT ![id] = [q EXCEPT !.here = FALSE]]
    BY <1>8 DEF HangUp
  <2> QED BY <1>2, <1>4, <1>8, <2>1, <2>2, OneRequest, Zenon DEF HangUp
<1> QED BY <1>1, <1>5, <1>6, <1>7, <1>8

-----------------------------------------------------------------------------
LEMMA NextLemma == IInv /\ [Next]_vars => IInv'
<1> SUFFICES ASSUME IInv, [Next]_vars PROVE IInv'
  OBVIOUS
<1>1. CASE UNCHANGED vars
  BY <1>1, AllowedUnchanged
  DEF vars, IInv, TypeOK, Configured, UpDown, Handling, threadVars, gatewayVars
<1> QED BY <1>1, MainKeeps, BesideKeeps, HandleKeeps DEF Next, Beside

LEMMA Inductive == Spec => []IInv
BY InitLemma, NextLemma, PTL DEF Spec

(* When main() returns, by whichever return, no request and no RPC is      *)
(* being handled, and every thread was joined, however many there were     *)
(* (main.cpp:110-126).                                                     *)
THEOREM NothingOutlivesMainAlways == Spec => []NothingOutlivesMain
<1>1. IInv => NothingOutlivesMain
  BY DEF IInv, TypeOK, UpDown, Threaded, NothingOutlivesMain, Exited
<1> QED BY <1>1, Inductive, PTL

(* Whatever the environment and the requests, one that is accepted had its *)
(* token, endpoint and format allowed (http_gateway.cpp:151-166,           *)
(* vlm_convert_service.cpp:143-206).                                       *)
THEOREM AcceptedIsAllowedAlways == Spec => []AcceptedIsAllowed
<1>1. IInv => AcceptedIsAllowed
  BY DEF IInv
<1> QED BY <1>1, Inductive, PTL

(* In every environment the loader lets through, the largest page fits in  *)
(* both buffer budgets (config.cpp:124-133).                               *)
THEOREM LargestPageFitsAlways == Spec => []LargestPageFits
<1>1. ASSUME ConfigOk(env), config = LoadConfig(env)
      PROVE  /\ config.max_page_bytes <= config.max_stream_buffered_bytes
             /\ config.max_page_bytes <= config.max_buffered_bytes
  <2>1. PageCap(env) \in Int /\ PageCap(env) >= 0
    <3>1. SizeOk(env.max_page_bytes, 1, MaxPage)
      BY <1>1 DEF ConfigOk, ConfigOkWith
    <3> QED BY <3>1 DEF SizeOk, PageCap, ConfiguredSize, DefaultPage, MaxPage
  <2>2. ASSUME NEW raw, SizeOk(raw, PageCap(env), MaxBuffered), NEW n \in Nat \ {0}
        PROVE  PageCap(env) <= ConfiguredSize(raw, n * PageCap(env))
    BY <2>1, <2>2 DEF SizeOk, ConfiguredSize, MaxBuffered
  <2> QED BY <1>1, <2>2 DEF ConfigOk, ConfigOkWith, LoadConfig
<1>2. IInv => LargestPageFits
  BY <1>1 DEF IInv, Configured, LargestPageFits
<1> QED BY <1>2, Inductive, PTL

-----------------------------------------------------------------------------
(* What the answers say.                                                   *)

LineKinds == {"event", "trailer", "error"}

(* The lines are events up to the last. *)
EventsFirst(lines) == \A i \in 1 .. Len(lines) - 1 : lines[i] = "event"

LastIs(lines, line) == Len(lines) > 0 /\ lines[Len(lines)] = line

(* How many lines are not the error, and how many calls of write()         *)
(* returned true.                                                          *)
SentLines(lines) == IF LastIs(lines, "error") THEN Len(lines) - 1 ELSE Len(lines)
TrueWrites(halted, written) == IF halted THEN written - 1 ELSE written

(* What an answer has to show to a client that is there. *)
TellsEnd(r) ==
    /\ LastIs(r.lines, "trailer") \/ LastIs(r.lines, "error")
    /\ r.path = convertPath => (r.status = 200 <=> LastIs(r.lines, "trailer"))

(* What a request shows at any time.                                       *)
Told(r) ==
    /\ r.lines \in Seq(LineKinds) /\ r.written \in Nat
    /\ r.verdict = "none" => r.phase # "running"
    /\ r.verdict # "none" =>
          /\ r.verdict # "OK" /\ r.path \in {convertPath, streamPath}
          /\ EventsFirst(r.lines) /\ SentLines(r.lines) = TrueWrites(r.halted, r.written)
          /\ \/ /\ r.phase = "running"
                /\ r.lines # <<>> => LastIs(r.lines, "event")
                /\ r.serialize_failed => r.halted
             \/ r.phase = "answered" /\ (r.here => TellsEnd(r))

AnswersTold == \A id \in Requests : Told(request[id])

LEMMA HttpOnlyOk == \A code : HttpStatus(code) = 200 <=> code = "OK"
  BY DEF HttpStatus

LEMMA ReceiveTold ==
    ASSUME NEW path, NEW bearer, NEW r, NEW body,
           r = [NoRequest EXCEPT !.path = path, !.bearer = bearer, !.here = TRUE]
    PROVE  /\ \A status : Told(Answered(r, status, <<>>)) /\ Told(Answered(r, status, <<"error">>))
           /\ path \in {convertPath, streamPath} => Told(Started(r, body))
<1>1. /\ DOMAIN r = Fields /\ r.verdict = "none" /\ r.lines = <<>> /\ r.written = 0 /\ r.path = path
      /\ r.halted = FALSE /\ r.here = TRUE /\ r.serialize_failed = FALSE
  BY DEF Fields, NoRequest
<1>2. ASSUME NEW status, NEW lines \in {<<>>, <<"error">>} PROVE Told(Answered(r, status, lines))
  <2>1. PICK a : a = Answered(r, status, lines) OBVIOUS
  <2>2. a.lines = lines /\ a.written = 0 /\ a.verdict = "none" /\ a.phase = "answered"
    BY <1>1, <2>1 DEF Answered, Fields, NoRequest
  <2>3. a.lines \in Seq(LineKinds)
    <3>1. <<>> \in Seq(LineKinds) /\ <<"error">> \in Seq(LineKinds) BY DEF LineKinds
    <3> QED BY Zenon, <2>2, <3>1
  <2>4. a.phase # "running" /\ a.written \in Nat BY <2>2
  <2> QED BY Zenon, <2>1, <2>2, <2>3, <2>4 DEF Told
<1>3. ASSUME path \in {convertPath, streamPath} PROVE Told(Started(r, body))
  <2>1. PICK a : a = Started(r, body) OBVIOUS
  <2>2. /\ a.lines = <<>> /\ a.written = 0 /\ a.halted = FALSE
        /\ a.serialize_failed = FALSE /\ a.phase = "running" /\ a.path = path
        /\ a.verdict = IF body.has_options = "absent" THEN "INVALID_ARGUMENT"
                       ELSE OptionsVerdict(config, body.options)
    BY <1>1, <2>1 DEF Started, Fields, NoRequest
  <2>3. OptionsVerdict(config, body.options) \notin {"none", "OK"}
    BY DEF OptionsVerdict, EndpointVerdict, FormatVerdict
  <2>4. a.verdict # "none" /\ a.verdict # "OK" BY <2>2, <2>3
  <2>5. a.lines \in Seq(LineKinds) /\ EventsFirst(a.lines) /\ a.written \in Nat
    BY <2>2 DEF EventsFirst
  <2>6. SentLines(a.lines) = TrueWrites(a.halted, a.written) BY <2>2 DEF SentLines, TrueWrites, LastIs
  <2> QED BY Zenon, <1>3, <2>1, <2>2, <2>4, <2>5, <2>6 DEF Told
<1> QED BY <1>2, <1>3

(* Another line at the end of a body that has not ended. *)
Appended(lines, line, l) ==
    /\ l \in Seq(LineKinds) /\ Len(l) = Len(lines) + 1 /\ EventsFirst(l)
    /\ \A x : LastIs(l, x) <=> x = line

LEMMA AppendLine ==
    ASSUME NEW lines \in Seq(LineKinds), EventsFirst(lines), lines # <<>> => LastIs(lines, "event"),
           NEW line \in LineKinds,
           NEW l, l = Append(lines, line)
    PROVE  Appended(lines, line, l)
<1>2. /\ l \in Seq(LineKinds) /\ Len(lines) \in Nat /\ Len(l) = Len(lines) + 1 /\ l[Len(l)] = line
      /\ \A i \in 1 .. Len(lines) : l[i] = lines[i]
  OBVIOUS
<1>3. \A i \in 1 .. Len(lines) : lines[i] = "event"
  BY <1>2 DEF EventsFirst, LastIs
<1>4. EventsFirst(l) BY <1>2, <1>3 DEF EventsFirst
<1>5. \A x : LastIs(l, x) <=> x = line BY <1>2 DEF LastIs
<1> QED BY Zenon, <1>2, <1>4, <1>5 DEF Appended

LEMMA Concatenated ==
    ASSUME NEW lines \in Seq(LineKinds)
    PROVE  lines \o <<>> = lines /\ \A line \in LineKinds : lines \o <<line>> = Append(lines, line)
  OBVIOUS

LEMMA WriteTold ==
    ASSUME NEW r, DOMAIN r = Fields, Told(r), r.phase = "running", ~r.halted, NEW b \in BOOLEAN
    PROVE  Told(Write(r, "event", b))
<1>1. PICK a : a = Write(r, "event", b) OBVIOUS
<1>2. /\ a.verdict = r.verdict /\ a.phase = "running" /\ a.path = r.path
      /\ a.written = r.written + 1
      /\ \/ a.lines = Append(r.lines, "event") /\ a.halted = r.halted
            /\ a.serialize_failed = r.serialize_failed
         \/ a.lines = r.lines /\ a.halted = TRUE
  BY <1>1 DEF Write, Fields, NoRequest
<1>3. /\ r.lines \in Seq(LineKinds) /\ r.written \in Nat /\ r.verdict # "none" /\ r.verdict # "OK"
      /\ r.path \in {convertPath, streamPath} /\ EventsFirst(r.lines) /\ SentLines(r.lines) = TrueWrites(r.halted, r.written)
      /\ r.lines # <<>> => LastIs(r.lines, "event")
      /\ r.serialize_failed => r.halted
  <2>1. "running" # "answered" OBVIOUS
  <2> QED BY Zenon, <2>1 DEF Told
<1>4. Len(r.lines) = r.written
  <2>1. ~LastIs(r.lines, "error") BY <1>3 DEF LastIs
  <2> QED BY Zenon, <1>3, <2>1 DEF SentLines, TrueWrites
<1>5. CASE a.lines = r.lines /\ a.halted = TRUE
  <2>1. ~LastIs(a.lines, "error") BY <1>3, <1>5 DEF LastIs
  <2>2. a.written \in Nat /\ a.written - 1 = r.written BY <1>2, <1>3
  <2>3. SentLines(a.lines) = TrueWrites(a.halted, a.written) BY Zenon, <1>4, <1>5, <2>1, <2>2 DEF SentLines, TrueWrites
  <2> QED BY Zenon, <1>1, <1>2, <1>3, <1>5, <2>2, <2>3 DEF Told
<1>6. CASE /\ a.lines = Append(r.lines, "event") /\ a.halted = r.halted
           /\ a.serialize_failed = r.serialize_failed
  <2>1. /\ a.lines \in Seq(LineKinds) /\ Len(a.lines) = Len(r.lines) + 1 /\ EventsFirst(a.lines)
        /\ \A x : LastIs(a.lines, x) <=> x = "event"
    <3>1. "event" \in LineKinds BY DEF LineKinds
    <3>2. Appended(r.lines, "event", a.lines) BY Zenon, <3>1, <1>3, <1>6, AppendLine
    <3> QED BY Zenon, <3>2 DEF Appended
  <2>2. a.written \in Nat BY <1>2, <1>3
  <2>3. SentLines(a.lines) = TrueWrites(a.halted, a.written) BY <1>2, <1>4, <1>6, <2>1 DEF SentLines, TrueWrites
  <2> QED BY Zenon, <1>1, <1>2, <1>3, <1>6, <2>1, <2>2, <2>3 DEF Told
<1> QED BY <1>2, <1>5, <1>6

(* What an answer leaves as it was. *)
AnsweredAs(r, status, lines, a) ==
    /\ a.lines = r.lines \o lines /\ a.phase = "answered" /\ a.status = status
    /\ a.written = r.written /\ a.halted = r.halted /\ a.here = r.here
    /\ a.verdict = r.verdict /\ a.path = r.path

LEMMA AnsweredFields ==
    ASSUME NEW r, DOMAIN r = Fields, NEW status, NEW lines
    PROVE  AnsweredAs(r, status, lines, Answered(r, status, lines))
  BY DEF AnsweredAs, Answered, Fields, NoRequest

LEMMA AnswerTold ==
    ASSUME NEW a, a.lines \in Seq(LineKinds), a.written \in Nat, a.phase = "answered",
           a.verdict # "none", a.verdict # "OK", a.path \in {convertPath, streamPath},
           EventsFirst(a.lines), SentLines(a.lines) = TrueWrites(a.halted, a.written),
           a.here => TellsEnd(a)
    PROVE  Told(a)
  BY Zenon DEF Told

(* The request as PipelineReturns leaves it. *)
Returned(r, code) ==
    LET done == IF code = "OK" THEN Write(r, "trailer", TRUE) ELSE r
        final == IF done.serialize_failed /\ code = "OK" THEN "INTERNAL" ELSE code
    IN  IF r.path = streamPath
        THEN Answered(done, 200, IF code = "OK" \/ ~r.here THEN <<>> ELSE <<"error">>)
        ELSE Answered(done, HttpStatus(final), IF final = "OK" THEN <<>> ELSE <<"error">>)

LEMMA ReturnTold ==
    ASSUME NEW r, DOMAIN r = Fields, Told(r), r.phase = "running",
           NEW code \in PipelineStatuses(r)
    PROVE  Told(Returned(r, code))
<1> PICK v : v = Returned(r, code) OBVIOUS
<1>1. /\ r.lines \in Seq(LineKinds) /\ r.written \in Nat /\ r.verdict # "none" /\ r.verdict # "OK"
      /\ r.path \in {convertPath, streamPath} /\ EventsFirst(r.lines)
      /\ SentLines(r.lines) = TrueWrites(r.halted, r.written)
      /\ r.lines # <<>> => LastIs(r.lines, "event")
      /\ r.serialize_failed => r.halted
  <2>1. "running" # "answered" OBVIOUS
  <2> QED BY Zenon, <2>1 DEF Told
<1>2. Len(r.lines) = TrueWrites(r.halted, r.written) /\ Len(r.lines) \in Nat
  <2>1. ~LastIs(r.lines, "error") BY <1>1 DEF LastIs
  <2>2. SentLines(r.lines) = Len(r.lines) BY Zenon, <2>1 DEF SentLines
  <2> QED BY <1>1, <2>2
<1>3. CASE code = "OK"
  <2>1. ~r.halted /\ r.here
    <3>1. "OK" \notin {"CANCELLED"} \cup ReadErrors BY DEF ReadErrors
    <3> QED BY Zenon, <1>1, <1>3, <3>1 DEF PipelineStatuses
  <2>2. PICK done : done = [r EXCEPT !.lines = Append(@, "trailer"), !.written = @ + 1]
    OBVIOUS
  <2>3. /\ DOMAIN done = Fields /\ done.lines = Append(r.lines, "trailer")
        /\ done.written = r.written + 1 /\ done.halted = r.halted /\ done.here = r.here
        /\ done.verdict = r.verdict /\ done.path = r.path
        /\ done.serialize_failed = r.serialize_failed
    BY <2>2 DEF Fields, NoRequest
  <2>4. done = Write(r, "trailer", TRUE) BY Zenon, <2>1, <2>2 DEF Write
  <2>5. v = Answered(done, 200, <<>>)
    <3>1. HttpStatus("OK") = 200 BY Zenon, HttpOnlyOk
    <3>2. ~done.serialize_failed BY Zenon, <1>1, <2>1, <2>3
    <3> QED BY Zenon, <1>3, <2>4, <3>1, <3>2 DEF Returned
  <2>6. /\ v.lines = done.lines \o <<>> /\ v.phase = "answered" /\ v.status = 200
        /\ v.written = done.written /\ v.halted = done.halted /\ v.here = done.here
        /\ v.verdict = done.verdict /\ v.path = done.path
    <3>1. AnsweredAs(done, 200, <<>>, v) BY ZenonT(30), <2>3, <2>5, AnsweredFields
    <3> QED BY Zenon, <3>1 DEF AnsweredAs
  <2>7. Appended(r.lines, "trailer", done.lines)
    <3>1. "trailer" \in LineKinds BY DEF LineKinds
    <3> QED BY Zenon, <3>1, <1>1, <2>3, AppendLine
  <2>8. v.lines = done.lines BY Zenon, <2>6, <2>7, Concatenated DEF Appended
  <2>9. /\ v.lines \in Seq(LineKinds) /\ Len(v.lines) = Len(r.lines) + 1 /\ EventsFirst(v.lines)
        /\ \A x : LastIs(v.lines, x) <=> x = "trailer"
    BY Zenon, <2>7, <2>8 DEF Appended
  <2>10. ~v.halted /\ v.verdict # "none" /\ v.verdict # "OK" /\ v.path \in {convertPath, streamPath}
    BY ZenonT(30), <1>1, <2>1, <2>3, <2>6
  <2>11. TrueWrites(r.halted, r.written) = r.written /\ TrueWrites(v.halted, v.written) = v.written
    BY Zenon, <2>1, <2>10 DEF TrueWrites
  <2>12. v.written = r.written + 1 BY Zenon, <2>3, <2>6
  <2>13. v.written \in Nat /\ v.written = Len(v.lines) BY <1>1, <1>2, <2>9, <2>11, <2>12
  <2>14. "error" # "trailer" OBVIOUS
  <2>15. SentLines(v.lines) = Len(v.lines) BY Zenon, <2>9, <2>14 DEF SentLines
  <2>16. TellsEnd(v) BY Zenon, <2>6, <2>9 DEF TellsEnd
  <2>17. SentLines(v.lines) = TrueWrites(v.halted, v.written) BY Zenon, <2>11, <2>13, <2>15
  <2> QED BY Zenon, <2>6, <2>9, <2>10, <2>13, <2>16, <2>17, AnswerTold
<1>4. CASE code # "OK"
  <2>1. PICK status, lines :
           /\ v = Answered(r, status, lines)
           /\ \/ lines = <<"error">> /\ (r.path = convertPath => status # 200)
              \/ lines = <<>> /\ ~r.here
    <3>1. HttpStatus(code) # 200 BY Zenon, <1>4, HttpOnlyOk
    <3>2. streamPath # convertPath BY DEF streamPath, convertPath
    <3>3. CASE r.path = streamPath
      <4>1. v = Answered(r, 200, IF ~r.here THEN <<>> ELSE <<"error">>)
        BY Zenon, <3>3, <1>4 DEF Returned
      <4> QED BY Zenon, <3>2, <3>3, <4>1
    <3>4. CASE r.path # streamPath
      <4>1. v = Answered(r, HttpStatus(code), <<"error">>) BY Zenon, <3>4, <1>4 DEF Returned
      <4> QED BY Zenon, <3>1, <4>1
    <3> QED BY Zenon, <3>3, <3>4
  <2>2. /\ v.lines = r.lines \o lines /\ v.phase = "answered" /\ v.status = status
        /\ v.written = r.written /\ v.halted = r.halted /\ v.here = r.here
        /\ v.verdict = r.verdict /\ v.path = r.path
    <3>1. AnsweredAs(r, status, lines, v) BY Zenon, <2>1, AnsweredFields
    <3> QED BY Zenon, <3>1 DEF AnsweredAs
  <2>3. /\ v.verdict # "none" /\ v.verdict # "OK" /\ v.path \in {convertPath, streamPath}
        /\ v.written \in Nat /\ TrueWrites(v.halted, v.written) = TrueWrites(r.halted, r.written)
    BY Zenon, <1>1, <2>2
  <2>4. CASE lines = <<"error">> /\ (r.path = convertPath => status # 200)
    <3>1. "error" \in LineKinds /\ "error" # "trailer" BY DEF LineKinds
    <3>2. v.lines = Append(r.lines, "error") BY Zenon, <1>1, <2>2, <2>4, <3>1, Concatenated
    <3>3. Appended(r.lines, "error", v.lines) BY Zenon, <3>1, <1>1, <3>2, AppendLine
    <3>4. /\ v.lines \in Seq(LineKinds) /\ Len(v.lines) = Len(r.lines) + 1 /\ EventsFirst(v.lines)
          /\ \A x : LastIs(v.lines, x) <=> x = "error"
      BY Zenon, <3>3 DEF Appended
    <3>5. Len(v.lines) - 1 = Len(r.lines) BY <1>2, <3>4
    <3>6. SentLines(v.lines) = Len(v.lines) - 1 BY Zenon, <3>4 DEF SentLines
    <3>7. TellsEnd(v) BY Zenon, <2>2, <2>4, <3>1, <3>4 DEF TellsEnd
    <3> QED BY Zenon, <1>2, <2>2, <2>3, <3>4, <3>5, <3>6, <3>7, AnswerTold
  <2>5. CASE lines = <<>> /\ ~r.here
    <3>1. v.lines = r.lines BY Zenon, <1>1, <2>2, <2>5, Concatenated
    <3>2. ~v.here BY Zenon, <2>2, <2>5
    <3>3. SentLines(v.lines) = SentLines(r.lines) BY Zenon, <3>1
    <3>4. v.lines \in Seq(LineKinds) /\ EventsFirst(v.lines) BY Zenon, <1>1, <3>1
    <3> QED BY Zenon, <1>1, <2>2, <2>3, <3>2, <3>3, <3>4, AnswerTold
  <2> QED BY Zenon, <2>1, <2>4, <2>5
<1> QED BY Zenon, <1>3, <1>4

LEMMA HangUpTold ==
    ASSUME NEW r, DOMAIN r = Fields, Told(r), NEW v, v = [r EXCEPT !.here = FALSE]
    PROVE  Told(v)
<1>1. /\ v.lines = r.lines /\ v.written = r.written /\ v.verdict = r.verdict /\ v.phase = r.phase
      /\ v.path = r.path /\ v.halted = r.halted /\ v.serialize_failed = r.serialize_failed
      /\ v.here = FALSE
  BY DEF Fields, NoRequest
<1>2. /\ SentLines(v.lines) = SentLines(r.lines)
      /\ TrueWrites(v.halted, v.written) = TrueWrites(r.halted, r.written)
  BY Zenon, <1>1
<1> QED BY Zenon, <1>1, <1>2 DEF Told, TellsEnd

LEMMA ToldInit == Init => AnswersTold
<1> SUFFICES ASSUME Init, NEW id \in Requests PROVE Told(request[id]) BY DEF AnswersTold
<1>1. request[id] = NoRequest BY DEF Init
<1>2. /\ NoRequest.lines = <<>> /\ NoRequest.written = 0 /\ NoRequest.verdict = "none"
      /\ NoRequest.phase = "idle"
  BY DEF NoRequest
<1>3. <<>> \in Seq(LineKinds) /\ 0 \in Nat /\ "idle" # "running" OBVIOUS
<1> QED BY Zenon, <1>1, <1>2, <1>3 DEF Told

LEMMA ToldHandle == ASSUME IInv, AnswersTold, Handle PROVE AnswersTold'
<1>1. PICK id \in Requests :
          \/ \E path \in Paths, bearer \in BOOLEAN, body \in Bodies : Receive(id, path, bearer, body)
          \/ PipelineWrites(id)
          \/ \E code \in PipelineStatuses(request[id]) : PipelineReturns(id, code)
          \/ HangUp(id)
  BY Zenon DEF Handle, GatewayNext
<1>2. PICK q : q = request[id] OBVIOUS
<1>3. DOMAIN request = Requests /\ DOMAIN q = Fields /\ Told(q)
  BY Zenon, <1>2 DEF IInv, TypeOK, AnswersTold
<1>4. ASSUME NEW v, Told(v), request' = [request EXCEPT ![id] = v] PROVE AnswersTold'
  <2>1. \A x \in Requests : request'[x] = IF x = id THEN v ELSE request[x] BY Zenon, <1>3, <1>4
  <2> QED BY Zenon, <1>4, <2>1 DEF AnswersTold
<1>5. ASSUME NEW path \in Paths, NEW bearer \in BOOLEAN, NEW body \in Bodies,
             Receive(id, path, bearer, body)
      PROVE  AnswersTold'
  <2> DEFINE r == [NoRequest EXCEPT !.path = path, !.bearer = bearer, !.here = TRUE]
             v == IF NeedsToken(path) /\ ~bearer THEN Answered(r, 401, <<"error">>)
                  ELSE IF path = "/healthz" THEN Answered(r, 200, <<>>)
                  ELSE IF path \notin {convertPath, streamPath} THEN Answered(r, 404, <<>>)
                  ELSE IF body.large THEN Answered(r, 413, <<>>)
                  ELSE IF ~BodyOk(body) THEN Answered(r, 400, <<"error">>)
                  ELSE Started(r, body)
  <2>1. request' = [request EXCEPT ![id] = v] BY Zenon, <1>5 DEF Receive
  <2>2. /\ \A status : Told(Answered(r, status, <<>>)) /\ Told(Answered(r, status, <<"error">>))
        /\ path \in {convertPath, streamPath} => Told(Started(r, body))
    BY Zenon, ReceiveTold
  <2> HIDE DEF r
  <2>3. Told(v) BY ZenonT(30), <2>2
  <2> HIDE DEF v
  <2> QED BY Zenon, <1>4, <2>1, <2>3
<1>6. CASE PipelineWrites(id)
  <2>1. /\ q.phase = "running" /\ ~q.halted
        /\ \E b \in BOOLEAN : request' = [request EXCEPT ![id] = Write(q, "event", b)]
    BY Zenon, <1>2, <1>6 DEF PipelineWrites
  <2> QED BY Zenon, <1>3, <1>4, <2>1, WriteTold
<1>7. ASSUME NEW code \in PipelineStatuses(request[id]), PipelineReturns(id, code) PROVE AnswersTold'
  <2>1. /\ q.phase = "running" /\ code \in PipelineStatuses(q)
        /\ request' = [request EXCEPT ![id] = Returned(q, code)]
    BY Zenon, <1>2, <1>7 DEF PipelineReturns, Returned
  <2>2. Told(Returned(q, code)) BY Zenon, <1>3, <2>1, ReturnTold
  <2> QED BY Zenon, <1>4, <2>1, <2>2
<1>8. CASE HangUp(id)
  <2>1. PICK v : v = [q EXCEPT !.here = FALSE] BY Zenon
  <2>2. request' = [request EXCEPT ![id] = v] BY Zenon, <1>2, <1>8, <2>1 DEF HangUp
  <2>3. Told(v) BY Zenon, <1>3, <2>1, HangUpTold
  <2> QED BY Zenon, <1>4, <2>2, <2>3
<1> QED BY Zenon, <1>1, <1>5, <1>6, <1>7, <1>8

LEMMA ToldNext == IInv /\ AnswersTold /\ [Next]_vars => AnswersTold'
<1> SUFFICES ASSUME IInv, AnswersTold, [Next]_vars PROVE AnswersTold'
  OBVIOUS
<1>1. request' = request \/ Handle
  BY Zenon DEF Next, vars, gatewayVars, MainStep, Load, StartGrpc, StartHttp, Unwind, StartThreads,
     StopHttp, JoinHttp, Wake, JoinShutdown, JoinMetrics, WaitReturns, ReadPipe, ShutdownEnds,
     MetricsEnds, RpcStarts, RpcEnds, Signal
<1>2. CASE request' = request BY Zenon, <1>2 DEF AnswersTold
<1> QED BY Zenon, <1>1, <1>2, ToldHandle

(* What Told says of the lines, in the words of AnswerTellsTheOutcome. *)
LEMMA LinesCounted ==
    ASSUME NEW lines \in Seq(LineKinds), EventsFirst(lines)
    PROVE  Cardinality({i \in DOMAIN lines : lines[i] # "error"})
           = IF LastIs(lines, "error") THEN Len(lines) - 1 ELSE Len(lines)
<1> DEFINE n == Len(lines)
           m == IF LastIs(lines, "error") THEN n - 1 ELSE n
<1>1. n \in Nat /\ m \in Nat BY DEF LastIs
<1>2. {i \in DOMAIN lines : lines[i] # "error"} = 1 .. m BY DEF EventsFirst, LastIs
<1>3. 1 \in Int /\ m \in Int BY <1>1
<1>4. Cardinality(1 .. m) = IF 1 > m THEN 0 ELSE m - 1 + 1 BY Zenon, <1>3, FS_Interval
<1>5. Cardinality(1 .. m) = m
  <2> HIDE DEF m
  <2> QED BY <1>1, <1>4
<1> QED BY Zenon, <1>2, <1>5

(* Whatever the pipeline hands over and whenever the client leaves, an     *)
(* answer has no gap before the first event that could not be sent, its    *)
(* error comes once, last, and exactly when there is no trailer, and       *)
(* /v1/convert's status is 200 only without one (http_gateway.cpp:206-293). *)
THEOREM AnswersTellTheOutcome == Spec => []AnswerTellsTheOutcome
<1>1. ASSUME AnswersTold PROVE AnswerTellsTheOutcome
  <2> SUFFICES ASSUME NEW id \in Requests PROVE TellsTheOutcome(request[id])
    BY Zenon DEF AnswerTellsTheOutcome
  <2> PICK r : r = request[id] OBVIOUS
  <2>1. CASE r.verdict = "none" BY Zenon, <2>1 DEF TellsTheOutcome
  <2>2. CASE r.verdict # "none"
    <3>1. /\ r.lines \in Seq(LineKinds) /\ r.written \in Nat /\ EventsFirst(r.lines)
          /\ SentLines(r.lines) = TrueWrites(r.halted, r.written)
          /\ r.phase = "answered" /\ r.here => TellsEnd(r)
      <4>1. "running" # "answered" OBVIOUS
      <4> QED BY Zenon, <1>1, <2>2, <4>1 DEF AnswersTold, Told
    <3>2. Cardinality({i \in DOMAIN r.lines : r.lines[i] # "error"}) = SentLines(r.lines)
      BY Zenon, <3>1, LinesCounted DEF SentLines
    <3>3. TrueWrites(r.halted, r.written) = r.written - (IF r.halted THEN 1 ELSE 0)
      <4>1. CASE r.halted BY <4>1 DEF TrueWrites
      <4>2. CASE ~r.halted
        <5>1. r.written - 0 = r.written BY <3>1
        <5> QED BY Zenon, <4>2, <5>1 DEF TrueWrites
      <4> QED BY <4>1, <4>2
    <3>4. ASSUME TellsEnd(r)
          PROVE  /\ Len(r.lines) > 0 /\ r.lines[Len(r.lines)] \in {"trailer", "error"}
                 /\ \A i \in 1 .. Len(r.lines) - 1 : r.lines[i] = "event"
                 /\ r.path = convertPath => (r.status = 200 <=> r.lines[Len(r.lines)] = "trailer")
      BY Zenon, <3>1, <3>4 DEF TellsEnd, LastIs, EventsFirst
    <3> QED BY ZenonT(30), <3>1, <3>2, <3>3, <3>4 DEF TellsTheOutcome
  <2> QED BY Zenon, <2>1, <2>2
<1>2. IInv /\ AnswersTold /\ [Next]_vars => AnswersTold' BY ToldNext
<1> QED BY <1>1, <1>2, ToldInit, Inductive, PTL DEF Spec
=============================================================================
