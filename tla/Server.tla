------------------------------- MODULE Server -------------------------------
(***************************************************************************)
(* The process (src/main.cpp): the configuration, the gRPC server, the     *)
(* HTTP gateway beside it, the thread that turns a signal's byte on a pipe *)
(* into a shutdown, the metrics thread, and their end.  gRPC's server is   *)
(* external: Shutdown refuses new RPCs and returns once those in flight    *)
(* have ended, of themselves or cancelled at its deadline.                 *)
(***************************************************************************)
EXTENDS HttpGateway

CONSTANTS
    Envs,        \* environments the server is started in
    MaxSignals,  \* bound: SIGINT and SIGTERM received
    MaxRpcs      \* bound: gRPC calls in flight

VARIABLES
    env, main,   \* the environment, and where main() is
    pipe,        \* bytes in g_shutdown_pipe
    signals,     \* signals received so far
    grpc, rpcs,  \* the gRPC server and its calls in flight
    shutdown,    \* shutdown_thread
    metrics, stopping   \* metrics_thread, and the flag that ends it

gatewayVars == <<config, gateway, request>>
threadVars == <<shutdown, metrics, stopping>>
vars == <<env, main, pipe, signals, grpc, rpcs, threadVars, gatewayVars>>

Init ==
    /\ env \in Envs /\ config = LoadConfig(env)
    /\ main = "config" /\ pipe = 0 /\ signals = 0
    /\ grpc = "none" /\ rpcs = 0
    /\ gateway = "off" /\ request = [id \in Requests |-> NoRequest]
    /\ shutdown = "none" /\ metrics = "none" /\ stopping = FALSE

MainGoes(from, to) == main = from /\ main' = to

(* The configuration is loaded, or startup fails. *)
Load ==
    /\ MainGoes("config", IF ConfigOk(env) THEN "grpc" ELSE "exit1")
    /\ UNCHANGED <<env, pipe, signals, grpc, rpcs, threadVars, gatewayVars>>

(* BuildAndStart, which may find its port taken. *)
StartGrpc ==
    /\ \/ MainGoes("grpc", "http") /\ grpc' = "serving"
       \/ MainGoes("grpc", "exit1") /\ UNCHANGED grpc
    /\ UNCHANGED <<env, pipe, signals, rpcs, threadVars, gatewayVars>>

(* The gateway, unless it is turned off; when it cannot bind, the gRPC     *)
(* server is destroyed on the way out.                                     *)
StartHttp ==
    /\ \/ config.http_port = 0 /\ MainGoes("http", "threads") /\ UNCHANGED <<grpc, gateway>>
       \/ config.http_port # 0 /\ MainGoes("http", "threads") /\ gateway' = "listening" /\ UNCHANGED grpc
       \/ config.http_port # 0 /\ MainGoes("http", "unwind") /\ grpc' = "draining" /\ UNCHANGED gateway
    /\ UNCHANGED <<env, pipe, signals, rpcs, threadVars, config, request>>

Unwind ==
    /\ MainGoes("unwind", "exit1") /\ rpcs = 0 /\ grpc' = "down"
    /\ UNCHANGED <<env, pipe, signals, rpcs, threadVars, gatewayVars>>

StartThreads ==
    /\ MainGoes("threads", "wait")
    /\ shutdown' = "reading"
    /\ metrics' = IF config.metrics THEN "waiting" ELSE "none"
    /\ UNCHANGED <<env, pipe, signals, grpc, rpcs, stopping, gatewayVars>>

(* server->Wait() returns: the server is down, or for another reason. *)
WaitReturns ==
    /\ MainGoes("wait", "stop_http")
    /\ grpc \in {"serving", "down"}
    /\ UNCHANGED <<env, pipe, signals, grpc, rpcs, threadVars, gatewayVars>>

(* http_gateway.stop(): no new request, then the join of its threads. *)
StopHttp ==
    /\ main = "stop_http" /\ gateway = "listening"
    /\ gateway' = "stopping"
    /\ UNCHANGED <<env, main, pipe, signals, grpc, rpcs, threadVars, config, request>>

Handling == \E id \in Requests : request[id].phase = "running"

(* Mutant: the gateway's threads are not joined. *)
JoinHttpDetached ==
    /\ MainGoes("stop_http", "wake")
    /\ gateway \in {"off", "stopping"}
    /\ gateway' = IF gateway = "off" THEN "off" ELSE "stopped"
    /\ UNCHANGED <<env, pipe, signals, grpc, rpcs, threadVars, config, request>>

JoinHttp ==
    /\ MainGoes("stop_http", "wake")
    /\ gateway = "off" \/ (gateway = "stopping" /\ ~Handling)
    /\ gateway' = IF gateway = "off" THEN "off" ELSE "stopped"
    /\ UNCHANGED <<env, pipe, signals, grpc, rpcs, threadVars, config, request>>

(* Mutant: the shutdown thread is joined but not woken. *)
WakeNobody ==
    /\ MainGoes("wake", "join_shutdown")
    /\ UNCHANGED <<env, pipe, signals, grpc, rpcs, threadVars, gatewayVars>>

(* handle_shutdown(0): the shutdown thread is woken in any case. *)
Wake ==
    /\ MainGoes("wake", "join_shutdown") /\ pipe' = pipe + 1
    /\ UNCHANGED <<env, signals, grpc, rpcs, threadVars, gatewayVars>>

JoinShutdown ==
    /\ MainGoes("join_shutdown", "join_metrics")
    /\ shutdown = "ended" /\ stopping' = TRUE
    /\ UNCHANGED <<env, pipe, signals, grpc, rpcs, shutdown, metrics, gatewayVars>>

JoinMetrics ==
    /\ MainGoes("join_metrics", "exit0")
    /\ metrics \in {"none", "ended"}
    /\ UNCHANGED <<env, pipe, signals, grpc, rpcs, threadVars, gatewayVars>>

-----------------------------------------------------------------------------
(* The other threads.                                                      *)

ReadPipe ==
    /\ shutdown = "reading" /\ pipe > 0
    /\ pipe' = pipe - 1 /\ shutdown' = "shutting"
    /\ grpc' = IF grpc = "serving" THEN "draining" ELSE grpc
    /\ UNCHANGED <<env, main, signals, rpcs, metrics, stopping, gatewayVars>>

ShutdownEnds ==
    /\ shutdown = "shutting" /\ rpcs = 0
    /\ shutdown' = "ended" /\ grpc' = "down"
    /\ UNCHANGED <<env, main, pipe, signals, rpcs, metrics, stopping, gatewayVars>>

MetricsEnds ==
    /\ metrics = "waiting" /\ stopping
    /\ metrics' = "ended"
    /\ UNCHANGED <<env, main, pipe, signals, grpc, rpcs, shutdown, stopping, gatewayVars>>

RpcStarts ==
    /\ grpc = "serving" /\ rpcs < MaxRpcs /\ rpcs' = rpcs + 1
    /\ UNCHANGED <<env, main, pipe, signals, grpc, threadVars, gatewayVars>>

RpcEnds ==
    /\ rpcs > 0 /\ rpcs' = rpcs - 1
    /\ UNCHANGED <<env, main, pipe, signals, grpc, threadVars, gatewayVars>>

Exited == main \in {"exit0", "exit1"}

(* SIGINT or SIGTERM: one byte on the pipe. *)
Signal ==
    /\ ~Exited /\ signals < MaxSignals
    /\ signals' = signals + 1 /\ pipe' = pipe + 1
    /\ UNCHANGED <<env, main, grpc, rpcs, threadVars, gatewayVars>>

MainStep ==
    \/ Load \/ StartGrpc \/ StartHttp \/ Unwind \/ StartThreads \/ StopHttp \/ JoinHttp
    \/ Wake \/ JoinShutdown \/ JoinMetrics

Handle == GatewayNext /\ UNCHANGED <<env, main, pipe, signals, grpc, rpcs, threadVars>>

Next ==
    \/ MainStep \/ WaitReturns \/ ReadPipe \/ ShutdownEnds \/ MetricsEnds
    \/ RpcStarts \/ RpcEnds \/ Signal \/ Handle

(* Threads run; Wait() returns once the server is down; RPCs and pipelines *)
(* end, since every VLM call does (VlmCall, KeepsPromise).                 *)
Fairness ==
    /\ WF_vars(MainStep) /\ WF_vars(grpc = "down" /\ WaitReturns)
    /\ WF_vars(ReadPipe) /\ WF_vars(ShutdownEnds) /\ WF_vars(MetricsEnds)
    /\ WF_vars(grpc = "draining" /\ RpcEnds)
    /\ \A id \in Requests :
           WF_vars((PipelineWrites(id) \/ \E code \in PipelineStatuses(request[id]) : PipelineReturns(id, code))
                     /\ UNCHANGED <<env, main, pipe, signals, grpc, rpcs, threadVars>>)

Spec == Init /\ [][Next]_vars /\ Fairness

-----------------------------------------------------------------------------
(* A signal, whenever it comes, ends the process, and so does a Wait()     *)
(* that returns without one: the byte waits in the pipe for a thread that  *)
(* is not there yet, and every join returns (main.cpp:29-43, 82-125).      *)
SignalEndsProcess == signals > 0 \/ main = "stop_http" ~> Exited

(* main() returns only when no handler runs that uses the service or the   *)
(* gateway it is about to destroy, and no thread is left unjoined          *)
(* (main.cpp:110-125).                                                     *)
NothingOutlivesMain ==
    Exited =>
        /\ ~Handling /\ rpcs = 0
        /\ gateway \in {"off", "stopped"} /\ grpc \in {"none", "down"}
        /\ shutdown \in {"none", "ended"} /\ metrics \in {"none", "ended"}

(* A request that is accepted was allowed in every respect the operator    *)
(* decides: its caller proved the token unless only this machine can       *)
(* connect, its pages go to the configured endpoint, however the request   *)
(* spells it, unless overrides are allowed, and their format is one that   *)
(* GetServiceInfo advertises (config.cpp:149-157, http_gateway.cpp:147-168,*)
(* vlm_convert_service.cpp:142-207, 584-616).                              *)
AcceptedIsAllowed ==
    \A id \in Requests :
        LET r == request[id]
        IN  /\ r.verdict # "none" => r.bearer \/ IsLoopback(config.http_host)
            /\ r.verdict = "accepted" =>
                  /\ \/ SameEndpoint(r.endpoint, config.endpoint)
                     \/ config.allow_endpoint_override /\ ~EndpointError(r.endpoint)
                  /\ r.format \in ServiceInfo(config).response_formats

(* What the body of an answer says: what the pipeline handed over, without *)
(* a gap up to the first event that could not be sent, and at the end, to  *)
(* a client that is there, how the conversion ended.                       *)
TellsTheOutcome(r) ==
    LET n == Len(r.lines)
        sent == Cardinality({i \in DOMAIN r.lines : r.lines[i] # "error"})
    IN  /\ r.verdict # "none" => sent = r.written - (IF r.halted THEN 1 ELSE 0)
        /\ r.phase = "answered" /\ r.verdict # "none" /\ r.here =>
              /\ n > 0 /\ r.lines[n] \in {"trailer", "error"}
              /\ \A i \in 1 .. n - 1 : r.lines[i] = "event"
              /\ r.path = convertPath => (r.status = 200 <=> r.lines[n] = "trailer")

(* The body of an answer is what the pipeline handed over, without a gap   *)
(* up to the first event that could not be sent, and says how the          *)
(* conversion ended: an error comes once, last, and exactly when there is  *)
(* no trailer; /v1/convert's status is 200 only without one                *)
(* (http_gateway.cpp:206-293).                                             *)
AnswerTellsTheOutcome == \A id \in Requests : TellsTheOutcome(request[id])

(* Whatever the operator sets, a page of the largest size fits in both     *)
(* buffer budgets, so a page accepted by its size can always be admitted   *)
(* (config.cpp:124-132 with budget.h:99-119).                              *)
LargestPageFits ==
    main \notin {"config", "exit1"} =>
        /\ config.max_page_bytes <= config.max_stream_buffered_bytes
        /\ config.max_page_bytes <= config.max_buffered_bytes
=============================================================================
