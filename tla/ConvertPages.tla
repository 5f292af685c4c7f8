---------------------------- MODULE ConvertPages ----------------------------
(***************************************************************************)
(* VlmConvertServiceImpl::ConvertPagesCore                                 *)
(* (src/service/vlm_convert_service.cpp): streams 1..NStreams served at    *)
(* once.  Each has a reader (the RPC thread), a pool of workers and a      *)
(* writer, joined by the channels `jobs` and `events`; all streams share   *)
(* the budgets buffered_bytes and vlm_slots and the metrics counters.      *)
(* A step of a thread is one access to a channel, a budget or a flag that  *)
(* other threads wait for or test, with the counters it moves and the      *)
(* leases it drops on the way.                                             *)
(*                                                                         *)
(* A page is named by the order of its admission to its stream; its        *)
(* content, its prompt and its mapped document are left out.  generate()   *)
(* and the mapper are one step that answers, fails, or is cut short.       *)
(***************************************************************************)
EXTENDS Budget, Channel, FiniteSets

CONSTANTS
    NStreams,           \* ConvertPages calls served
    Concurrency,        \* config_.concurrency
    MaxPages,           \* config_.max_pages
    MaxPageBytes,       \* config_.max_page_bytes
    StreamBufferBytes,  \* config_.max_stream_buffered_bytes
    BufferBytes,        \* config_.max_buffered_bytes
    MaxInflight,        \* config_.max_inflight
    MaxPageNo,          \* the largest int32
    Messages,           \* what clients send after the options
    MaxReads,           \* bound: messages a client sends after the options
    Cancellers,         \* bound: the streams whose client may cancel
    Requests            \* ConvertOptions, as [concurrency, abort_on_error]

(* The codes the checks on the options answer with. *)
OptionErrors ==
    {"INVALID_ARGUMENT", "PERMISSION_DENIED", "FAILED_PRECONDITION", "UNIMPLEMENTED"}

(* The codes a message of the read loop may be refused with. *)
ReadErrors == {"INVALID_ARGUMENT", "UNIMPLEMENTED", "RESOURCE_EXHAUSTED"}

MessageSpace ==
    [kind : {"options", "pdf_chunk", "none"}]
      \cup [kind : {"page_image"}, page_no : Nat, bytes : Nat, png : BOOLEAN]

ASSUME SizesAssumption ==
    /\ NStreams \in Nat \ {0} /\ Concurrency \in Nat \ {0}
    /\ MaxPages \in Nat \ {0} /\ MaxPageBytes \in Nat /\ MaxPageNo \in Nat
    /\ StreamBufferBytes \in Nat /\ BufferBytes \in Nat /\ MaxInflight \in Nat
    /\ MaxReads \in Nat /\ Cancellers \subseteq 1..NStreams
ASSUME MessagesAssumption == Messages \subseteq MessageSpace
ASSUME RequestsAssumption == Requests \subseteq [concurrency : Nat, abort_on_error : BOOLEAN]

Streams == 1..NStreams
Workers == 1..Concurrency

VARIABLES
    gone,            \* transport: the client cancelled, or its deadline passed
    uploaded,        \* read() returned false: the client half-closed
    reads,           \* messages read after the options
    wire,            \* events handed to the transport, in order
    outcome,         \* the status returned, "none" before that
    reader,          \* where the RPC thread is
    image,           \* bytes of the page in the reader's hand
    status,          \* local of the read loop
    saw_input,       \* local of the read loop
    abort_on_error,  \* options.abort_on_error()
    started, ok, page_failed, halt, client_gone,
    jobs, events,    \* the two channels
    stream_bytes,    \* the stream's Budget
    worker, job,     \* where each worker is, and the job it holds
    writer,          \* where the writer is
    buffered_bytes, vlm_slots, metrics   \* process-wide

clientVars == <<gone, uploaded, reads>>
readerVars == <<image, status, saw_input, abort_on_error, started>>
resultVars == <<wire, outcome>>
stopVars == <<halt, client_gone>>
workerVars == <<worker, job>>
countVars == <<ok, page_failed>>
budgetVars == <<stream_bytes, buffered_bytes, vlm_slots>>
vars == <<clientVars, readerVars, resultVars, stopVars, workerVars, countVars,
          budgetVars, reader, jobs, events, writer, metrics>>

(* Who stands in the lines of the budgets. *)
PageId(s, p) == (s - 1) * MaxPages + p
WorkerId(s, w) == (s - 1) * Concurrency + w

NoJob == [page |-> 0, bytes |-> 0]

NewMetrics == [converted |-> 0, rejected |-> 0, failed |-> 0,
               pages_ok |-> 0, pages_failed |-> 0, pages_finished |-> 0]

Init ==
    /\ gone = [s \in Streams |-> FALSE]
    /\ uploaded = [s \in Streams |-> FALSE]
    /\ reads = [s \in Streams |-> 0]
    /\ wire = [s \in Streams |-> <<>>]
    /\ outcome = [s \in Streams |-> "none"]
    /\ reader = [s \in Streams |-> "idle"]
    /\ image = [s \in Streams |-> 0]
    /\ status = [s \in Streams |-> "OK"]
    /\ saw_input = [s \in Streams |-> FALSE]
    /\ abort_on_error = [s \in Streams |-> FALSE]
    /\ started = [s \in Streams |-> 0]
    /\ ok = [s \in Streams |-> 0]
    /\ page_failed = [s \in Streams |-> 0]
    /\ halt = [s \in Streams |-> FALSE]
    /\ client_gone = [s \in Streams |-> FALSE]
    /\ jobs = [s \in Streams |-> NewChannel]
    /\ events = [s \in Streams |-> NewChannel]
    /\ stream_bytes = [s \in Streams |-> NewBudget(StreamBufferBytes)]
    /\ worker = [s \in Streams |-> [w \in Workers |-> "exited"]]
    /\ job = [s \in Streams |-> [w \in Workers |-> NoJob]]
    /\ writer = [s \in Streams |-> "exited"]
    /\ buffered_bytes = NewBudget(BufferBytes)
    /\ vlm_slots = NewBudget(MaxInflight)
    /\ metrics = NewMetrics

-----------------------------------------------------------------------------
(* The client, and the start of a stream.                                  *)

(* The client cancels or its deadline passes: IsCancelled from here on. *)
Cancel(s) ==
    /\ s \in Cancellers
    /\ reader[s] \notin {"idle", "done"}
    /\ ~gone[s]
    /\ gone' = [gone EXCEPT ![s] = TRUE]
    /\ UNCHANGED <<uploaded, reads, readerVars, resultVars, stopVars, workerVars, countVars,
                   budgetVars, reader, jobs, events, writer, metrics>>

(* The first message is no ConvertOptions, or the options are refused. *)
RefuseOptions(s, code) ==
    /\ reader[s] = "idle"
    /\ reader' = [reader EXCEPT ![s] = "done"]
    /\ outcome' = [outcome EXCEPT ![s] = code]
    /\ metrics' = [metrics EXCEPT !.rejected = @ + 1]
    /\ UNCHANGED <<clientVars, readerVars, wire, stopVars, workerVars, countVars,
                   budgetVars, jobs, events, writer>>

(* Zero asks for the configured number of workers; more than that is cut. *)
EffectiveConcurrency(requested) ==
    IF requested = 0 \/ requested > Concurrency THEN Concurrency ELSE requested

(* Good options: the writer and the workers start. *)
Open(s, request) ==
    /\ reader[s] = "idle"
    /\ reader' = [reader EXCEPT ![s] = "top"]
    /\ abort_on_error' = [abort_on_error EXCEPT ![s] = request.abort_on_error]
    /\ writer' = [writer EXCEPT ![s] = "poll"]
    /\ worker' = [worker EXCEPT ![s] =
          [w \in Workers |->
             IF w <= EffectiveConcurrency(request.concurrency) THEN "pop" ELSE "exited"]]
    /\ UNCHANGED <<clientVars, image, status, saw_input, started, resultVars, stopVars,
                   job, countVars, budgetVars, jobs, events, metrics>>

-----------------------------------------------------------------------------
(* The read loop, on the RPC thread.                                       *)

(* while (!halted() && ... *)
TestHalted(s) ==
    /\ reader[s] = "top"
    /\ reader' = [reader EXCEPT ![s] = IF halt[s] THEN "leave" ELSE "reading"]
    /\ UNCHANGED <<clientVars, readerVars, resultVars, stopVars, workerVars, countVars,
                   budgetVars, jobs, events, writer, metrics>>

(* read() returns false: half-close, or the transport is gone. *)
ReadEnd(s) ==
    /\ reader[s] = "reading"
    /\ reader' = [reader EXCEPT ![s] = "leave"]
    /\ uploaded' = [uploaded EXCEPT ![s] = TRUE]
    /\ UNCHANGED <<gone, reads, readerVars, resultVars, stopVars, workerVars, countVars,
                   budgetVars, jobs, events, writer, metrics>>

(* What the loop's checks, in their order, make of a message. *)
VerdictOnePageMore(m, pages) ==
    IF m.kind \in {"options", "none", "pdf_chunk"} THEN "ignore"
    ELSE IF pages > MaxPages THEN "RESOURCE_EXHAUSTED" ELSE "admit"
Verdict(m, pages) ==
    IF m.kind = "options" THEN "INVALID_ARGUMENT"
    ELSE IF m.kind = "pdf_chunk" THEN "UNIMPLEMENTED"
    ELSE IF m.kind = "none" THEN "ignore"
    ELSE IF m.page_no = 0 \/ m.page_no > MaxPageNo THEN "INVALID_ARGUMENT"
    ELSE IF m.bytes > MaxPageBytes THEN "RESOURCE_EXHAUSTED"
    ELSE IF ~m.png THEN "INVALID_ARGUMENT"
    ELSE IF pages >= MaxPages THEN "RESOURCE_EXHAUSTED"
    ELSE "admit"

(* read() returns a message: it is ignored, refused (client_error and      *)
(* break), or a page to admit.                                             *)
ReadMessage(s, m) ==
    LET verdict == Verdict(m, started[s]) IN
    /\ reader[s] = "reading"
    /\ reads[s] < MaxReads
    /\ reads' = [reads EXCEPT ![s] = @ + 1]
    /\ saw_input' = [saw_input EXCEPT ![s] = @ \/ m.kind = "page_image"]
    /\ \/ /\ verdict = "ignore"
          /\ reader' = [reader EXCEPT ![s] = "top"]
          /\ UNCHANGED <<image, status, metrics>>
       \/ /\ verdict \in ReadErrors
          /\ reader' = [reader EXCEPT ![s] = "leave"]
          /\ status' = [status EXCEPT ![s] = verdict]
          /\ metrics' = [metrics EXCEPT !.rejected = @ + 1]
          /\ UNCHANGED image
       \/ /\ verdict = "admit"
          /\ reader' = [reader EXCEPT ![s] = "stream_line"]
          /\ image' = [image EXCEPT ![s] = m.bytes]
          /\ UNCHANGED <<status, metrics>>
    /\ UNCHANGED <<gone, uploaded, abort_on_error, started, resultVars, stopVars,
                   workerVars, countVars, budgetVars, jobs, events, writer>>

(* stream_bytes.acquire(bytes, halted): its first turn or a later one.  An *)
(* empty lease breaks the loop.                                            *)
AcquireStream(s) ==
    LET p == started[s] + 1
        b == IF reader[s] = "stream_line" THEN Enter(stream_bytes[s], p) ELSE stream_bytes[s]
        n == Clamp(b, image[s])
    IN  /\ reader[s] \in {"stream_line", "stream_wait"}
        /\ stream_bytes' = [stream_bytes EXCEPT ![s] = AfterTurn(b, p, n, halt[s])]
        /\ reader' = [reader EXCEPT ![s] =
              CASE TurnOf(b, p, n, halt[s]) = "holding" -> "process_line"
                [] TurnOf(b, p, n, halt[s]) = "idle" -> "leave"
                [] OTHER -> "stream_wait"]
        /\ UNCHANGED <<clientVars, readerVars, resultVars, stopVars, workerVars, countVars,
                       buffered_bytes, vlm_slots, jobs, events, writer, metrics>>

(* buffered_bytes_.acquire(bytes, halted).  With an empty lease the loop   *)
(* breaks, which also gives the stream's lease back.                       *)
AcquireProcessDeaf(s) ==
    LET p == PageId(s, started[s] + 1)
        b == IF reader[s] = "process_line" THEN Enter(buffered_bytes, p) ELSE buffered_bytes
        n == Clamp(b, image[s])
        turn == TurnOf(b, p, n, FALSE)
    IN  /\ reader[s] \in {"process_line", "process_wait"}
        /\ buffered_bytes' = AfterTurn(b, p, n, FALSE)
        /\ reader' = [reader EXCEPT ![s] =
              CASE turn = "holding" -> "announce" [] turn = "idle" -> "leave"
                [] OTHER -> "process_wait"]
        /\ stream_bytes' =
              IF turn = "idle"
              THEN [stream_bytes EXCEPT ![s] = Release(@, Clamp(@, image[s]))]
              ELSE stream_bytes
        /\ UNCHANGED <<clientVars, readerVars, resultVars, stopVars, workerVars, countVars,
                       vlm_slots, jobs, events, writer, metrics>>
AcquireProcess(s) ==
    LET p == PageId(s, started[s] + 1)
        b == IF reader[s] = "process_line" THEN Enter(buffered_bytes, p) ELSE buffered_bytes
        n == Clamp(b, image[s])
        turn == TurnOf(b, p, n, halt[s])
    IN  /\ reader[s] \in {"process_line", "process_wait"}
        /\ buffered_bytes' = AfterTurn(b, p, n, halt[s])
        /\ reader' = [reader EXCEPT ![s] =
              CASE turn = "holding" -> "announce" [] turn = "idle" -> "leave"
                [] OTHER -> "process_wait"]
        /\ stream_bytes' =
              IF turn = "idle"
              THEN [stream_bytes EXCEPT ![s] = Release(@, Clamp(@, image[s]))]
              ELSE stream_bytes
        /\ UNCHANGED <<clientVars, readerVars, resultVars, stopVars, workerVars, countVars,
                       vlm_slots, jobs, events, writer, metrics>>

(* started++ and events.push(PageStarted) *)
Announce(s) ==
    /\ reader[s] = "announce"
    /\ reader' = [reader EXCEPT ![s] = "enqueue"]
    /\ started' = [started EXCEPT ![s] = @ + 1]
    /\ events' = [events EXCEPT ![s] =
          Push(@, [kind |-> "page_started", page |-> started[s] + 1])]
    /\ UNCHANGED <<clientVars, image, status, saw_input, abort_on_error, resultVars, stopVars,
                   workerVars, countVars, budgetVars, jobs, writer, metrics>>

(* jobs.push(PageJob{...}): the job carries both leases. *)
Enqueue(s) ==
    /\ reader[s] = "enqueue"
    /\ reader' = [reader EXCEPT ![s] = "top"]
    /\ jobs' = [jobs EXCEPT ![s] = Push(@, [page |-> started[s], bytes |-> image[s]])]
    /\ UNCHANGED <<clientVars, readerVars, resultVars, stopVars, workerVars, countVars,
                   budgetVars, events, writer, metrics>>

-----------------------------------------------------------------------------
(* The end of a stream, on the RPC thread.                                 *)

(* After the loop: a refused message halts the stream, and jobs.close(). *)
CloseJobs(s) ==
    /\ reader[s] = "leave"
    /\ reader' = [reader EXCEPT ![s] = "join"]
    /\ halt' = [halt EXCEPT ![s] = @ \/ status[s] # "OK"]
    /\ jobs' = [jobs EXCEPT ![s] = Close(@)]
    /\ UNCHANGED <<clientVars, readerVars, resultVars, client_gone, workerVars, countVars,
                   budgetVars, events, writer, metrics>>

(* worker.join() for every worker, then events.close(). *)
CloseEventsEarly(s) ==
    /\ reader[s] = "join"
    /\ reader' = [reader EXCEPT ![s] = "drain"]
    /\ events' = [events EXCEPT ![s] = Close(@)]
    /\ UNCHANGED <<clientVars, readerVars, resultVars, stopVars, workerVars, countVars,
                   budgetVars, jobs, writer, metrics>>
CloseEvents(s) ==
    /\ reader[s] = "join"
    /\ \A w \in Workers : worker[s][w] = "exited"
    /\ reader' = [reader EXCEPT ![s] = "drain"]
    /\ events' = [events EXCEPT ![s] = Close(@)]
    /\ UNCHANGED <<clientVars, readerVars, resultVars, stopVars, workerVars, countVars,
                   budgetVars, jobs, writer, metrics>>

(* The checks after the joins, in their order: the status to return, "OK"  *)
(* when the trailer is still to be written.                                *)
FinalStatus(s) ==
    IF status[s] # "OK" THEN status[s]
    ELSE IF client_gone[s] \/ gone[s] THEN "CANCELLED"
    ELSE IF ~saw_input[s] THEN "INVALID_ARGUMENT"
    ELSE IF abort_on_error[s] /\ page_failed[s] > 0 THEN "ABORTED"
    ELSE "OK"

(* What these checks count.  A refused message was counted when refused. *)
CountedTwice(s, final) ==
    IF final = "ABORTED" THEN [metrics EXCEPT !.failed = @ + 1]
    ELSE IF final \in ReadErrors THEN [metrics EXCEPT !.rejected = @ + 1] ELSE metrics
Counted(s, final) ==
    IF final = "ABORTED" THEN [metrics EXCEPT !.failed = @ + 1]
    ELSE IF status[s] = "OK" /\ final = "INVALID_ARGUMENT"
         THEN [metrics EXCEPT !.rejected = @ + 1]
    ELSE metrics

(* writer.join(), then the checks. *)
Finish(s) ==
    LET final == FinalStatus(s) IN
    /\ reader[s] = "drain"
    /\ writer[s] = "exited"
    /\ reader' = [reader EXCEPT ![s] = IF final = "OK" THEN "trailer" ELSE "done"]
    /\ outcome' = [outcome EXCEPT ![s] = IF final = "OK" THEN @ ELSE final]
    /\ metrics' = Counted(s, final)
    /\ UNCHANGED <<clientVars, readerVars, wire, stopVars, workerVars, countVars,
                   budgetVars, jobs, events, writer>>

(* The trailer goes out on the RPC thread.  A failed write is ignored. *)
WriteTrailer(s) ==
    /\ reader[s] = "trailer"
    /\ reader' = [reader EXCEPT ![s] = "done"]
    /\ outcome' = [outcome EXCEPT ![s] = "OK"]
    /\ \/ wire' = [wire EXCEPT ![s] = Append(@, [kind |-> "complete", started |-> started[s],
                                        ok |-> ok[s], failed |-> page_failed[s]])]
       \/ UNCHANGED wire
    /\ metrics' = [metrics EXCEPT !.converted = @ + 1, !.pages_ok = @ + ok[s],
                                  !.pages_failed = @ + page_failed[s]]
    /\ UNCHANGED <<clientVars, readerVars, stopVars, workerVars, countVars, budgetVars,
                   jobs, events, writer>>

-----------------------------------------------------------------------------
(* The workers.                                                            *)

(* jobs.pop(&job), which returns false once closed and drained. *)
PopJobCopies(s, w) ==
    /\ worker[s][w] = "pop"
    /\ ~Empty(jobs[s])
    /\ worker' = [worker EXCEPT ![s][w] = "check"]
    /\ job' = [job EXCEPT ![s][w] = NextValue(jobs[s])]
    /\ UNCHANGED <<clientVars, readerVars, resultVars, stopVars, countVars, budgetVars,
                   reader, jobs, events, writer, metrics>>
PopJob(s, w) ==
    /\ worker[s][w] = "pop"
    /\ ~Empty(jobs[s])
    /\ worker' = [worker EXCEPT ![s][w] = "check"]
    /\ job' = [job EXCEPT ![s][w] = NextValue(jobs[s])]
    /\ jobs' = [jobs EXCEPT ![s] = Pop(@)]
    /\ UNCHANGED <<clientVars, readerVars, resultVars, stopVars, countVars, budgetVars,
                   reader, events, writer, metrics>>

ExitWorkerUndrained(s, w) ==
    /\ worker[s][w] = "pop"
    /\ jobs[s].closed
    /\ worker' = [worker EXCEPT ![s][w] = "exited"]
    /\ UNCHANGED <<clientVars, readerVars, resultVars, stopVars, job, countVars, budgetVars,
                   reader, jobs, events, writer, metrics>>
ExitWorker(s, w) ==
    /\ worker[s][w] = "pop"
    /\ Empty(jobs[s]) /\ jobs[s].closed
    /\ worker' = [worker EXCEPT ![s][w] = "exited"]
    /\ UNCHANGED <<clientVars, readerVars, resultVars, stopVars, job, countVars, budgetVars,
                   reader, jobs, events, writer, metrics>>

(* if (halted()) continue, which drops the job. *)
SkipLeaks(s, w) ==
    /\ worker[s][w] = "check"
    /\ worker' = [worker EXCEPT ![s][w] = IF halt[s] THEN "pop" ELSE "slot_line"]
    /\ UNCHANGED <<clientVars, readerVars, resultVars, stopVars, job, countVars, budgetVars,
                   reader, jobs, events, writer, metrics>>
SkipOrGoOn(s, w) ==
    /\ worker[s][w] = "check"
    /\ worker' = [worker EXCEPT ![s][w] = IF halt[s] THEN "drop_job" ELSE "slot_line"]
    /\ UNCHANGED <<clientVars, readerVars, resultVars, stopVars, job, countVars, budgetVars,
                   reader, jobs, events, writer, metrics>>

(* vlm_slots_.acquire(1, halted) *)
AcquireSlot(s, w) ==
    LET me == WorkerId(s, w)
        b == IF worker[s][w] = "slot_line" THEN Enter(vlm_slots, me) ELSE vlm_slots
        turn == TurnOf(b, me, Clamp(b, 1), halt[s])
    IN  /\ worker[s][w] \in {"slot_line", "slot_wait"}
        /\ vlm_slots' = AfterTurn(b, me, Clamp(b, 1), halt[s])
        /\ worker' = [worker EXCEPT ![s][w] =
              CASE turn = "holding" -> "call" [] turn = "idle" -> "drop_job"
                [] OTHER -> "slot_wait"]
        /\ UNCHANGED <<clientVars, readerVars, resultVars, stopVars, job, countVars,
                       stream_bytes, buffered_bytes, reader, jobs, events, writer, metrics>>

(* convert_page is cut short by its cancel probe: the page emits nothing. *)
CutCallLeaks(s, w) ==
    /\ worker[s][w] = "call"
    /\ halt[s]
    /\ worker' = [worker EXCEPT ![s][w] = "drop_job"]
    /\ UNCHANGED <<clientVars, readerVars, resultVars, stopVars, job, countVars, budgetVars,
                   reader, jobs, events, writer, metrics>>
CutCall(s, w) ==
    /\ worker[s][w] = "call"
    /\ halt[s]
    /\ worker' = [worker EXCEPT ![s][w] = "drop_slot"]
    /\ UNCHANGED <<clientVars, readerVars, resultVars, stopVars, job, countVars, budgetVars,
                   reader, jobs, events, writer, metrics>>

(* failed_page && options.abort_on_error() *)
AfterAnswerAborts(s, kind) == IF kind = "page_raw" THEN "abort" ELSE "drop_slot"
AfterAnswer(s, kind) ==
    IF kind = "page_raw" /\ abort_on_error[s] THEN "abort" ELSE "drop_slot"

(* convert_page answers with a document, or with a PageRaw (a failed call, *)
(* an answer that does not map, a throw); the page is counted and its      *)
(* event queued.                                                           *)
Answer(s, w, kind) ==
    /\ worker[s][w] = "call"
    /\ worker' = [worker EXCEPT ![s][w] = AfterAnswer(s, kind)]
    /\ ok' = [ok EXCEPT ![s] = IF kind = "page_document" THEN @ + 1 ELSE @]
    /\ page_failed' = [page_failed EXCEPT ![s] = IF kind = "page_raw" THEN @ + 1 ELSE @]
    /\ metrics' = [metrics EXCEPT !.pages_finished = @ + 1]
    /\ events' = [events EXCEPT ![s] = Push(@, [kind |-> kind, page |-> job[s][w].page])]
    /\ UNCHANGED <<clientVars, readerVars, resultVars, stopVars, job, budgetVars, reader,
                   jobs, writer>>

(* A failed page under abort_on_error: halt = true. *)
Abort(s, w) ==
    /\ worker[s][w] = "abort"
    /\ worker' = [worker EXCEPT ![s][w] = "drop_slot"]
    /\ halt' = [halt EXCEPT ![s] = TRUE]
    /\ UNCHANGED <<clientVars, readerVars, resultVars, client_gone, job, countVars,
                   budgetVars, reader, jobs, events, writer, metrics>>

(* The end of the iteration: ~slot, then ~job with both byte leases. *)
DropSlotLeaks(s, w) ==
    /\ worker[s][w] = "drop_slot"
    /\ worker' = [worker EXCEPT ![s][w] = "drop_job"]
    /\ UNCHANGED <<clientVars, readerVars, resultVars, stopVars, job, countVars, budgetVars,
                   reader, jobs, events, writer, metrics>>
DropSlot(s, w) ==
    /\ worker[s][w] = "drop_slot"
    /\ worker' = [worker EXCEPT ![s][w] = "drop_job"]
    /\ vlm_slots' = Release(vlm_slots, Clamp(vlm_slots, 1))
    /\ UNCHANGED <<clientVars, readerVars, resultVars, stopVars, job, countVars,
                   stream_bytes, buffered_bytes, reader, jobs, events, writer, metrics>>

DropJobOnceWritten(s, w) ==
    LET n == job[s][w].bytes IN
    /\ worker[s][w] = "drop_job"
    /\ halt[s] \/ \E i \in DOMAIN wire[s] : wire[s][i].kind # "page_started"
                                          /\ wire[s][i].page = job[s][w].page
    /\ worker' = [worker EXCEPT ![s][w] = "pop"]
    /\ job' = [job EXCEPT ![s][w] = NoJob]
    /\ buffered_bytes' = Release(buffered_bytes, Clamp(buffered_bytes, n))
    /\ stream_bytes' = [stream_bytes EXCEPT ![s] = Release(@, Clamp(@, n))]
    /\ UNCHANGED <<clientVars, readerVars, resultVars, stopVars, countVars, vlm_slots,
                   reader, jobs, events, writer, metrics>>
DropJob(s, w) ==
    LET n == job[s][w].bytes IN
    /\ worker[s][w] = "drop_job"
    /\ worker' = [worker EXCEPT ![s][w] = "pop"]
    /\ job' = [job EXCEPT ![s][w] = NoJob]
    /\ buffered_bytes' = Release(buffered_bytes, Clamp(buffered_bytes, n))
    /\ stream_bytes' = [stream_bytes EXCEPT ![s] = Release(@, Clamp(@, n))]
    /\ UNCHANGED <<clientVars, readerVars, resultVars, stopVars, countVars, vlm_slots,
                   reader, jobs, events, writer, metrics>>

-----------------------------------------------------------------------------
(* The writer.  "poll": the cancel check is due, as it is at the start and *)
(* after a pop that timed out; "poll_maybe": it may be, after a write.     *)

(* client_gone = true; halt = true; return *)
WriterStops(s) ==
    /\ writer' = [writer EXCEPT ![s] = "exited"]
    /\ client_gone' = [client_gone EXCEPT ![s] = TRUE]
    /\ halt' = [halt EXCEPT ![s] = TRUE]

(* events.pop_for, by what the writer does next: kValue, kClosed (only     *)
(* once drained) or kTimeout.                                              *)
PopForUndrained(ch) == IF ch.closed THEN "exited" ELSE IF ~Empty(ch) THEN "write" ELSE "poll"
PopFor(ch) == IF ~Empty(ch) THEN "write" ELSE IF ch.closed THEN "exited" ELSE "poll"

(* A turn of the writer's loop up to write(): the cancel check when it is  *)
(* due, then the next event.                                               *)
WriterTurn(s) ==
    /\ writer[s] \in {"poll", "poll_maybe"}
    /\ \/ /\ gone[s]
          /\ WriterStops(s)
          /\ UNCHANGED events
       \/ /\ writer[s] = "poll_maybe" \/ ~gone[s]
          /\ writer' = [writer EXCEPT ![s] = PopFor(events[s])]
          /\ events' = IF PopFor(events[s]) = "write" THEN [events EXCEPT ![s] = Pop(@)]
                                                      ELSE events
          /\ UNCHANGED stopVars
    /\ UNCHANGED <<clientVars, readerVars, resultVars, workerVars, countVars, budgetVars,
                   reader, jobs, metrics>>

(* write(event) succeeds: the transport takes the event last popped. *)
WriteEvent(s) ==
    /\ writer[s] = "write"
    /\ writer' = [writer EXCEPT ![s] = "poll_maybe"]
    /\ wire' = [wire EXCEPT ![s] = Append(@, events[s].log[events[s].taken])]
    /\ UNCHANGED <<clientVars, readerVars, outcome, stopVars, workerVars, countVars,
                   budgetVars, reader, jobs, events, metrics>>

(* write(event) fails: the transport broke, or on HTTP the event has no    *)
(* JSON form.                                                              *)
WriteFails(s) ==
    /\ writer[s] = "write"
    /\ WriterStops(s)
    /\ UNCHANGED <<clientVars, readerVars, resultVars, workerVars, countVars, budgetVars,
                   reader, jobs, events, metrics>>

-----------------------------------------------------------------------------
AllDone ==
    /\ \A s \in Streams : reader[s] = "done"
    /\ UNCHANGED vars

ReaderStep(s) ==
    \/ TestHalted(s) \/ AcquireStream(s) \/ AcquireProcess(s) \/ Announce(s) \/ Enqueue(s)
    \/ CloseJobs(s) \/ CloseEvents(s) \/ Finish(s)

ClientStep(s) ==
    \/ \E code \in OptionErrors : RefuseOptions(s, code)
    \/ \E request \in Requests : Open(s, request)
    \/ Cancel(s)
    \/ ReadEnd(s)
    \/ \E m \in Messages : ReadMessage(s, m)

WorkerStep(s, w) ==
    \/ PopJob(s, w) \/ ExitWorker(s, w) \/ SkipOrGoOn(s, w) \/ AcquireSlot(s, w)
    \/ CutCall(s, w) \/ Abort(s, w) \/ DropSlot(s, w) \/ DropJob(s, w)

EndpointStep(s, w) == \E kind \in {"page_document", "page_raw"} : Answer(s, w, kind)

TransportStep(s) == WriteEvent(s) \/ WriteFails(s) \/ WriteTrailer(s)

Next ==
    \/ \E s \in Streams :
          \/ ReaderStep(s) \/ ClientStep(s) \/ WriterTurn(s) \/ TransportStep(s)
          \/ \E w \in Workers : WorkerStep(s, w) \/ EndpointStep(s, w)
    \/ AllDone

Spec == Init /\ [][Next]_vars

-----------------------------------------------------------------------------
(* Fairness.  Threads that can go on do: the scheduler, the condition      *)
(* variables of the channels and the polling of the budgets see to that.   *)
(* Once the transport is gone, read() and write() return.                  *)
ServerFairness ==
    \A s \in Streams :
        /\ WF_vars(ReaderStep(s)) /\ WF_vars(WriterTurn(s))
        /\ WF_vars(gone[s] /\ ReadEnd(s)) /\ WF_vars(gone[s] /\ TransportStep(s))
        /\ \A w \in Workers : WF_vars(WorkerStep(s, w))

(* Every VLM call ends: vlm_timeout_seconds bounds it. *)
CallsEnd ==
    \A s \in Streams, w \in Workers : WF_vars(EndpointStep(s, w))

(* A client goes on sending, and half-closes after its last message. *)
ClientSends ==
    \A s \in Streams : WF_vars(ReadEnd(s) \/ \E m \in Messages : ReadMessage(s, m))

(* A client that reads events while it uploads. *)
ClientReads == \A s \in Streams : WF_vars(TransportStep(s))

(* A client that reads no event before its upload is over (gRParse). *)
ClientReadsLast == \A s \in Streams : WF_vars(uploaded[s] /\ TransportStep(s))

UnattendedSpec == Spec /\ ServerFairness

-----------------------------------------------------------------------------
(* Properties.                                                             *)

ReaderStates ==
    {"idle", "top", "reading", "stream_line", "stream_wait", "process_line", "process_wait",
     "announce", "enqueue", "leave", "join", "drain", "trailer", "done"}
WorkerStates ==
    {"pop", "check", "slot_line", "slot_wait", "call", "abort", "drop_slot", "drop_job", "exited"}
Jobs == [page : Nat, bytes : Nat]
PageEvents == [kind : {"page_started", "page_document", "page_raw"}, page : Nat]
Trailers == [kind : {"complete"}, started : Nat, ok : Nat, failed : Nat]
Channels(values) == [log : Seq(values), taken : Nat, closed : BOOLEAN]

(* The ranges of what the threads of a stream keep; in particular no       *)
(* channel is popped past its end and no page is numbered above max_pages. *)
ThreadsOK ==
    /\ gone \in [Streams -> BOOLEAN] /\ uploaded \in [Streams -> BOOLEAN]
    /\ reads \in [Streams -> 0..MaxReads]
    /\ wire \in [Streams -> Seq(PageEvents \cup Trailers)]
    /\ outcome \in [Streams -> {"none", "OK", "CANCELLED", "ABORTED"} \cup OptionErrors \cup ReadErrors]
    /\ reader \in [Streams -> ReaderStates]
    /\ image \in [Streams -> Nat]
    /\ status \in [Streams -> {"OK"} \cup ReadErrors]
    /\ saw_input \in [Streams -> BOOLEAN] /\ abort_on_error \in [Streams -> BOOLEAN]
    /\ started \in [Streams -> 0..MaxPages]
    /\ ok \in [Streams -> Nat] /\ page_failed \in [Streams -> Nat]
    /\ halt \in [Streams -> BOOLEAN] /\ client_gone \in [Streams -> BOOLEAN]
    /\ jobs \in [Streams -> Channels(Jobs)] /\ events \in [Streams -> Channels(PageEvents)]
    /\ \A s \in Streams : jobs[s].taken <= Len(jobs[s].log) /\ events[s].taken <= Len(events[s].log)
    /\ worker \in [Streams -> [Workers -> WorkerStates]]
    /\ job \in [Streams -> [Workers -> Jobs]]
    /\ writer \in [Streams -> {"poll", "poll_maybe", "write", "exited"}]

(* The ranges of the shared counters and of the budgets. *)
SharedOK ==
    /\ stream_bytes \in [Streams -> Budgets(1..MaxPages)]
    /\ buffered_bytes \in Budgets(1..(NStreams * MaxPages))
    /\ vlm_slots \in Budgets(1..(NStreams * Concurrency))
    /\ metrics \in [DOMAIN NewMetrics -> Nat]

(* Every variable of every stream, thread and counter stays in its range. *)
TypeOK == ThreadsOK /\ SharedOK

AnswerKinds == {"page_document", "page_raw"}

(* Whatever becomes of a stream, its client sees a page's PageStarted      *)
(* before its answer, and at most one of each: two workers never answer    *)
(* one page, and no answer overtakes the announcement made on another      *)
(* thread.                                                                 *)
AnsweredOnceAfterStart ==
    \A s \in Streams : \A j \in DOMAIN wire[s] :
        /\ wire[s][j].kind \in AnswerKinds =>
              \E i \in 1..(j - 1) :
                  wire[s][i] = [kind |-> "page_started", page |-> wire[s][j].page]
        /\ \A i \in 1..(j - 1) :
              /\ wire[s][i] # wire[s][j]
              /\ wire[s][i].kind \in AnswerKinds /\ wire[s][j].kind \in AnswerKinds
                    => wire[s][i].page # wire[s][j].page

(* An OK stream is a whole one: every page announced was answered, and     *)
(* every event queued reached the transport, in order.                     *)
OkAnswersEveryPage ==
    \A s \in Streams : outcome[s] = "OK" =>
        /\ Len(wire[s]) >= Len(events[s].log)
        /\ \A i \in DOMAIN events[s].log : wire[s][i] = events[s].log[i]
        /\ \A p \in 1..started[s] : \E i \in DOMAIN events[s].log :
              events[s].log[i].kind \in AnswerKinds /\ events[s].log[i].page = p

Count(q, kind) == Cardinality({i \in DOMAIN q : q[i].kind = kind})

(* The trailer goes out for OK streams only, after every other event, and  *)
(* states what the client can count for itself; they add up.               *)
TrailerTellsTheCounts ==
    \A s \in Streams : \A i \in DOMAIN wire[s] : wire[s][i].kind = "complete" =>
        /\ outcome[s] = "OK" /\ i = Len(wire[s])
        /\ wire[s][i].started = Count(wire[s], "page_started")
        /\ wire[s][i].ok = Count(wire[s], "page_document")
        /\ wire[s][i].failed = Count(wire[s], "page_raw")
        /\ wire[s][i].started = wire[s][i].ok + wire[s][i].failed

(* A client told ABORTED was sent every event queued before, the failed    *)
(* page that aborted it included: the writer drains although the stream    *)
(* halted.                                                                 *)
AbortedWasExplained ==
    \A s \in Streams : outcome[s] = "ABORTED" =>
        /\ wire[s] = events[s].log
        /\ \E i \in DOMAIN wire[s] : wire[s][i].kind = "page_raw"

(* A stream halts only for a reason it will report: a client that left, a  *)
(* refused message, or a failed page under abort_on_error.  So no page of  *)
(* a good stream is ever skipped.                                          *)
HaltHasACause ==
    \A s \in Streams : halt[s] =>
        client_gone[s] \/ status[s] # "OK" \/ (abort_on_error[s] /\ page_failed[s] > 0)

(* A finished stream leaves nothing behind: no thread, no queued page, and *)
(* no place in a line that would hold up another stream.                   *)
NothingLeftBehind ==
    \A s \in Streams : reader[s] = "done" =>
        /\ writer[s] = "exited" /\ \A w \in Workers : worker[s][w] = "exited"
        /\ Empty(jobs[s]) /\ stream_bytes[s].used = 0 /\ stream_bytes[s].line = <<>>
        /\ \A i \in DOMAIN buffered_bytes.line :
              buffered_bytes.line[i] \notin {PageId(s, p) : p \in 1..MaxPages}
        /\ \A i \in DOMAIN vlm_slots.line :
              vlm_slots.line[i] \notin {WorkerId(s, w) : w \in Workers}

(* The counters main prints: each finished stream is counted once, under   *)
(* the kind of its end, except that a cancelled one is not counted.        *)
MetricsCountStreams ==
    LET ended(codes) == Cardinality({s \in Streams : outcome[s] \in codes})
        refused == {s \in Streams : outcome[s] = "none" /\ status[s] # "OK"}
    IN  /\ metrics.converted = ended({"OK"})
        /\ metrics.failed = ended({"ABORTED"})
        /\ metrics.rejected = ended(OptionErrors \cup ReadErrors) + Cardinality(refused)

(* Both channels are closed only when nobody can push to them any more:    *)
(* the workers are joined before events.close().                           *)
NoPushAfterClose ==
    [][\A s \in Streams :
          /\ events[s].closed => events'[s].log = events[s].log
          /\ jobs[s].closed => jobs'[s].log = jobs[s].log]_vars

(* A stream whose client left ends, though no client sends, reads or       *)
(* cancels any more, no VLM call ever returns by itself, and another       *)
(* stream keeps for ever the bytes that this one's reader waits for.       *)
(* (Neither a client that left nor a stream that ended comes back: that    *)
(* the formula is true again and again says that each such stream ends.)   *)
CancelledStreamEnds == []<>(\A s \in Streams : gone[s] => reader[s] = "done")

(* With clients that send and read and an endpoint whose calls end, every  *)
(* stream ends: no thread waits for another in a ring, whatever the caps.  *)
(* (A stream starts once and ends for good.)                               *)
EveryStreamEnds ==
    CallsEnd /\ ClientSends /\ ClientReads =>
        []<>(\A s \in Streams : reader[s] \in {"idle", "done"})

(* The event queue is unbounded so that a client that reads nothing before *)
(* its upload is over is served: it gets to the end of its upload and of   *)
(* the stream, unless the stream halts.                                    *)
UploadFirstEnds ==
    CallsEnd /\ ClientSends /\ ClientReadsLast =>
        \A s \in Streams : (reader[s] # "idle") ~> (reader[s] = "done" \/ halt[s])

(* What vlm_convert_service.cpp:443-444 says of a failed page under        *)
(* abort_on_error: "The stream fails ABORTED now whatever happens to the   *)
(* rest" (the client being still there).                                   *)
FailedPageAborts ==
    \A s \in Streams :
        /\ reader[s] = "done" /\ abort_on_error[s] /\ page_failed[s] > 0
        /\ ~gone[s] /\ ~client_gone[s]
        => outcome[s] = "ABORTED"
=============================================================================
