-------------------------- MODULE ConvertInvariant --------------------------
(***************************************************************************)
(* The inductive invariant of ConvertPages: where the pages of a stream    *)
(* are, and what its reader, workers and writer know of each other.  It    *)
(* does not mention the budgets: it holds whatever they grant.             *)
(***************************************************************************)
EXTENDS ConvertPages

(* What ThreadsOK says of one stream. *)
TypesAt(s) ==
    /\ reader[s] \in ReaderStates
    /\ writer[s] \in {"poll", "poll_maybe", "write", "exited"}
    /\ worker[s] \in [Workers -> WorkerStates]
    /\ job[s] \in [Workers -> Jobs]
    /\ jobs[s] \in Channels(Jobs) /\ jobs[s].taken <= Len(jobs[s].log)
    /\ events[s] \in Channels(PageEvents) /\ events[s].taken <= Len(events[s].log)
    /\ wire[s] \in Seq(PageEvents \cup Trailers)
    /\ started[s] \in 0..MaxPages /\ page_failed[s] \in Nat
    /\ halt[s] \in BOOLEAN /\ client_gone[s] \in BOOLEAN

(* A worker with a job in its hand, and one that has not answered it. *)
Busy(s, w) == worker[s][w] \notin {"pop", "exited"}
Owes(s, w) == worker[s][w] \in {"check", "slot_line", "slot_wait", "call"}

Answers(e, p) == e.kind \in AnswerKinds /\ e.page = p
Announces(e, p) == e.kind = "page_started" /\ e.page = p
Answered(s, p) == \E i \in DOMAIN events[s].log : Answers(events[s].log[i], p)

WorkersGone(s) == \A w \in Workers : worker[s][w] = "exited"

(* A stream not yet open is as Init made it. *)
Unopened(s) ==
    reader[s] = "idle" =>
        /\ WorkersGone(s) /\ writer[s] = "exited"
        /\ ~halt[s] /\ ~client_gone[s] /\ status[s] = "OK"
        /\ page_failed[s] = 0 /\ started[s] = 0
        /\ jobs[s].log = <<>> /\ jobs[s].taken = 0
        /\ events[s].log = <<>> /\ events[s].taken = 0
        /\ wire[s] = <<>>

(* The reader's place tells which channels are closed, who has been joined *)
(* and whether the status is out.                                          *)
ReaderPlace(s) ==
    /\ reader[s] \in {"stream_line", "stream_wait", "process_line", "process_wait", "announce"}
          => started[s] < MaxPages
    /\ jobs[s].closed => reader[s] \in {"join", "drain", "trailer", "done"}
    /\ reader[s] \in {"join", "drain", "trailer"} => jobs[s].closed
    /\ events[s].closed => reader[s] \in {"drain", "trailer", "done"}
    /\ reader[s] \in {"drain", "trailer"} => events[s].closed
    /\ reader[s] \in {"drain", "trailer", "done"} => WorkersGone(s)
    /\ reader[s] \in {"trailer", "done"} => writer[s] = "exited"
    /\ reader[s] # "done" <=> outcome[s] = "none"
    /\ reader[s] \notin {"leave", "join", "drain", "done"} => status[s] = "OK"

(* The jobs channel carries pages 1, 2, ... in the order of admission; a   *)
(* worker's page has left it, and no two workers have the same.            *)
JobPlace(s) ==
    /\ Len(jobs[s].log) = IF reader[s] = "enqueue" THEN started[s] - 1 ELSE started[s]
    /\ \A i \in DOMAIN jobs[s].log : jobs[s].log[i].page = i
    /\ \A w \in Workers : Busy(s, w) => job[s][w].page \in 1..jobs[s].taken
    /\ \A v, w \in Workers : v # w /\ Busy(s, v) /\ Busy(s, w) => job[s][v].page # job[s][w].page

(* Worker 1 always runs, and leaves only once jobs is closed and drained. *)
Drained(s) ==
    reader[s] \notin {"idle", "done"} /\ worker[s][1] = "exited" =>
        jobs[s].closed /\ Empty(jobs[s])

(* The events ever queued: every started page is announced, before it is   *)
(* answered, and neither twice.                                            *)
LogOrder(s) ==
    LET log == events[s].log IN
    /\ \A i \in DOMAIN log : log[i].page \in 1..started[s]
    /\ \A p \in 1..started[s] : \E i \in DOMAIN log : Announces(log[i], p)
    /\ \A j \in DOMAIN log : log[j].kind \in AnswerKinds =>
          /\ log[j].page \in 1..jobs[s].taken
          /\ \E i \in 1..(j - 1) : Announces(log[i], log[j].page)
    /\ \A i, j \in DOMAIN log : i # j =>
          /\ ~(log[i].kind = "page_started" /\ Announces(log[j], log[i].page))
          /\ ~(log[i].kind \in AnswerKinds /\ Answers(log[j], log[i].page))
    /\ \A w \in Workers : Owes(s, w) => ~Answered(s, job[s][w].page)

(* While the stream is not halted no page is dropped: one that left the    *)
(* jobs channel is owed by a worker or answered.                           *)
Accounted(s) ==
    ~halt[s] => \A p \in 1..jobs[s].taken :
        Answered(s, p) \/ \E w \in Workers : Owes(s, w) /\ job[s][w].page = p

(* Why a stream halts, and that a failed page is in the log. *)
Causes(s) ==
    /\ halt[s] =>
          client_gone[s] \/ status[s] # "OK" \/ (abort_on_error[s] /\ page_failed[s] > 0)
    /\ \A w \in Workers : worker[s][w] = "abort" => abort_on_error[s] /\ page_failed[s] > 0
    /\ page_failed[s] > 0 => \E i \in DOMAIN events[s].log : events[s].log[i].kind = "page_raw"

(* What the client was sent is a prefix of the log, all of it once the     *)
(* writer left of its own accord; then perhaps the trailer.                *)
WirePlace(s) ==
    LET log == events[s].log IN
    /\ \A i \in DOMAIN wire[s] :
          \/ i \in DOMAIN log /\ wire[s][i] = log[i]
          \/ outcome[s] = "OK" /\ i = Len(log) + 1 /\ wire[s][i].kind = "complete"
    /\ writer[s] \in {"poll", "poll_maybe"} => Len(wire[s]) = events[s].taken
    /\ writer[s] = "write" => Len(wire[s]) + 1 = events[s].taken
    /\ reader[s] \notin {"idle", "done"} /\ writer[s] = "exited" /\ ~client_gone[s] =>
          events[s].closed /\ Len(wire[s]) = Len(log)

(* An OK or ABORTED stream: what the checks after the joins established. *)
Ending(s) ==
    /\ reader[s] = "trailer" \/ outcome[s] = "OK" =>
          ~halt[s] /\ Empty(jobs[s]) /\ ~client_gone[s] /\ Len(wire[s]) >= Len(events[s].log)
    /\ outcome[s] = "ABORTED" =>
          page_failed[s] > 0 /\ Len(wire[s]) = Len(events[s].log)

StreamInv(s) ==
    /\ Unopened(s) /\ ReaderPlace(s) /\ JobPlace(s) /\ Drained(s) /\ LogOrder(s)
    /\ Accounted(s) /\ Causes(s) /\ WirePlace(s) /\ Ending(s)

PipelineInv == ThreadsOK /\ \A s \in Streams : StreamInv(s)

-----------------------------------------------------------------------------
(* The counters ok, page_failed and started are those of the events in the *)
(* queue, which are counted on three threads, and the trailer tells them.  *)
CountsTold(s) ==
    /\ started[s] = Count(events[s].log, "page_started")
    /\ ok[s] = Count(events[s].log, "page_document")
    /\ page_failed[s] = Count(events[s].log, "page_raw")
    /\ \A i \in DOMAIN wire[s] : wire[s][i].kind = "complete" =>
          wire[s][i] = [kind |-> "complete", started |-> started[s],
                        ok |-> ok[s], failed |-> page_failed[s]]

CountInv ==
    /\ \A s \in Streams : CountsTold(s)
    /\ metrics \in [DOMAIN NewMetrics -> Nat]
    /\ MetricsCountStreams

(* A step halts at most one stream, and none is started again. *)
HaltStep == halt' = halt \/ \E s \in Streams : ~halt[s] /\ halt' = [halt EXCEPT ![s] = TRUE]
=============================================================================
