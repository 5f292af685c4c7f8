------------------------- MODULE ConvertProofs ------------------------------
(***************************************************************************)
(* Each step of ConvertPages keeps PipelineInv, so it is an invariant, for *)
(* any number of streams, workers, pages and messages and any sizes of the *)
(* budgets; and each step keeps CountInv, what is counted.  There is a     *)
(* lemma for the steps of each thread of a stream, with a step for each    *)
(* action: its "flat" says that a stream with the action's effect on it    *)
(* keeps its StreamInv, and the rest takes that to the action and to all   *)
(* streams.                                                                *)
(***************************************************************************)
EXTENDS ConvertInvariant, TLAPS

-----------------------------------------------------------------------------
(* Channels and the log.                                                   *)

LEMMA PushFacts ==
  ASSUME NEW V, NEW ch \in Channels(V), NEW v \in V
  PROVE  /\ Push(ch, v) \in Channels(V)
         /\ Push(ch, v).log = Append(ch.log, v)
         /\ Push(ch, v).taken = ch.taken /\ Push(ch, v).closed = ch.closed
<1>1. Append(ch.log, v) \in Seq(V)
  BY DEF Channels
<1>2. Push(ch, v) \in Channels(V)
  BY <1>1 DEF Channels, Push
<1>3. /\ Push(ch, v).log = Append(ch.log, v)
      /\ Push(ch, v).taken = ch.taken /\ Push(ch, v).closed = ch.closed
  BY DEF Channels, Push
<1> QED BY <1>2, <1>3

LEMMA CloseFacts ==
  ASSUME NEW V, NEW ch \in Channels(V)
  PROVE  /\ Close(ch) \in Channels(V) /\ Close(ch).closed
         /\ Close(ch).log = ch.log /\ Close(ch).taken = ch.taken
  BY DEF Channels, Close

LEMMA PopFacts ==
  ASSUME NEW V, NEW ch \in Channels(V)
  PROVE  /\ Pop(ch) \in Channels(V) /\ Pop(ch).taken = ch.taken + 1
         /\ Pop(ch).log = ch.log /\ Pop(ch).closed = ch.closed
  BY DEF Channels, Pop

LEMMA AppendFacts ==
  ASSUME NEW V, NEW q \in Seq(V), NEW e \in V
  PROVE  /\ Append(q, e) \in Seq(V)
         /\ Len(Append(q, e)) = Len(q) + 1
         /\ DOMAIN q = 1..Len(q) /\ Len(q) \in Nat
         /\ DOMAIN Append(q, e) = 1..(Len(q) + 1)
         /\ \A i \in 1..Len(q) : Append(q, e)[i] = q[i]
         /\ Append(q, e)[Len(q) + 1] = e
  OBVIOUS

(* l is q with e behind it. *)
Longer(q, e, l) ==
  /\ DOMAIN q = 1..Len(q) /\ Len(q) \in Nat /\ DOMAIN l = 1..(Len(q) + 1)
  /\ (\A i \in 1..Len(q) : l[i] = q[i]) /\ l[Len(q) + 1] = e

LEMMA AppendLonger ==
  ASSUME NEW V, NEW q \in Seq(V), NEW e \in V PROVE Longer(q, e, Append(q, e))
  BY AppendFacts DEF Longer

OneLonger(q, l) == Len(l) = Len(q) + 1

LEMMA AppendLength == ASSUME NEW V, NEW q \in Seq(V), NEW e \in V PROVE OneLonger(q, Append(q, e))
  BY AppendFacts DEF OneLonger

LEMMA ChannelFacts ==
  ASSUME NEW V, NEW ch \in Channels(V)
  PROVE  /\ ch.log \in Seq(V) /\ ch.taken \in Nat /\ Len(ch.log) \in Nat
         /\ DOMAIN ch.log = 1..Len(ch.log)
  BY DEF Channels

LEMMA ElementIn == ASSUME NEW V, NEW q \in Seq(V), NEW i \in DOMAIN q PROVE q[i] \in V
  OBVIOUS

LEMMA SequenceLength == ASSUME NEW V, NEW q \in Seq(V) PROVE Len(q) \in Nat
  OBVIOUS

LEMMA SomeLeft ==
  ASSUME NEW V, NEW ch \in Channels(V), ch.taken <= Len(ch.log), ~Empty(ch)
  PROVE  ch.taken < Len(ch.log)
  BY DEF Channels, Empty

LEMMA NextFits == ASSUME NEW n \in Nat, NEW m \in Nat, n < m PROVE n + 1 \in 1..m
  OBVIOUS

LEMMA OneIndexMore ==
  ASSUME NEW n \in Nat
  PROVE  /\ \A i \in 1..(n + 1) : i \in 1..n \/ i = n + 1
         /\ \A i \in 1..n : i \in 1..(n + 1)
         /\ n + 1 \in 1..(n + 1) /\ n + 1 \in Nat /\ n <= n + 1 /\ n <= n
  OBVIOUS

LEMMA NewIndex == ASSUME NEW n \in Nat PROVE n + 1 \notin 1..n /\ \A i \in 1..n : i \in Nat
  OBVIOUS

LEMMA OneLess == ASSUME NEW n \in Nat, NEW m \in Nat, n = m - 1 PROVE n + 1 = m
  OBVIOUS

LEMMA EarlierIndices == ASSUME NEW n \in Nat PROVE \A j \in 1..n : \A i \in 1..(j - 1) : i \in 1..n
  OBVIOUS

LEMMA BeforeNew == ASSUME NEW n \in Nat, NEW j, j = n + 1 PROVE \A i \in 1..n : i \in 1..(j - 1)
  OBVIOUS

LEMMA LastTaken == ASSUME NEW n \in Nat, NEW m, n + 1 = m, NEW k \in Nat, m <= k PROVE m \in 1..k
  OBVIOUS

LEMMA OneUp == ASSUME NEW n \in Nat PROVE n + 1 > 0
  OBVIOUS

LEMMA MoreIndices == ASSUME NEW n \in Nat, NEW m \in Nat, n <= m PROVE \A i \in 1..n : i \in 1..m
  OBVIOUS

(* Only pages that were started are taken from jobs. *)
LEMMA TakenAreStarted ==
  ASSUME NEW s \in Streams, JobPlace(s), TypesAt(s)
  PROVE  jobs[s].taken \in Nat /\ started[s] \in Nat /\ jobs[s].taken <= started[s]
<1>1. jobs[s].taken \in Nat /\ Len(jobs[s].log) \in Nat BY Zenon, ChannelFacts DEF TypesAt
<1>2. started[s] \in Nat BY SizesAssumption DEF TypesAt
<1>3. jobs[s].taken <= Len(jobs[s].log) BY Zenon DEF TypesAt
<1>4. Len(jobs[s].log) = started[s] - 1 \/ Len(jobs[s].log) = started[s] BY Zenon DEF JobPlace
<1> QED BY <1>1, <1>2, <1>3, <1>4

LEMMA WorkerOne == 1 \in Workers
  BY SizesAssumption DEF Workers

(* The jobs stay in their places when a step takes none from the channel. *)
LEMMA JobPlaceKept ==
  ASSUME NEW s \in Streams, JobPlace(s), reader'[s] = reader[s], started'[s] = started[s],
         jobs'[s] = jobs[s],
         \A v \in Workers : Busy(s, v)' => Busy(s, v) /\ job'[s][v] = job[s][v]
  PROVE  JobPlace(s)'
<1>1. \A v \in Workers : Busy(s, v)' => job'[s][v].page \in 1..jobs[s].taken
  BY Zenon DEF JobPlace
<1>2. \A v, w \in Workers : v # w /\ Busy(s, v)' /\ Busy(s, w)' => job'[s][v].page # job'[s][w].page
  BY Zenon DEF JobPlace
<1> QED BY Zenon, <1>1, <1>2 DEF JobPlace

-----------------------------------------------------------------------------
(* What the invariant says of a stream that a step leaves alone.           *)

LEMMA TypesThere ==
  ASSUME ThreadsOK, NEW s \in Streams
  PROVE  TypesAt(s)
  BY Zenon DEF ThreadsOK, TypesAt

(* The parts of a stream that most steps leave alone. *)
KeepsWorkers(s) == worker'[s] = worker[s] /\ job'[s] = job[s]
KeepsStops(s) ==
    /\ halt'[s] = halt[s] /\ client_gone'[s] = client_gone[s]
    /\ abort_on_error'[s] = abort_on_error[s] /\ page_failed'[s] = page_failed[s]
KeepsWire(s) ==
    /\ wire'[s] = wire[s] /\ outcome'[s] = outcome[s] /\ writer'[s] = writer[s]
KeepsQueues(s) == jobs'[s] = jobs[s] /\ events'[s] = events[s]
KeepsReader(s) == reader'[s] = reader[s] /\ status'[s] = status[s] /\ started'[s] = started[s]

(* The step leaves everything the invariant says of stream t alone. *)
Same(t) == KeepsWorkers(t) /\ KeepsStops(t) /\ KeepsWire(t) /\ KeepsQueues(t) /\ KeepsReader(t)

LEMMA LogKept ==
  ASSUME NEW s \in Streams, LogOrder(s), TypesAt(s),
         events'[s].log = events[s].log, started'[s] = started[s],
         jobs'[s].taken \in Nat, jobs[s].taken <= jobs'[s].taken,
         \A w \in Workers : Owes(s, w)' =>
             \/ Owes(s, w) /\ job'[s][w] = job[s][w]
             \/ job'[s][w].page = jobs[s].taken + 1
  PROVE  LogOrder(s)'
<1> DEFINE log == events[s].log
<1>1. log' = log /\ jobs[s].taken \in Nat
  BY Zenon DEF TypesAt, Channels
<1>2. \A w \in Workers : Owes(s, w)' => ~Answered(s, job[s][w].page)'
  <2> SUFFICES ASSUME NEW w \in Workers, Owes(s, w)', NEW i \in DOMAIN log, Answers(log[i], job'[s][w].page)
               PROVE  FALSE
    BY Zenon, <1>1 DEF Answered
  <2>1. CASE Owes(s, w) /\ job'[s][w] = job[s][w]
    BY Zenon, <2>1 DEF LogOrder, Answered
  <2>2. CASE job'[s][w].page = jobs[s].taken + 1
    BY <2>2, <1>1 DEF LogOrder, Answers
  <2> QED BY Zenon, <2>1, <2>2
<1>3. \A j \in DOMAIN log : log[j].kind \in AnswerKinds => log[j].page \in 1..jobs'[s].taken
  <2> SUFFICES ASSUME NEW j \in DOMAIN log, log[j].kind \in AnswerKinds
               PROVE  log[j].page \in 1..jobs'[s].taken
    OBVIOUS
  <2>1. log[j].page \in 1..jobs[s].taken
    BY Zenon DEF LogOrder
  <2> QED BY <2>1, <1>1
<1> QED BY Zenon, <1>1, <1>2, <1>3 DEF LogOrder

LEMMA AccountedKept ==
  ASSUME NEW s \in Streams, Accounted(s),
         events'[s].log = events[s].log, jobs'[s].taken = jobs[s].taken,
         halt'[s] \/ ( /\ ~halt[s]
                       /\ \A w \in Workers : Owes(s, w) => Owes(s, w)' /\ job'[s][w] = job[s][w] )
  PROVE  Accounted(s)'
  BY Zenon DEF Accounted, Answered

(* The workers and the log stand still. *)
LEMMA Quiet ==
  ASSUME NEW s \in Streams, StreamInv(s), worker'[s] = worker[s], job'[s] = job[s],
         events'[s].log = events[s].log, jobs'[s].taken = jobs[s].taken,
         started'[s] = started[s], halt[s] => halt'[s]
  PROVE  LogOrder(s)' /\ Accounted(s)'
<1>1. \A w \in Workers : Owes(s, w)' <=> Owes(s, w)
  BY Zenon DEF Owes
<1>2. LogOrder(s) /\ Accounted(s)
  BY Zenon DEF StreamInv
<1>3. LogOrder(s)'
  BY Zenon, <1>1, <1>2 DEF LogOrder, Answered
<1>4. Accounted(s)'
  BY Zenon, <1>1, <1>2, AccountedKept
<1> QED BY Zenon, <1>3, <1>4

LEMMA Frame ==
  ASSUME NEW s \in Streams, StreamInv(s), Same(s)
  PROVE  StreamInv(s)'
<1> USE DEF Same, KeepsWorkers, KeepsStops, KeepsWire, KeepsQueues, KeepsReader
<1>1. Unopened(s)' BY Zenon DEF StreamInv, Unopened, WorkersGone
<1>2. ReaderPlace(s)' BY Zenon DEF StreamInv, ReaderPlace, WorkersGone
<1>3. JobPlace(s)' BY Zenon DEF StreamInv, JobPlace, Busy
<1>4. Drained(s)' BY Zenon DEF StreamInv, Drained, Empty
<1>5. LogOrder(s)' /\ Accounted(s)' BY Zenon, Quiet
<1>7. Causes(s)' BY Zenon DEF StreamInv, Causes
<1>8. WirePlace(s)' BY Zenon DEF StreamInv, WirePlace
<1>9. Ending(s)' BY Zenon DEF StreamInv, Ending, Empty
<1> QED BY Zenon, <1>1, <1>2, <1>3, <1>4, <1>5, <1>7, <1>8, <1>9 DEF StreamInv

-----------------------------------------------------------------------------
(* From one stream to all of them.                                         *)

(* A step of stream s: the invariant of the others is framed. *)
LEMMA OneStream ==
  ASSUME PipelineInv, ThreadsOK', NEW s \in Streams,
         \A t \in Streams \ {s} : Same(t), StreamInv(s)'
  PROVE  PipelineInv'
  BY Zenon, Frame DEF PipelineInv

(* A step that changes nothing the invariant speaks of, or only gone. *)
LEMMA IdleKeeps ==
  ASSUME PipelineInv, UNCHANGED <<uploaded, reads, readerVars, resultVars, stopVars, workerVars,
                                  countVars, reader, jobs, events, writer>>,
         gone' \in [Streams -> BOOLEAN]
  PROVE  PipelineInv'
<1> USE DEF readerVars, resultVars, stopVars, workerVars, countVars
<1>1. ThreadsOK' BY Zenon DEF PipelineInv, ThreadsOK
<1>2. \A t \in Streams : Same(t)
  BY Zenon DEF Same, KeepsWorkers, KeepsStops, KeepsWire, KeepsQueues, KeepsReader
<1> QED BY Zenon, <1>1, <1>2, Frame DEF PipelineInv

-----------------------------------------------------------------------------
(* The handler's thread: the read loop and the end of a stream.            *)

(* The places of the read loop where a page is not between its two pushes. *)
InHand == {"stream_line", "stream_wait", "process_line", "process_wait", "announce"}

USE DEF clientVars, readerVars, resultVars, stopVars, workerVars, countVars

(* The steps of the handler's thread and of the client. *)
LEMMA ReaderKeeps ==
  ASSUME PipelineInv, NEW s \in Streams
  PROVE  ReaderStep(s) \/ ClientStep(s) \/ WriteTrailer(s) => PipelineInv'
<1>moves. ASSUME StreamInv(s),
                 reader[s] \in InHand \cup {"top", "reading"},
                 reader'[s] \in InHand \cup {"top", "reading", "leave"},
                 reader'[s] \in InHand => started[s] < MaxPages,
                 reader'[s] # "leave" => status'[s] = status[s], status'[s] # "OK" \/ status'[s] = status[s],
                 started'[s] = started[s],
                 KeepsWorkers(s), KeepsStops(s), KeepsWire(s), KeepsQueues(s)
          PROVE  StreamInv(s)'
  <2> USE <1>moves
  <2> USE DEF KeepsWorkers, KeepsStops, KeepsWire, KeepsQueues
  <2>1. Unopened(s)' BY Zenon DEF InHand, Unopened
  <2>2. ReaderPlace(s)' BY Zenon DEF InHand, StreamInv, ReaderPlace, WorkersGone
  <2>3. JobPlace(s)' BY Zenon DEF InHand, StreamInv, JobPlace, Busy
  <2>4. Drained(s)' BY Zenon DEF InHand, StreamInv, Drained, Empty
  <2>5. LogOrder(s)' /\ Accounted(s)' BY Zenon, Quiet
  <2>7. Causes(s)' BY Zenon DEF StreamInv, Causes
  <2>8. WirePlace(s)' BY ZenonT(30) DEF InHand, StreamInv, WirePlace
  <2>9. Ending(s)' BY Zenon DEF InHand, StreamInv, Ending, ReaderPlace
  <2> QED BY Zenon, <2>1, <2>2, <2>3, <2>4, <2>5, <2>7, <2>8, <2>9 DEF StreamInv
<1>cancel. ASSUME Cancel(s)
           PROVE  PipelineInv'
  <2> USE <1>cancel
  <2>1. gone' \in [Streams -> BOOLEAN] BY DEF Cancel, PipelineInv, ThreadsOK
  <2> QED BY Zenon, <2>1, IdleKeeps DEF Cancel
<1>refuseOptions. ASSUME NEW code \in OptionErrors, RefuseOptions(s, code)
                  PROVE  PipelineInv'
  <2> USE <1>refuseOptions
  <2>flat. ASSUME StreamInv(s), reader[s] = "idle", reader'[s] = "done",
                  outcome'[s] \in OptionErrors, wire'[s] = wire[s], writer'[s] = writer[s],
                  status'[s] = status[s], started'[s] = started[s],
                  KeepsWorkers(s), KeepsStops(s), KeepsQueues(s)
           PROVE  StreamInv(s)'
    <3> USE <2>flat
    <3> USE DEF KeepsWorkers, KeepsStops, KeepsQueues
    <3>1. Unopened(s)' BY Zenon DEF Unopened
    <3>2. ReaderPlace(s)' BY Zenon DEF StreamInv, ReaderPlace, Unopened, WorkersGone, OptionErrors
    <3>3. JobPlace(s)' BY Zenon DEF StreamInv, JobPlace, Busy
    <3>4. Drained(s)' BY Zenon DEF Drained
    <3>5. LogOrder(s)' /\ Accounted(s)' BY Zenon, Quiet
    <3>7. Causes(s)' BY Zenon DEF StreamInv, Causes
    <3>8. WirePlace(s)' BY ZenonT(30) DEF StreamInv, WirePlace, Unopened
    <3>9. Ending(s)' BY Zenon DEF Ending, OptionErrors
    <3> QED BY Zenon, <3>1, <3>2, <3>3, <3>4, <3>5, <3>7, <3>8, <3>9 DEF StreamInv
  <2> USE DEF RefuseOptions
  <2>1. reader' \in [Streams -> ReaderStates]
    BY DEF PipelineInv, ThreadsOK, ReaderStates
  <2>2. outcome' \in [Streams -> {"none", "OK", "CANCELLED", "ABORTED"} \cup OptionErrors \cup ReadErrors]
    BY DEF PipelineInv, ThreadsOK
  <2>3. ThreadsOK' BY Zenon, <2>1, <2>2 DEF PipelineInv, ThreadsOK
  <2>4. \A t \in Streams \ {s} : Same(t)
    BY Zenon DEF PipelineInv, ThreadsOK, Same, KeepsWorkers, KeepsStops, KeepsWire, KeepsQueues, KeepsReader
  <2>5. /\ reader'[s] = "done" /\ outcome'[s] \in OptionErrors
        /\ KeepsWorkers(s) /\ KeepsStops(s) /\ KeepsQueues(s)
    BY Zenon DEF PipelineInv, ThreadsOK, KeepsWorkers, KeepsStops, KeepsQueues
  <2>6. StreamInv(s)' BY Zenon, <2>5, <2>flat DEF PipelineInv
  <2> QED BY Zenon, <2>3, <2>4, <2>6, OneStream
<1>open. ASSUME NEW request \in Requests, Open(s, request)
         PROVE  PipelineInv'
  <2> USE <1>open
  <2>flat. ASSUME StreamInv(s), reader[s] = "idle", reader'[s] = "top",
                  wire'[s] = wire[s], outcome'[s] = outcome[s], writer'[s] = "poll",
                  status'[s] = status[s], started'[s] = started[s], job'[s] = job[s],
                  halt'[s] = halt[s], client_gone'[s] = client_gone[s], page_failed'[s] = page_failed[s],
                  worker'[s][1] = "pop", \A w \in Workers : worker'[s][w] \in {"pop", "exited"},
                  KeepsQueues(s)
           PROVE  StreamInv(s)'
    <3> USE <2>flat
    <3> USE DEF KeepsQueues
    <3>1. Unopened(s)' BY Zenon DEF Unopened
    <3>2. ReaderPlace(s)' BY Zenon DEF StreamInv, ReaderPlace, Unopened
    <3>3. JobPlace(s)' BY Zenon DEF StreamInv, JobPlace, Busy
    <3>4. Drained(s)' BY Zenon DEF Drained
    <3>5. LogOrder(s)'
      <4>1. \A w \in Workers : ~Owes(s, w)' BY Zenon DEF Owes
      <4> QED BY SMTT(20), <4>1 DEF StreamInv, LogOrder, Answers, Announces
    <3>6. Accounted(s)' BY DEF StreamInv, Accounted, Unopened
    <3>7. Causes(s)' BY Zenon DEF StreamInv, Causes, Unopened
    <3>8. WirePlace(s)' BY DEF StreamInv, WirePlace, Unopened
    <3>9. Ending(s)' BY Zenon DEF StreamInv, Ending, ReaderPlace
    <3> QED BY Zenon, <3>1, <3>2, <3>3, <3>4, <3>5, <3>6, <3>7, <3>8, <3>9 DEF StreamInv
  <2> USE DEF Open
  <2>1. reader' \in [Streams -> ReaderStates]
    BY DEF PipelineInv, ThreadsOK, ReaderStates
  <2>2. request.abort_on_error \in BOOLEAN /\ request.concurrency \in Nat
    BY RequestsAssumption
  <2>3. abort_on_error' \in [Streams -> BOOLEAN]
    BY Zenon, <2>2 DEF PipelineInv, ThreadsOK
  <2>4. writer' \in [Streams -> {"poll", "poll_maybe", "write", "exited"}]
    BY DEF PipelineInv, ThreadsOK
  <2> DEFINE pool == [w \in Workers |->
               IF w <= EffectiveConcurrency(request.concurrency) THEN "pop" ELSE "exited"]
  <2>5. pool \in [Workers -> WorkerStates] BY Zenon DEF WorkerStates
  <2>6. pool[1] = "pop" /\ \A w \in Workers : pool[w] \in {"pop", "exited"}
    <3>1. 1 \in Workers /\ 1 <= EffectiveConcurrency(request.concurrency)
      BY <2>2, SizesAssumption DEF Workers, EffectiveConcurrency
    <3> QED BY Zenon, <3>1
  <2>7. worker' \in [Streams -> [Workers -> WorkerStates]] /\ worker'[s] = pool
    BY Zenon, <2>5 DEF PipelineInv, ThreadsOK
  <2>8. ThreadsOK' BY Zenon, <2>1, <2>3, <2>4, <2>7 DEF PipelineInv, ThreadsOK
  <2>9. \A t \in Streams \ {s} : Same(t)
    BY Zenon DEF PipelineInv, ThreadsOK, Same, KeepsWorkers, KeepsStops, KeepsWire, KeepsQueues, KeepsReader
  <2>10. reader'[s] = "top" /\ writer'[s] = "poll" /\ KeepsQueues(s)
    BY Zenon DEF PipelineInv, ThreadsOK, KeepsQueues
  <2>11. StreamInv(s)' BY Zenon, <2>6, <2>7, <2>10, <2>flat DEF PipelineInv
  <2> QED BY Zenon, <2>8, <2>9, <2>11, OneStream
<1>testHalted. ASSUME TestHalted(s)
               PROVE  PipelineInv'
  <2> USE <1>testHalted
  <2> USE DEF TestHalted
  <2>1. reader' \in [Streams -> ReaderStates]
    BY DEF PipelineInv, ThreadsOK, ReaderStates
  <2>2. ThreadsOK' BY Zenon, <2>1 DEF PipelineInv, ThreadsOK
  <2>3. \A t \in Streams \ {s} : Same(t)
    BY Zenon DEF PipelineInv, ThreadsOK, Same, KeepsWorkers, KeepsStops, KeepsWire, KeepsQueues, KeepsReader
  <2>4. /\ reader'[s] \in {"leave", "reading"}
        /\ KeepsWorkers(s) /\ KeepsStops(s) /\ KeepsWire(s) /\ KeepsQueues(s)
    BY Zenon DEF PipelineInv, ThreadsOK, KeepsWorkers, KeepsStops, KeepsWire, KeepsQueues
  <2>5. StreamInv(s)' BY Zenon, <2>4, <1>moves DEF PipelineInv, InHand
  <2> QED BY Zenon, <2>2, <2>3, <2>5, OneStream
<1>readEnd. ASSUME ReadEnd(s)
            PROVE  PipelineInv'
  <2> USE <1>readEnd
  <2> USE DEF ReadEnd
  <2>1. reader' \in [Streams -> ReaderStates] /\ uploaded' \in [Streams -> BOOLEAN]
    BY DEF PipelineInv, ThreadsOK, ReaderStates
  <2>2. ThreadsOK' BY Zenon, <2>1 DEF PipelineInv, ThreadsOK
  <2>3. \A t \in Streams \ {s} : Same(t)
    BY Zenon DEF PipelineInv, ThreadsOK, Same, KeepsWorkers, KeepsStops, KeepsWire, KeepsQueues, KeepsReader
  <2>4. reader'[s] = "leave" /\ KeepsWorkers(s) /\ KeepsStops(s) /\ KeepsWire(s) /\ KeepsQueues(s)
    BY Zenon DEF PipelineInv, ThreadsOK, KeepsWorkers, KeepsStops, KeepsWire, KeepsQueues
  <2>5. StreamInv(s)' BY Zenon, <2>4, <1>moves DEF PipelineInv, InHand
  <2> QED BY Zenon, <2>2, <2>3, <2>5, OneStream
<1>readMessage. ASSUME NEW m \in Messages, ReadMessage(s, m)
                PROVE  PipelineInv'
  <2> USE <1>readMessage
  <2> USE DEF ReadMessage
  <2>1. reads' \in [Streams -> 0..MaxReads]
    BY SMTT(20), SizesAssumption DEF PipelineInv, ThreadsOK
  <2>2. saw_input' \in [Streams -> BOOLEAN] BY Zenon DEF PipelineInv, ThreadsOK
  <2>3. Verdict(m, started[s]) = "admit" => started[s] < MaxPages /\ m.bytes \in Nat
    BY SMTT(20), MessagesAssumption, SizesAssumption DEF Verdict, MessageSpace, PipelineInv, ThreadsOK
  <2>4. /\ reader' \in [Streams -> ReaderStates] /\ image' \in [Streams -> Nat]
        /\ status' \in [Streams -> {"OK"} \cup ReadErrors]
    <3>1. reader' \in [Streams -> ReaderStates] BY Zenon DEF PipelineInv, ThreadsOK, ReaderStates
    <3>2. image' \in [Streams -> Nat] BY Zenon, <2>3 DEF PipelineInv, ThreadsOK
    <3>3. status' \in [Streams -> {"OK"} \cup ReadErrors] BY Zenon DEF PipelineInv, ThreadsOK
    <3> QED BY <3>1, <3>2, <3>3
  <2>5. ThreadsOK' BY Zenon, <2>1, <2>2, <2>4 DEF PipelineInv, ThreadsOK
  <2>6. \A t \in Streams \ {s} : Same(t)
    BY Zenon DEF PipelineInv, ThreadsOK, Same, KeepsWorkers, KeepsStops, KeepsWire, KeepsQueues, KeepsReader
  <2>7. KeepsWorkers(s) /\ KeepsStops(s) /\ KeepsWire(s) /\ KeepsQueues(s)
    BY Zenon DEF KeepsWorkers, KeepsStops, KeepsWire, KeepsQueues
  <2>8. \/ reader'[s] = "top" /\ status'[s] = status[s]
        \/ reader'[s] = "leave" /\ status'[s] \in ReadErrors
        \/ reader'[s] = "stream_line" /\ status'[s] = status[s] /\ started[s] < MaxPages
    BY Zenon, <2>3 DEF PipelineInv, ThreadsOK
  <2>9. StreamInv(s)' BY Zenon, <2>7, <2>8, <1>moves DEF PipelineInv, InHand, ReadErrors
  <2> QED BY Zenon, <2>5, <2>6, <2>9, OneStream
<1>acquireStream. ASSUME AcquireStream(s)
                  PROVE  PipelineInv'
  <2> USE <1>acquireStream
  <2> USE DEF AcquireStream
  <2>1. /\ reader[s] \in {"stream_line", "stream_wait"}
        /\ reader' \in [Streams -> ReaderStates] /\ \A t \in Streams \ {s} : reader'[t] = reader[t]
        /\ reader'[s] \in {"process_line", "leave", "stream_wait"}
    BY Zenon DEF PipelineInv, ThreadsOK, ReaderStates
  <2>2. ThreadsOK' BY Zenon, <2>1 DEF PipelineInv, ThreadsOK
  <2>3. \A t \in Streams \ {s} : Same(t)
    BY Zenon, <2>1 DEF Same, KeepsWorkers, KeepsStops, KeepsWire, KeepsQueues, KeepsReader
  <2>4. KeepsWorkers(s) /\ KeepsStops(s) /\ KeepsWire(s) /\ KeepsQueues(s)
    BY Zenon DEF KeepsWorkers, KeepsStops, KeepsWire, KeepsQueues
  <2>5. StreamInv(s) /\ started[s] < MaxPages
    BY Zenon, <2>1 DEF PipelineInv, StreamInv, ReaderPlace
  <2>6. StreamInv(s)' BY Zenon, <2>1, <2>4, <2>5, <1>moves DEF InHand
  <2> QED BY Zenon, <2>2, <2>3, <2>6, OneStream
<1>acquireProcess. ASSUME AcquireProcess(s)
                   PROVE  PipelineInv'
  <2> USE <1>acquireProcess
  <2> USE DEF AcquireProcess
  <2>1. /\ reader[s] \in {"process_line", "process_wait"}
        /\ reader' \in [Streams -> ReaderStates] /\ \A t \in Streams \ {s} : reader'[t] = reader[t]
        /\ reader'[s] \in {"announce", "leave", "process_wait"}
    BY Zenon DEF PipelineInv, ThreadsOK, ReaderStates
  <2>2. ThreadsOK' BY Zenon, <2>1 DEF PipelineInv, ThreadsOK
  <2>3. \A t \in Streams \ {s} : Same(t)
    BY Zenon, <2>1 DEF Same, KeepsWorkers, KeepsStops, KeepsWire, KeepsQueues, KeepsReader
  <2>4. KeepsWorkers(s) /\ KeepsStops(s) /\ KeepsWire(s) /\ KeepsQueues(s)
    BY Zenon DEF KeepsWorkers, KeepsStops, KeepsWire, KeepsQueues
  <2>5. StreamInv(s) /\ started[s] < MaxPages
    BY Zenon, <2>1 DEF PipelineInv, StreamInv, ReaderPlace
  <2>6. StreamInv(s)' BY Zenon, <2>1, <2>4, <2>5, <1>moves DEF InHand
  <2> QED BY Zenon, <2>2, <2>3, <2>6, OneStream
<1>announce. ASSUME Announce(s)
             PROVE  PipelineInv'
  <2> USE <1>announce
  <2>flat. ASSUME StreamInv(s), TypesAt(s),
                  reader[s] = "announce", reader'[s] = "enqueue",
                  status'[s] = status[s], started'[s] = started[s] + 1,
                  events'[s].log = Append(events[s].log, [kind |-> "page_started", page |-> started[s] + 1]),
                  events'[s].taken = events[s].taken, events'[s].closed = events[s].closed,
                  jobs'[s] = jobs[s], KeepsWorkers(s), KeepsStops(s), KeepsWire(s)
           PROVE  StreamInv(s)'
    <3> USE <2>flat
    <3> DEFINE log == events[s].log
               e == [kind |-> "page_started", page |-> started[s] + 1]
    <3> USE DEF KeepsWorkers, KeepsStops, KeepsWire
    <3>a. /\ log' = Append(log, e) /\ e.kind = "page_started" /\ e.page = started[s] + 1
          /\ started[s] \in Nat /\ started'[s] \in Nat /\ jobs[s].taken \in Nat
      BY DEF TypesAt, Channels
    <3>b. /\ DOMAIN log = 1..Len(log) /\ Len(log) \in Nat /\ DOMAIN log' = 1..(Len(log) + 1)
          /\ (\A i \in 1..Len(log) : log'[i] = log[i]) /\ log'[Len(log) + 1] = e
          /\ Len(log') = Len(log) + 1
      <4>1. log \in Seq(PageEvents) /\ e \in PageEvents
        BY Zenon, <3>a DEF TypesAt, Channels, PageEvents
      <4> QED BY <3>a, <4>1, AppendFacts
    <3> HIDE DEF e, log
    <3>c. \A i \in DOMAIN log : i \in DOMAIN log' /\ log'[i] = log[i]
      BY <3>b
    <3>d. \A p : Answered(s, p)' <=> Answered(s, p)
      <4>1. ~(e.kind \in AnswerKinds)
        BY Zenon, <3>a DEF AnswerKinds
      <4> QED BY SMTT(20), <4>1, <3>b DEF Answered, Answers, log
    <3>1. Unopened(s)' BY Zenon DEF Unopened
    <3>2. ReaderPlace(s)' BY Zenon DEF StreamInv, ReaderPlace, WorkersGone
    <3>3. JobPlace(s)' BY <3>a DEF StreamInv, JobPlace, Busy
    <3>4. Drained(s)' BY Zenon DEF StreamInv, Drained, Empty
    <3>5. LogOrder(s)'
      <4>0. LogOrder(s) BY Zenon DEF StreamInv
      <4>1. \A i \in DOMAIN log' : log'[i].page \in 1..started'[s]
        <5> SUFFICES ASSUME NEW i \in DOMAIN log' PROVE log'[i].page \in 1..started'[s]
          OBVIOUS
        <5>1. CASE i \in DOMAIN log
          <6>1. log[i].page \in 1..started[s] BY Zenon, <5>1, <4>0 DEF LogOrder, log
          <6> QED BY <6>1, <5>1, <3>a, <3>c
        <5>2. CASE i = Len(log) + 1 BY <5>2, <3>a, <3>b
        <5> QED BY <5>1, <5>2, <3>b
      <4>2. \A p \in 1..started'[s] : \E i \in DOMAIN log' : Announces(log'[i], p)
        <5> SUFFICES ASSUME NEW p \in 1..started'[s] PROVE \E i \in DOMAIN log' : Announces(log'[i], p)
          OBVIOUS
        <5>1. CASE p \in 1..started[s] BY Zenon, <5>1, <4>0, <3>c DEF LogOrder, log
        <5>2. CASE p = started[s] + 1
          <6>1. Announces(log'[Len(log) + 1], p) BY Zenon, <5>2, <3>a, <3>b DEF Announces
          <6>2. Len(log) + 1 \in DOMAIN log' BY <3>b
          <6> QED BY Zenon, <6>1, <6>2
        <5> QED BY <5>1, <5>2, <3>a
      <4>3. \A j \in DOMAIN log' : log'[j].kind \in AnswerKinds =>
              /\ log'[j].page \in 1..jobs'[s].taken
              /\ \E i \in 1..(j - 1) : Announces(log'[i], log'[j].page)
        <5> SUFFICES ASSUME NEW j \in DOMAIN log', log'[j].kind \in AnswerKinds
                     PROVE  /\ log'[j].page \in 1..jobs'[s].taken
                            /\ \E i \in 1..(j - 1) : Announces(log'[i], log'[j].page)
          OBVIOUS
        <5>1. j \in 1..Len(log) BY <3>a, <3>b DEF AnswerKinds
        <5>2. PICK i \in 1..(j - 1) : Announces(log[i], log[j].page)
          BY Zenon, <5>1, <4>0, <3>b DEF LogOrder, log
        <5>3. i \in 1..Len(log) BY <5>1, <3>b
        <5>4. log[j].page \in 1..jobs[s].taken BY Zenon, <5>1, <4>0, <3>b DEF LogOrder, log
        <5> QED BY Zenon, <5>1, <5>2, <5>3, <5>4, <3>b
      <4>4. \A i, j \in DOMAIN log' : i # j =>
              /\ ~(log'[i].kind = "page_started" /\ Announces(log'[j], log'[i].page))
              /\ ~(log'[i].kind \in AnswerKinds /\ Answers(log'[j], log'[i].page))
        <5> SUFFICES ASSUME NEW i \in DOMAIN log', NEW j \in DOMAIN log', i # j
                     PROVE  /\ ~(log'[i].kind = "page_started" /\ Announces(log'[j], log'[i].page))
                            /\ ~(log'[i].kind \in AnswerKinds /\ Answers(log'[j], log'[i].page))
          OBVIOUS
        <5>1. CASE i \in DOMAIN log /\ j \in DOMAIN log
          BY Zenon, <5>1, <4>0, <3>c DEF LogOrder, log
        <5>2. CASE i = Len(log) + 1 /\ j \in DOMAIN log
          <6>1. log'[j].page \in 1..started[s] /\ log'[i] = e BY Zenon, <5>2, <4>0, <3>b DEF LogOrder, log
          <6> QED BY <6>1, <3>a DEF Announces, AnswerKinds
        <5>3. CASE j = Len(log) + 1 /\ i \in DOMAIN log
          <6>1. log'[i].page \in 1..started[s] /\ log'[j] = e BY Zenon, <5>3, <4>0, <3>b DEF LogOrder, log
          <6> QED BY <6>1, <3>a DEF Announces, Answers, AnswerKinds
        <5> QED BY <5>1, <5>2, <5>3, <3>b
      <4>5. \A w \in Workers : Owes(s, w)' => ~Answered(s, job[s][w].page)'
        BY Zenon, <4>0, <3>d DEF LogOrder, Owes
      <4> QED BY Zenon, <4>1, <4>2, <4>3, <4>4, <4>5 DEF LogOrder, log
    <3>6. Accounted(s)'
      <4>1. Accounted(s) BY Zenon DEF StreamInv
      <4> QED BY <4>1, <3>d DEF Accounted, Owes
    <3>7. Causes(s)'
      <4>1. Causes(s) BY Zenon DEF StreamInv
      <4> QED BY Zenon, <4>1, <3>c DEF Causes, log
    <3>8. WirePlace(s)'
      <4>1. WirePlace(s) /\ ReaderPlace(s) BY Zenon DEF StreamInv
      <4>2. ~events[s].closed /\ outcome[s] = "none" BY Zenon, <4>1 DEF ReaderPlace
      <4> QED BY Zenon, <4>1, <4>2, <3>c DEF WirePlace, log
    <3>9. Ending(s)' BY Zenon DEF StreamInv, Ending, ReaderPlace
    <3> QED BY Zenon, <3>1, <3>2, <3>3, <3>4, <3>5, <3>6, <3>7, <3>8, <3>9 DEF StreamInv
  <2> USE DEF Announce
  <2> DEFINE e == [kind |-> "page_started", page |-> started[s] + 1]
  <2>0. StreamInv(s) /\ TypesAt(s) BY Zenon, TypesThere DEF PipelineInv
  <2>1. started[s] + 1 \in 0..MaxPages /\ started[s] + 1 \in Nat
    <3>1. started[s] < MaxPages BY Zenon, <2>0 DEF StreamInv, ReaderPlace
    <3> QED BY <3>1, <2>0, SizesAssumption DEF TypesAt
  <2>2. reader' \in [Streams -> ReaderStates] /\ started' \in [Streams -> 0..MaxPages]
    BY Zenon, <2>1 DEF PipelineInv, ThreadsOK, ReaderStates
  <2>3. e \in PageEvents BY <2>1 DEF PageEvents
  <2> HIDE DEF e
  <2>4. /\ Push(events[s], e) \in Channels(PageEvents)
        /\ Push(events[s], e).log = Append(events[s].log, e)
        /\ Push(events[s], e).taken = events[s].taken /\ Push(events[s], e).closed = events[s].closed
    <3>1. events[s] \in Channels(PageEvents) BY Zenon, <2>0 DEF TypesAt
    <3> QED BY Zenon, <3>1, <2>3, PushFacts
  <2>5. /\ events' \in [Streams -> Channels(PageEvents)] /\ events'[s] = Push(events[s], e)
        /\ \A t \in Streams \ {s} : events'[t] = events[t]
    BY Zenon, <2>4 DEF PipelineInv, ThreadsOK, e
  <2>6. \A t \in Streams : events'[t].taken <= Len(events'[t].log)
    <3>1. events'[s].taken <= Len(events'[s].log)
      <4>1. Len(events'[s].log) = Len(events[s].log) + 1
        BY <2>0, <2>3, <2>4, <2>5, AppendFacts DEF TypesAt, Channels
      <4> QED BY <4>1, <2>0, <2>4, <2>5 DEF TypesAt, Channels
    <3> QED BY Zenon, <3>1, <2>5 DEF PipelineInv, ThreadsOK
  <2>7. ThreadsOK' BY Zenon, <2>2, <2>5, <2>6 DEF PipelineInv, ThreadsOK
  <2>8. \A t \in Streams \ {s} : Same(t)
    BY Zenon, <2>5 DEF PipelineInv, ThreadsOK, Same, KeepsWorkers, KeepsStops, KeepsWire, KeepsQueues, KeepsReader
  <2>9. /\ reader'[s] = "enqueue" /\ started'[s] = started[s] + 1
        /\ KeepsWorkers(s) /\ KeepsStops(s) /\ KeepsWire(s)
    BY Zenon DEF PipelineInv, ThreadsOK, KeepsWorkers, KeepsStops, KeepsWire
  <2>10. StreamInv(s)' BY Zenon, <2>0, <2>4, <2>5, <2>9, <2>flat DEF e
  <2> QED BY Zenon, <2>7, <2>8, <2>10, OneStream
<1>enqueue. ASSUME Enqueue(s)
            PROVE  PipelineInv'
  <2> USE <1>enqueue
  <2>flat. ASSUME StreamInv(s), TypesAt(s),
                  reader[s] = "enqueue", reader'[s] = "top", status'[s] = status[s], started'[s] = started[s],
                  NEW n \in Nat, jobs'[s].log = Append(jobs[s].log, [page |-> started[s], bytes |-> n]),
                  jobs'[s].taken = jobs[s].taken, jobs'[s].closed = jobs[s].closed,
                  events'[s] = events[s], KeepsWorkers(s), KeepsStops(s), KeepsWire(s)
           PROVE  StreamInv(s)'
    <3> USE <2>flat
    <3> DEFINE log == jobs[s].log
               e == [page |-> started[s], bytes |-> n]
    <3> USE DEF KeepsWorkers, KeepsStops, KeepsWire
    <3>a. /\ log' = Append(log, e) /\ e.page = started[s]
          /\ started[s] \in Nat /\ jobs[s].taken \in Nat /\ jobs[s].taken <= Len(log)
      BY DEF TypesAt, Channels
    <3>b. /\ DOMAIN log = 1..Len(log) /\ Len(log) \in Nat /\ DOMAIN log' = 1..(Len(log) + 1)
          /\ (\A i \in 1..Len(log) : log'[i] = log[i]) /\ log'[Len(log) + 1] = e
          /\ Len(log') = Len(log) + 1
      <4>1. log \in Seq(Jobs) /\ e \in Jobs
        BY Zenon, <3>a DEF TypesAt, Channels, Jobs
      <4> QED BY <3>a, <4>1, AppendFacts
    <3> HIDE DEF e, log
    <3>0. ReaderPlace(s) /\ JobPlace(s) BY Zenon DEF StreamInv
    <3>1. Unopened(s)' BY Zenon DEF Unopened
    <3>2. ReaderPlace(s)' BY Zenon, <3>0 DEF ReaderPlace, WorkersGone
    <3>3. JobPlace(s)'
      <4>1. Len(log) = started[s] - 1 BY Zenon, <3>0 DEF JobPlace, log
      <4>2. Len(log) + 1 = started[s] BY Zenon, <4>1, <3>a, <3>b, OneLess
      <4>3. \A i \in DOMAIN log : log[i].page = i BY Zenon, <3>0 DEF JobPlace, log
      <4>4. \A i \in DOMAIN log' : i \in 1..Len(log) \/ i = Len(log) + 1 BY Zenon, <3>b, OneIndexMore
      <4>5. \A i \in DOMAIN log' : log'[i].page = i BY Zenon, <4>2, <4>3, <4>4, <3>a, <3>b
      <4>6. Len(log') = started'[s] /\ reader'[s] # "enqueue" BY Zenon, <4>2, <3>b
      <4> QED BY Zenon, <4>5, <4>6, <3>0 DEF JobPlace, Busy, log
    <3>4. Drained(s)' BY Zenon, <3>0 DEF StreamInv, Drained, ReaderPlace
    <3>5. LogOrder(s)' /\ Accounted(s)' BY Zenon, Quiet
    <3>7. Causes(s)' BY Zenon DEF StreamInv, Causes
    <3>8. WirePlace(s)' BY ZenonT(30) DEF StreamInv, WirePlace
    <3>9. Ending(s)' BY Zenon, <3>0 DEF Ending, ReaderPlace
    <3> QED BY Zenon, <3>1, <3>2, <3>3, <3>4, <3>5, <3>7, <3>8, <3>9 DEF StreamInv
  <2> USE DEF Enqueue
  <2> DEFINE e == [page |-> started[s], bytes |-> image[s]]
  <2>0. StreamInv(s) /\ TypesAt(s) /\ image[s] \in Nat BY Zenon, TypesThere DEF PipelineInv, ThreadsOK
  <2>1. e \in Jobs BY <2>0 DEF Jobs, TypesAt
  <2>2. reader' \in [Streams -> ReaderStates] BY Zenon DEF PipelineInv, ThreadsOK, ReaderStates
  <2> HIDE DEF e
  <2>4. /\ Push(jobs[s], e) \in Channels(Jobs)
        /\ Push(jobs[s], e).log = Append(jobs[s].log, e)
        /\ Push(jobs[s], e).taken = jobs[s].taken /\ Push(jobs[s], e).closed = jobs[s].closed
    <3>1. jobs[s] \in Channels(Jobs) BY Zenon, <2>0 DEF TypesAt
    <3> QED BY Zenon, <3>1, <2>1, PushFacts
  <2>5. /\ jobs' \in [Streams -> Channels(Jobs)] /\ jobs'[s] = Push(jobs[s], e)
        /\ \A t \in Streams \ {s} : jobs'[t] = jobs[t]
    BY Zenon, <2>4 DEF PipelineInv, ThreadsOK, e
  <2>6. \A t \in Streams : jobs'[t].taken <= Len(jobs'[t].log)
    <3>1. jobs'[s].taken <= Len(jobs'[s].log)
      <4>1. Len(jobs'[s].log) = Len(jobs[s].log) + 1
        BY <2>0, <2>1, <2>4, <2>5, AppendFacts DEF TypesAt, Channels
      <4> QED BY <4>1, <2>0, <2>4, <2>5 DEF TypesAt, Channels
    <3> QED BY Zenon, <3>1, <2>5 DEF PipelineInv, ThreadsOK
  <2>7. ThreadsOK' BY Zenon, <2>2, <2>5, <2>6 DEF PipelineInv, ThreadsOK
  <2>8. \A t \in Streams \ {s} : Same(t)
    BY Zenon, <2>5 DEF PipelineInv, ThreadsOK, Same, KeepsWorkers, KeepsStops, KeepsWire, KeepsQueues, KeepsReader
  <2>9. reader'[s] = "top" /\ KeepsWorkers(s) /\ KeepsStops(s) /\ KeepsWire(s)
    BY Zenon DEF PipelineInv, ThreadsOK, KeepsWorkers, KeepsStops, KeepsWire
  <2>10. StreamInv(s)' BY Zenon, <2>0, <2>4, <2>5, <2>9, <2>flat DEF e
  <2> QED BY Zenon, <2>7, <2>8, <2>10, OneStream
<1>closeJobs. ASSUME CloseJobs(s)
              PROVE  PipelineInv'
  <2> USE <1>closeJobs
  <2>flat. ASSUME StreamInv(s), TypesAt(s),
                  reader[s] = "leave", reader'[s] = "join", status'[s] = status[s], started'[s] = started[s],
                  halt'[s] = (halt[s] \/ status[s] # "OK"), client_gone'[s] = client_gone[s],
                  abort_on_error'[s] = abort_on_error[s], page_failed'[s] = page_failed[s],
                  jobs'[s].log = jobs[s].log, jobs'[s].taken = jobs[s].taken, jobs'[s].closed,
                  events'[s] = events[s], KeepsWorkers(s), KeepsWire(s)
           PROVE  StreamInv(s)'
    <3> USE <2>flat
    <3> USE DEF KeepsWorkers, KeepsWire
    <3>1. Unopened(s)' BY Zenon DEF Unopened
    <3>2. ReaderPlace(s)' BY Zenon DEF StreamInv, ReaderPlace, WorkersGone
    <3>3. JobPlace(s)'
      <4>1. JobPlace(s) BY Zenon DEF StreamInv
      <4>2. reader[s] # "enqueue" /\ reader'[s] # "enqueue" OBVIOUS
      <4> QED BY ZenonT(30), <4>1, <4>2 DEF JobPlace, Busy
    <3>4. Drained(s)' BY Zenon DEF StreamInv, Drained, Empty
    <3>5. LogOrder(s)' /\ Accounted(s)' BY Zenon, Quiet
    <3>7. Causes(s)' BY Zenon DEF StreamInv, Causes
    <3>8. WirePlace(s)' BY ZenonT(30) DEF StreamInv, WirePlace
    <3>9. Ending(s)' BY Zenon DEF StreamInv, Ending, ReaderPlace
    <3> QED BY Zenon, <3>1, <3>2, <3>3, <3>4, <3>5, <3>7, <3>8, <3>9 DEF StreamInv
  <2> USE DEF CloseJobs
  <2>0. StreamInv(s) /\ TypesAt(s) BY Zenon, TypesThere DEF PipelineInv
  <2>1. reader' \in [Streams -> ReaderStates] BY Zenon DEF PipelineInv, ThreadsOK, ReaderStates
  <2>2. halt' \in [Streams -> BOOLEAN] BY Zenon DEF PipelineInv, ThreadsOK
  <2>3. /\ Close(jobs[s]) \in Channels(Jobs) /\ Close(jobs[s]).closed
        /\ Close(jobs[s]).log = jobs[s].log /\ Close(jobs[s]).taken = jobs[s].taken
    <3>1. jobs[s] \in Channels(Jobs) BY Zenon, <2>0 DEF TypesAt
    <3> QED BY Zenon, <3>1, CloseFacts
  <2>4. /\ jobs' \in [Streams -> Channels(Jobs)] /\ jobs'[s] = Close(jobs[s])
        /\ \A t \in Streams \ {s} : jobs'[t] = jobs[t]
    BY Zenon, <2>3 DEF PipelineInv, ThreadsOK
  <2>5. \A t \in Streams : jobs'[t].taken <= Len(jobs'[t].log)
    BY Zenon, <2>3, <2>4 DEF PipelineInv, ThreadsOK
  <2>6. ThreadsOK' BY Zenon, <2>1, <2>2, <2>4, <2>5 DEF PipelineInv, ThreadsOK
  <2>7. \A t \in Streams \ {s} : Same(t)
    BY Zenon, <2>4 DEF PipelineInv, ThreadsOK, Same, KeepsWorkers, KeepsStops, KeepsWire, KeepsQueues, KeepsReader
  <2>8. /\ reader'[s] = "join" /\ halt'[s] = (halt[s] \/ status[s] # "OK")
        /\ KeepsWorkers(s) /\ KeepsWire(s)
    BY Zenon DEF PipelineInv, ThreadsOK, KeepsWorkers, KeepsWire
  <2>9. StreamInv(s)' BY Zenon, <2>0, <2>3, <2>4, <2>8, <2>flat
  <2> QED BY Zenon, <2>6, <2>7, <2>9, OneStream
<1>closeEvents. ASSUME CloseEvents(s)
                PROVE  PipelineInv'
  <2> USE <1>closeEvents
  <2>flat. ASSUME StreamInv(s), TypesAt(s),
                  reader[s] = "join", reader'[s] = "drain", WorkersGone(s),
                  status'[s] = status[s], started'[s] = started[s],
                  events'[s].log = events[s].log, events'[s].taken = events[s].taken, events'[s].closed,
                  jobs'[s] = jobs[s], KeepsWorkers(s), KeepsStops(s), KeepsWire(s)
           PROVE  StreamInv(s)'
    <3> USE <2>flat
    <3> USE DEF KeepsWorkers, KeepsStops, KeepsWire
    <3>1. Unopened(s)' BY Zenon DEF Unopened
    <3>2. ReaderPlace(s)' BY Zenon DEF StreamInv, ReaderPlace, WorkersGone
    <3>3. JobPlace(s)'
      <4>1. JobPlace(s) BY Zenon DEF StreamInv
      <4>2. reader[s] # "enqueue" /\ reader'[s] # "enqueue" OBVIOUS
      <4> QED BY ZenonT(30), <4>1, <4>2 DEF JobPlace, Busy
    <3>4. Drained(s)' BY Zenon DEF StreamInv, Drained, Empty
    <3>5. LogOrder(s)' /\ Accounted(s)' BY Zenon, Quiet
    <3>7. Causes(s)' BY Zenon DEF StreamInv, Causes
    <3>8. WirePlace(s)' BY ZenonT(30) DEF StreamInv, WirePlace
    <3>9. Ending(s)' BY Zenon DEF StreamInv, Ending, ReaderPlace
    <3> QED BY Zenon, <3>1, <3>2, <3>3, <3>4, <3>5, <3>7, <3>8, <3>9 DEF StreamInv
  <2> USE DEF CloseEvents
  <2>0. StreamInv(s) /\ TypesAt(s) BY Zenon, TypesThere DEF PipelineInv
  <2>1. reader' \in [Streams -> ReaderStates] BY Zenon DEF PipelineInv, ThreadsOK, ReaderStates
  <2>3. /\ Close(events[s]) \in Channels(PageEvents) /\ Close(events[s]).closed
        /\ Close(events[s]).log = events[s].log /\ Close(events[s]).taken = events[s].taken
    <3>1. events[s] \in Channels(PageEvents) BY Zenon, <2>0 DEF TypesAt
    <3> QED BY Zenon, <3>1, CloseFacts
  <2>4. /\ events' \in [Streams -> Channels(PageEvents)] /\ events'[s] = Close(events[s])
        /\ \A t \in Streams \ {s} : events'[t] = events[t]
    BY Zenon, <2>3 DEF PipelineInv, ThreadsOK
  <2>5. \A t \in Streams : events'[t].taken <= Len(events'[t].log)
    BY Zenon, <2>3, <2>4 DEF PipelineInv, ThreadsOK
  <2>6. ThreadsOK' BY Zenon, <2>1, <2>4, <2>5 DEF PipelineInv, ThreadsOK
  <2>7. \A t \in Streams \ {s} : Same(t)
    BY Zenon, <2>4 DEF PipelineInv, ThreadsOK, Same, KeepsWorkers, KeepsStops, KeepsWire, KeepsQueues, KeepsReader
  <2>8. reader'[s] = "drain" /\ WorkersGone(s) /\ KeepsWorkers(s) /\ KeepsStops(s) /\ KeepsWire(s)
    BY Zenon DEF PipelineInv, ThreadsOK, WorkersGone, KeepsWorkers, KeepsStops, KeepsWire
  <2>9. StreamInv(s)' BY Zenon, <2>0, <2>3, <2>4, <2>8, <2>flat
  <2> QED BY Zenon, <2>6, <2>7, <2>9, OneStream
<1>finish. ASSUME Finish(s)
           PROVE  PipelineInv'
  <2> USE <1>finish
  (* writer.join(): the checks end the stream, or leave it its trailer. *)
  <2>flat. ASSUME StreamInv(s), TypesAt(s), reader[s] = "drain", writer[s] = "exited",
                  status'[s] = status[s], started'[s] = started[s],
                  \/ reader'[s] = "trailer" /\ FinalStatus(s) = "OK" /\ outcome'[s] = outcome[s]
                  \/ /\ reader'[s] = "done" /\ FinalStatus(s) \notin {"OK", "none"}
                     /\ outcome'[s] = FinalStatus(s),
                  status[s] \in {"OK"} \cup ReadErrors,
                  wire'[s] = wire[s], writer'[s] = writer[s],
                  KeepsWorkers(s), KeepsStops(s), KeepsQueues(s)
           PROVE  StreamInv(s)'
    <3> USE <2>flat
    <3> USE DEF KeepsWorkers, KeepsStops, KeepsQueues
    <3>0. /\ ReaderPlace(s) /\ Drained(s) /\ Causes(s) /\ WirePlace(s)
          /\ halt[s] \in BOOLEAN /\ client_gone[s] \in BOOLEAN
      BY Zenon DEF StreamInv, TypesAt
    <3>a. outcome[s] = "none" BY Zenon, <3>0 DEF ReaderPlace
    <3>1. Unopened(s)' BY Zenon DEF Unopened
    <3>2. ReaderPlace(s)' BY ZenonT(30), <3>0, <3>a DEF FinalStatus, ReaderPlace, WorkersGone
    <3>3. JobPlace(s)' BY Zenon DEF StreamInv, JobPlace, Busy
    <3>4. Drained(s)' BY Zenon, <3>0 DEF Drained, Empty
    <3>5. LogOrder(s)' /\ Accounted(s)' BY Zenon, Quiet
    <3>7. Causes(s)' BY Zenon, <3>0 DEF Causes
    <3>8. WirePlace(s)' BY Zenon, <3>0, <3>a DEF WirePlace
    <3>9. Ending(s)'
      <4>1. CASE reader'[s] = "trailer"
        <5>1. ~client_gone[s] /\ ~halt[s] BY Zenon, <4>1, <3>0 DEF FinalStatus, Causes
        <5>2. Empty(jobs[s]) BY <3>0, SizesAssumption DEF Drained, ReaderPlace, WorkersGone, Workers
        <5>3. Len(wire[s]) = Len(events[s].log) BY Zenon, <3>0, <5>1 DEF WirePlace
        <5>4. Len(events[s].log) \in Nat BY DEF TypesAt, Channels
        <5> QED BY <4>1, <5>1, <5>2, <5>3, <5>4, <3>a DEF Ending, Empty
      <4>2. CASE outcome'[s] = FinalStatus(s) /\ reader'[s] = "done" /\ FinalStatus(s) # "OK"
        <5>1. FinalStatus(s) = "ABORTED" => ~client_gone[s] /\ page_failed[s] > 0
          BY Zenon DEF FinalStatus, ReadErrors
        <5>2. ~client_gone[s] => Len(wire[s]) = Len(events[s].log) BY Zenon, <3>0 DEF WirePlace
        <5> QED BY Zenon, <4>2, <5>1, <5>2 DEF Ending
      <4> QED BY Zenon, <4>1, <4>2
    <3> QED BY Zenon, <3>1, <3>2, <3>3, <3>4, <3>5, <3>7, <3>8, <3>9 DEF StreamInv
  <2> USE DEF Finish
  <2>0. StreamInv(s) /\ TypesAt(s) /\ status[s] \in {"OK"} \cup ReadErrors
    BY Zenon, TypesThere DEF PipelineInv, ThreadsOK
  <2>1. FinalStatus(s) \in {"OK", "CANCELLED", "ABORTED", "INVALID_ARGUMENT"} \cup ReadErrors
    BY Zenon, <2>0 DEF FinalStatus
  <2>2. reader' \in [Streams -> ReaderStates] BY Zenon DEF PipelineInv, ThreadsOK, ReaderStates
  <2>3. outcome' \in [Streams -> {"none", "OK", "CANCELLED", "ABORTED"} \cup OptionErrors \cup ReadErrors]
    BY Zenon, <2>1 DEF PipelineInv, ThreadsOK, ReadErrors
  <2>4. ThreadsOK' BY Zenon, <2>2, <2>3 DEF PipelineInv, ThreadsOK
  <2>5. \A t \in Streams \ {s} : Same(t)
    BY Zenon DEF PipelineInv, ThreadsOK, Same, KeepsWorkers, KeepsStops, KeepsWire, KeepsQueues, KeepsReader
  <2>6. KeepsWorkers(s) /\ KeepsStops(s) /\ KeepsQueues(s)
    BY Zenon DEF KeepsWorkers, KeepsStops, KeepsQueues
  <2>7. \/ reader'[s] = "trailer" /\ FinalStatus(s) = "OK" /\ outcome'[s] = outcome[s]
        \/ /\ reader'[s] = "done" /\ FinalStatus(s) \notin {"OK", "none"}
           /\ outcome'[s] = FinalStatus(s)
    <3>1. FinalStatus(s) # "none" BY Zenon, <2>1 DEF ReadErrors
    <3> QED BY Zenon, <3>1 DEF PipelineInv, ThreadsOK
  <2>8. StreamInv(s)' BY Zenon, <2>0, <2>6, <2>7, <2>flat
  <2> QED BY Zenon, <2>4, <2>5, <2>8, OneStream
<1>writeTrailer. ASSUME WriteTrailer(s)
                 PROVE  PipelineInv'
  <2> USE <1>writeTrailer
  <2>flat. ASSUME StreamInv(s), TypesAt(s),
                  reader[s] = "trailer", reader'[s] = "done", outcome'[s] = "OK",
                  status'[s] = status[s], started'[s] = started[s],
                  NEW e \in Trailers, wire'[s] = Append(wire[s], e) \/ wire'[s] = wire[s],
                  writer'[s] = writer[s], KeepsWorkers(s), KeepsStops(s), KeepsQueues(s)
           PROVE  StreamInv(s)'
    <3> USE <2>flat
    <3> USE DEF KeepsWorkers, KeepsStops, KeepsQueues
    <3>0. /\ ReaderPlace(s) /\ WirePlace(s) /\ Ending(s)
          /\ halt[s] \in BOOLEAN /\ client_gone[s] \in BOOLEAN
      BY Zenon DEF StreamInv, TypesAt
    <3>a. outcome[s] = "none" /\ writer[s] = "exited" /\ ~client_gone[s]
      BY Zenon, <3>0 DEF ReaderPlace, Ending
    <3>b. Len(wire[s]) = Len(events[s].log) /\ Len(events[s].log) \in Nat
      BY <3>0, <3>a DEF WirePlace, TypesAt, Channels
    <3>1. Unopened(s)' BY Zenon DEF Unopened
    <3>2. ReaderPlace(s)' BY Zenon, <3>0, <3>a DEF ReaderPlace, WorkersGone
    <3>3. JobPlace(s)' BY Zenon DEF StreamInv, JobPlace, Busy
    <3>4. Drained(s)' BY Zenon DEF Drained
    <3>5. LogOrder(s)' /\ Accounted(s)' BY Zenon, Quiet
    <3>7. Causes(s)' BY Zenon DEF StreamInv, Causes
    <3>8. WirePlace(s)'
      <4>1. CASE wire'[s] = wire[s] BY Zenon, <4>1, <3>0, <3>a DEF WirePlace
      <4>2. CASE wire'[s] = Append(wire[s], e)
        <5>1. e.kind = "complete" BY Zenon DEF Trailers
        <5>2. /\ DOMAIN wire[s] = 1..Len(wire[s]) /\ DOMAIN wire'[s] = 1..(Len(wire[s]) + 1)
              /\ \A i \in 1..Len(wire[s]) : wire'[s][i] = wire[s][i]
              /\ wire'[s][Len(wire[s]) + 1] = e
          BY <4>2, AppendFacts DEF TypesAt
        <5>3. \A i \in DOMAIN wire[s] : i \in DOMAIN events[s].log /\ wire[s][i] = events[s].log[i]
          BY Zenon, <3>0, <3>a DEF WirePlace
        <5> QED BY SMTT(20), <5>1, <5>2, <5>3, <3>a, <3>b DEF WirePlace
      <4> QED BY Zenon, <4>1, <4>2
    <3>9. Ending(s)'
      <4>1. Len(wire'[s]) >= Len(events[s].log) BY <3>b, AppendFacts DEF TypesAt
      <4> QED BY Zenon, <4>1, <3>0 DEF Ending, Empty
    <3> QED BY Zenon, <3>1, <3>2, <3>3, <3>4, <3>5, <3>7, <3>8, <3>9 DEF StreamInv
  <2> USE DEF WriteTrailer
  <2> DEFINE e == [kind |-> "complete", started |-> started[s], ok |-> ok[s], failed |-> page_failed[s]]
  <2>0. StreamInv(s) /\ TypesAt(s) /\ ok[s] \in Nat BY Zenon, TypesThere DEF PipelineInv, ThreadsOK
  <2>1. e \in Trailers BY <2>0 DEF Trailers, TypesAt
  <2>2. reader' \in [Streams -> ReaderStates] BY Zenon DEF PipelineInv, ThreadsOK, ReaderStates
  <2>3. outcome' \in [Streams -> {"none", "OK", "CANCELLED", "ABORTED"} \cup OptionErrors \cup ReadErrors]
    BY Zenon DEF PipelineInv, ThreadsOK
  <2> HIDE DEF e
  <2>4. Append(wire[s], e) \in Seq(PageEvents \cup Trailers)
    <3>1. wire[s] \in Seq(PageEvents \cup Trailers) /\ e \in PageEvents \cup Trailers
      BY Zenon, <2>0, <2>1 DEF TypesAt
    <3> QED BY <3>1, AppendFacts
  <2>5. wire' = [wire EXCEPT ![s] = Append(@, e)] \/ wire' = wire BY Zenon DEF e
  <2>6. /\ wire' \in [Streams -> Seq(PageEvents \cup Trailers)]
        /\ wire'[s] = Append(wire[s], e) \/ wire'[s] = wire[s]
        /\ \A t \in Streams \ {s} : wire'[t] = wire[t]
    <3>0. wire \in [Streams -> Seq(PageEvents \cup Trailers)] BY Zenon DEF PipelineInv, ThreadsOK
    <3>1. CASE wire' = wire BY Zenon, <3>0, <3>1
    <3>2. CASE wire' = [wire EXCEPT ![s] = Append(wire[s], e)] BY Zenon, <3>0, <3>2, <2>4
    <3> QED BY Zenon, <3>1, <3>2, <2>5
  <2>7. ThreadsOK' BY Zenon, <2>2, <2>3, <2>6 DEF PipelineInv, ThreadsOK
  <2>8. \A t \in Streams \ {s} : Same(t)
    BY Zenon, <2>6 DEF PipelineInv, ThreadsOK, Same, KeepsWorkers, KeepsStops, KeepsWire, KeepsQueues, KeepsReader
  <2>9. /\ reader'[s] = "done" /\ outcome'[s] = "OK"
        /\ KeepsWorkers(s) /\ KeepsStops(s) /\ KeepsQueues(s)
    BY Zenon DEF PipelineInv, ThreadsOK, KeepsWorkers, KeepsStops, KeepsQueues
  <2>10. StreamInv(s)' BY Zenon, <2>0, <2>1, <2>6, <2>9, <2>flat
  <2> QED BY Zenon, <2>7, <2>8, <2>10, OneStream
<1>1. ASSUME ReaderStep(s) PROVE PipelineInv'
  BY Zenon, <1>1, <1>testHalted, <1>acquireStream, <1>acquireProcess, <1>announce,
     <1>enqueue, <1>closeJobs, <1>closeEvents, <1>finish DEF ReaderStep
<1>2. ASSUME ClientStep(s) PROVE PipelineInv'
  BY Zenon, <1>2, <1>refuseOptions, <1>open, <1>cancel, <1>readEnd, <1>readMessage
     DEF ClientStep
<1> QED BY Zenon, <1>1, <1>2, <1>writeTrailer

-----------------------------------------------------------------------------
(* The workers.                                                            *)

(* A step of worker w alone. *)
KeepsOthers(s, w) ==
    \A v \in Workers \ {w} : worker'[s][v] = worker[s][v] /\ job'[s][v] = job[s][v]

(* A step of a worker with a page in hand that queues nothing: it goes to  *)
(* v, keeps or drops its job, and halts the stream only out of "abort".    *)
Unanswering == {"check", "slot_line", "slot_wait", "call"}
MayDropJob(s, w, v) == job' = job \/ (v = "pop" /\ job' = [job EXCEPT ![s][w] = NoJob])
MayHalt(s, w) == halt' = halt \/ (worker[s][w] = "abort" /\ halt' = [halt EXCEPT ![s] = TRUE])
MayOwe(s, w, v) == /\ v \in Unanswering => Owes(s, w)
                   /\ Owes(s, w) => v \in Unanswering \/ halt[s]

(* The steps of worker w and of the endpoint it calls. *)
LEMMA WorkerKeeps ==
  ASSUME PipelineInv, NEW s \in Streams, NEW w \in Workers
  PROVE  WorkerStep(s, w) \/ EndpointStep(s, w) => PipelineInv'
(* A worker with a job goes on to its next place without answering: past   *)
(* the halt check, through the line for a slot, out of a call that was cut *)
(* short, or through the end of the iteration.                             *)
<1>moves. ASSUME StreamInv(s), TypesAt(s),
                 Busy(s, w), worker'[s][w] \notin {"exited", "abort"},
                 Busy(s, w)' => job'[s][w] = job[s][w], Owes(s, w)' => Owes(s, w),
                 Owes(s, w) => Owes(s, w)' \/ halt'[s],
                 halt[s] => halt'[s], halt'[s] => halt[s] \/ worker[s][w] = "abort",
                 client_gone'[s] = client_gone[s], abort_on_error'[s] = abort_on_error[s],
                 page_failed'[s] = page_failed[s],
                 KeepsOthers(s, w), KeepsReader(s), KeepsWire(s), KeepsQueues(s)
          PROVE  StreamInv(s)'
  <2> USE <1>moves
  <2> USE DEF KeepsReader, KeepsWire, KeepsQueues
  <2>0. /\ ReaderPlace(s) /\ JobPlace(s) /\ LogOrder(s) /\ Accounted(s) /\ Unopened(s)
        /\ Causes(s) /\ Drained(s) /\ Ending(s) /\ WirePlace(s)
    BY Zenon DEF StreamInv
  <2>a. ~WorkersGone(s) BY Zenon DEF WorkersGone, Busy
  <2>b. reader[s] \notin {"idle", "drain", "trailer", "done"} /\ outcome[s] = "none"
    BY Zenon, <2>0, <2>a DEF Unopened, ReaderPlace
  <2>c. \A v \in Workers : /\ Owes(s, v)' => Owes(s, v) /\ job'[s][v] = job[s][v]
                           /\ Busy(s, v)' => Busy(s, v) /\ job'[s][v] = job[s][v]
    BY Zenon DEF Owes, Busy, KeepsOthers
  <2>1. Unopened(s)' BY Zenon, <2>b DEF Unopened
  <2>2. ReaderPlace(s)' BY Zenon, <2>0, <2>b DEF ReaderPlace
  <2>3. JobPlace(s)' BY ZenonT(30), <2>0, <2>c DEF JobPlace
  <2>4. Drained(s)'
    <3>1. worker'[s][1] = "exited" => worker[s][1] = "exited"
      BY Zenon, WorkerOne DEF KeepsOthers
    <3> QED BY Zenon, <3>1, <2>0 DEF Drained, Empty
  <2>5. LogOrder(s)'
    <3>1. jobs[s].taken \in Nat BY Zenon, ChannelFacts DEF TypesAt
    <3>2. jobs'[s].taken \in Nat /\ jobs[s].taken <= jobs'[s].taken BY Zenon, <3>1, OneIndexMore
    <3> QED BY Zenon, <3>2, <2>0, <2>c, LogKept
  <2>6. Accounted(s)'
    <3>1. halt'[s] \/ ( /\ ~halt[s]
                        /\ \A v \in Workers : Owes(s, v) => Owes(s, v)' /\ job'[s][v] = job[s][v] )
      BY Zenon DEF Owes, Busy, KeepsOthers
    <3> QED BY Zenon, <3>1, <2>0, AccountedKept
  <2>7. Causes(s)'
    <3>1. \A v \in Workers : worker'[s][v] = "abort" => worker[s][v] = "abort"
      BY Zenon DEF KeepsOthers
    <3> QED BY Zenon, <3>1, <2>0 DEF Causes
  <2>8. WirePlace(s)' BY ZenonT(30), <2>0 DEF WirePlace
  <2>9. Ending(s)' BY Zenon, <2>b DEF Ending
  <2> QED BY Zenon, <2>1, <2>2, <2>3, <2>4, <2>5, <2>6, <2>7, <2>8, <2>9 DEF StreamInv
(* A step of one worker changes its own place and, perhaps, its job. *)
<1>worker. ASSUME ThreadsOK, NEW v \in WorkerStates,
                  worker' = [worker EXCEPT ![s][w] = v]
           PROVE  /\ worker' \in [Streams -> [Workers -> WorkerStates]] /\ worker'[s][w] = v
                  /\ \A u \in Workers \ {w} : worker'[s][u] = worker[s][u]
                  /\ \A t \in Streams \ {s} : worker'[t] = worker[t]
  <2> USE <1>worker
  <2>1. worker \in [Streams -> [Workers -> WorkerStates]] /\ worker[s] \in [Workers -> WorkerStates]
    BY Zenon DEF ThreadsOK
  <2> QED BY Zenon, <2>1
<1>job. ASSUME ThreadsOK, NEW j \in Jobs,
               job' = [job EXCEPT ![s][w] = j]
        PROVE  /\ job' \in [Streams -> [Workers -> Jobs]] /\ job'[s][w] = j
               /\ \A u \in Workers \ {w} : job'[s][u] = job[s][u]
               /\ \A t \in Streams \ {s} : job'[t] = job[t]
  <2> USE <1>job
  <2>1. job \in [Streams -> [Workers -> Jobs]] /\ job[s] \in [Workers -> Jobs]
    BY Zenon DEF ThreadsOK
  <2> QED BY Zenon, <2>1
<1>popJob. ASSUME PopJob(s, w)
           PROVE  PipelineInv'
  <2> USE <1>popJob
  <2>flat. ASSUME StreamInv(s), TypesAt(s),
                  worker[s][w] = "pop", ~Empty(jobs[s]), worker'[s][w] = "check",
                  job'[s][w] = NextValue(jobs[s]), KeepsOthers(s, w),
                  jobs'[s].log = jobs[s].log, jobs'[s].taken = jobs[s].taken + 1,
                  jobs'[s].closed = jobs[s].closed, events'[s] = events[s],
                  KeepsReader(s), KeepsStops(s), KeepsWire(s)
           PROVE  StreamInv(s)'
    <3> USE <2>flat
    <3> USE DEF KeepsReader, KeepsStops, KeepsWire
    <3>0. /\ ReaderPlace(s) /\ JobPlace(s) /\ LogOrder(s) /\ Accounted(s) /\ Unopened(s)
          /\ Causes(s) /\ Drained(s) /\ Ending(s)
      BY Zenon DEF StreamInv
    <3>a. jobs[s].taken \in Nat /\ jobs[s].taken < Len(jobs[s].log) /\ Len(jobs[s].log) \in Nat
          /\ DOMAIN jobs[s].log = 1..Len(jobs[s].log)
      BY Zenon, ChannelFacts, SomeLeft DEF TypesAt
    <3>b. job'[s][w].page = jobs[s].taken + 1
      <4>1. jobs[s].taken + 1 \in DOMAIN jobs[s].log BY Zenon, <3>a, NextFits
      <4> QED BY Zenon, <4>1, <3>0 DEF JobPlace, NextValue
    <3>c. ~WorkersGone(s) BY Zenon DEF WorkersGone
    <3>1. Unopened(s)' BY Zenon, <3>0, <3>c DEF Unopened
    <3>2. ReaderPlace(s)' BY Zenon, <3>0, <3>c DEF ReaderPlace
    <3>3. JobPlace(s)'
      <4>1. \A v \in Workers : Busy(s, v)' => job'[s][v].page \in 1..(jobs[s].taken + 1)
        <5> SUFFICES ASSUME NEW v \in Workers, Busy(s, v)' PROVE job'[s][v].page \in 1..(jobs[s].taken + 1)
          OBVIOUS
        <5>1. CASE v = w BY Zenon, <5>1, <3>a, <3>b, OneIndexMore
        <5>2. CASE v # w
          <6>1. job[s][v].page \in 1..jobs[s].taken /\ job'[s][v] = job[s][v]
            BY Zenon, <5>2, <3>0 DEF JobPlace, Busy, KeepsOthers
          <6> QED BY Zenon, <6>1, <3>a, OneIndexMore
        <5> QED BY Zenon, <5>1, <5>2
      <4>2. \A u, v \in Workers : u # v /\ Busy(s, u)' /\ Busy(s, v)' => job'[s][u].page # job'[s][v].page
        <5>1. \A v \in Workers \ {w} : Busy(s, v)' => job'[s][v].page \in 1..jobs[s].taken
          BY Zenon, <3>0 DEF JobPlace, Busy, KeepsOthers
        <5>2. \A v \in Workers \ {w} : Busy(s, v)' => job'[s][v].page # job'[s][w].page
          <6> SUFFICES ASSUME NEW v \in Workers \ {w}, Busy(s, v)', job'[s][v].page = job'[s][w].page PROVE FALSE
            BY Zenon
          <6>1. job'[s][v].page \in 1..jobs[s].taken BY Zenon, <5>1
          <6>2. jobs[s].taken + 1 \in 1..jobs[s].taken BY Zenon, <6>1, <3>b
          <6> QED BY Zenon, <6>2, <3>a, NewIndex
        <5>3. \A u, v \in Workers \ {w} : u # v /\ Busy(s, u)' /\ Busy(s, v)'
                => job'[s][u].page # job'[s][v].page
          <6> SUFFICES ASSUME NEW u \in Workers \ {w}, NEW v \in Workers \ {w}, u # v, Busy(s, u)', Busy(s, v)'
                       PROVE  job'[s][u].page # job'[s][v].page
            BY Zenon
          <6>1. Busy(s, u) /\ job'[s][u] = job[s][u] BY Zenon DEF Busy, KeepsOthers
          <6>2. Busy(s, v) /\ job'[s][v] = job[s][v] BY Zenon DEF Busy, KeepsOthers
          <6>3. job[s][u].page # job[s][v].page BY Zenon, <6>1, <6>2, <3>0 DEF JobPlace
          <6> QED BY Zenon, <6>1, <6>2, <6>3
        <5> QED BY ZenonT(30), <5>2, <5>3
      <4> QED BY Zenon, <4>1, <4>2, <3>0 DEF JobPlace
    <3>4. Drained(s)'
      <4>1. "check" # "exited" OBVIOUS
      <4> QED BY Zenon, <4>1, <3>0, WorkerOne DEF Drained, KeepsOthers
    <3>5. LogOrder(s)'
      <4>1. \A v \in Workers : Owes(s, v)' =>
                 \/ Owes(s, v) /\ job'[s][v] = job[s][v]
                 \/ job'[s][v].page = jobs[s].taken + 1
        BY Zenon, <3>b DEF Owes, KeepsOthers
      <4> QED BY Zenon, <4>1, <3>0, <3>a, OneIndexMore, LogKept
    <3>6. Accounted(s)'
      <4> SUFFICES ASSUME ~halt[s], NEW p \in 1..(jobs[s].taken + 1)
                   PROVE  (Answered(s, p) \/ \E v \in Workers : Owes(s, v) /\ job[s][v].page = p)'
        BY Zenon DEF Accounted
      <4>1. CASE p = jobs[s].taken + 1 BY Zenon, <4>1, <3>b DEF Owes
      <4>2. CASE p \in 1..jobs[s].taken
        <5>1. CASE Answered(s, p) BY Zenon, <5>1 DEF Answered
        <5>2. CASE \E v \in Workers : Owes(s, v) /\ job[s][v].page = p
          <6>1. PICK v \in Workers : Owes(s, v) /\ job[s][v].page = p BY Zenon, <5>2
          <6>2. v # w BY Zenon, <6>1 DEF Owes
          <6> QED BY Zenon, <6>1, <6>2 DEF Owes, KeepsOthers
        <5> QED BY Zenon, <5>1, <5>2, <4>2, <3>0 DEF Accounted
      <4>3. p = jobs[s].taken + 1 \/ p \in 1..jobs[s].taken BY Zenon, <3>a, OneIndexMore
      <4> QED BY Zenon, <4>1, <4>2, <4>3
    <3>7. Causes(s)' BY ZenonT(30), <3>0 DEF Causes, KeepsOthers
    <3>8. WirePlace(s)' BY ZenonT(30) DEF StreamInv, WirePlace
    <3>9. Ending(s)' BY Zenon, <3>0, <3>c DEF Ending, ReaderPlace
    <3> QED BY Zenon, <3>1, <3>2, <3>3, <3>4, <3>5, <3>6, <3>7, <3>8, <3>9 DEF StreamInv
  <2> USE DEF PopJob
  <2>0. ThreadsOK /\ StreamInv(s) /\ TypesAt(s) BY Zenon, TypesThere DEF PipelineInv
  <2>1. NextValue(jobs[s]) \in Jobs /\ jobs[s].taken + 1 <= Len(jobs[s].log)
    BY <2>0 DEF TypesAt, Channels, NextValue, Empty
  <2>2. /\ worker' \in [Streams -> [Workers -> WorkerStates]] /\ worker'[s][w] = "check"
        /\ \A u \in Workers \ {w} : worker'[s][u] = worker[s][u]
        /\ \A t \in Streams \ {s} : worker'[t] = worker[t]
    <3>1. "check" \in WorkerStates BY Zenon DEF WorkerStates
    <3> QED BY Zenon, <3>1, <2>0, <1>worker
  <2>3. /\ job' \in [Streams -> [Workers -> Jobs]] /\ job'[s][w] = NextValue(jobs[s])
        /\ \A u \in Workers \ {w} : job'[s][u] = job[s][u]
        /\ \A t \in Streams \ {s} : job'[t] = job[t]
    BY Zenon, <2>0, <2>1, <1>job
  <2>4. /\ Pop(jobs[s]) \in Channels(Jobs) /\ Pop(jobs[s]).taken = jobs[s].taken + 1
        /\ Pop(jobs[s]).log = jobs[s].log /\ Pop(jobs[s]).closed = jobs[s].closed
    <3>1. jobs[s] \in Channels(Jobs) BY Zenon, <2>0 DEF TypesAt
    <3> QED BY Zenon, <3>1, PopFacts
  <2>5. /\ jobs' \in [Streams -> Channels(Jobs)] /\ jobs'[s] = Pop(jobs[s])
        /\ \A t \in Streams \ {s} : jobs'[t] = jobs[t]
    BY Zenon, <2>4 DEF PipelineInv, ThreadsOK
  <2>6. \A t \in Streams : jobs'[t].taken <= Len(jobs'[t].log)
    BY Zenon, <2>1, <2>4, <2>5 DEF PipelineInv, ThreadsOK
  <2>7. ThreadsOK' BY Zenon, <2>2, <2>3, <2>5, <2>6 DEF PipelineInv, ThreadsOK
  <2>8. \A t \in Streams \ {s} : Same(t)
    BY Zenon, <2>2, <2>3, <2>5 DEF Same, KeepsWorkers, KeepsStops, KeepsWire, KeepsQueues, KeepsReader
  <2>9. KeepsOthers(s, w) /\ KeepsReader(s) /\ KeepsStops(s) /\ KeepsWire(s)
    BY Zenon, <2>2, <2>3 DEF KeepsOthers, KeepsReader, KeepsStops, KeepsWire
  <2>10. StreamInv(s)' BY Zenon, <2>0, <2>2, <2>3, <2>4, <2>5, <2>9, <2>flat
  <2> QED BY Zenon, <2>7, <2>8, <2>10, OneStream
<1>exitWorker. ASSUME ExitWorker(s, w)
               PROVE  PipelineInv'
  <2> USE <1>exitWorker
  (* pop() returned false. *)
  <2>flat. ASSUME StreamInv(s),
                  worker[s][w] = "pop", worker'[s][w] = "exited", Empty(jobs[s]), jobs[s].closed,
                  job'[s] = job[s], KeepsOthers(s, w),
                  KeepsReader(s), KeepsStops(s), KeepsWire(s), KeepsQueues(s)
           PROVE  StreamInv(s)'
    <3> USE <2>flat
    <3> USE DEF KeepsReader, KeepsStops, KeepsWire, KeepsQueues
    <3>0. /\ ReaderPlace(s) /\ JobPlace(s) /\ LogOrder(s) /\ Accounted(s) /\ Unopened(s)
          /\ Causes(s) /\ Drained(s) /\ Ending(s) /\ WirePlace(s)
      BY Zenon DEF StreamInv
    <3>a. ~WorkersGone(s) BY Zenon DEF WorkersGone
    <3>b. \A v \in Workers : /\ Owes(s, v)' <=> Owes(s, v)
                             /\ Busy(s, v)' <=> Busy(s, v)
                             /\ worker'[s][v] = "abort" => worker[s][v] = "abort"
      BY Zenon DEF Owes, Busy, KeepsOthers
    <3>1. Unopened(s)' BY Zenon, <3>0, <3>a DEF Unopened
    <3>2. ReaderPlace(s)' BY Zenon, <3>0, <3>a DEF ReaderPlace
    <3>3. JobPlace(s)' BY Zenon, <3>0, <3>b, JobPlaceKept
    <3>4. Drained(s)' BY Zenon DEF Drained, Empty
    <3>5. LogOrder(s)' BY Zenon, <3>0, <3>b DEF LogOrder, Answered
    <3>6. Accounted(s)'
      <4> SUFFICES ASSUME ~halt[s], NEW p \in 1..jobs[s].taken
                   PROVE  (Answered(s, p))' \/ \E v \in Workers : Owes(s, v)' /\ job'[s][v].page = p
        BY Zenon DEF Accounted
      <4>1. Answered(s, p) => (Answered(s, p))' BY Zenon DEF Answered
      <4> QED BY ZenonT(30), <4>1, <3>0, <3>b DEF Accounted
    <3>7. Causes(s)' BY Zenon, <3>0, <3>b DEF Causes
    <3>8. WirePlace(s)' BY ZenonT(30), <3>0 DEF WirePlace
    <3>9. Ending(s)' BY Zenon, <3>0 DEF Ending, Empty
    <3> QED BY Zenon, <3>1, <3>2, <3>3, <3>4, <3>5, <3>6, <3>7, <3>8, <3>9 DEF StreamInv
  <2> USE DEF ExitWorker
  <2>0. ThreadsOK /\ StreamInv(s) BY Zenon DEF PipelineInv
  <2>1. /\ worker' \in [Streams -> [Workers -> WorkerStates]] /\ worker'[s][w] = "exited"
        /\ \A u \in Workers \ {w} : worker'[s][u] = worker[s][u]
        /\ \A t \in Streams \ {s} : worker'[t] = worker[t]
    <3>1. "exited" \in WorkerStates BY Zenon DEF WorkerStates
    <3> QED BY Zenon, <3>1, <2>0, <1>worker
  <2>2. ThreadsOK' BY Zenon, <2>0, <2>1 DEF ThreadsOK
  <2>3. \A t \in Streams \ {s} : Same(t)
    BY Zenon, <2>1 DEF Same, KeepsWorkers, KeepsStops, KeepsWire, KeepsQueues, KeepsReader
  <2>4. KeepsOthers(s, w) /\ KeepsReader(s) /\ KeepsStops(s) /\ KeepsWire(s) /\ KeepsQueues(s)
    BY Zenon, <2>1 DEF KeepsOthers, KeepsReader, KeepsStops, KeepsWire, KeepsQueues
  <2>5. StreamInv(s)' BY Zenon, <2>0, <2>1, <2>4, <2>flat
  <2> QED BY Zenon, <2>2, <2>3, <2>5, OneStream
<1>quiet. ASSUME Busy(s, w),
                 NEW v \in WorkerStates, v \notin {"exited", "abort"},
                 worker' = [worker EXCEPT ![s][w] = v],
                 MayDropJob(s, w, v), MayOwe(s, w, v), MayHalt(s, w),
                 UNCHANGED <<clientVars, readerVars, resultVars, client_gone, countVars, reader, jobs,
                             events, writer>>
          PROVE  PipelineInv'
  <2> USE <1>quiet
  <2>0. ThreadsOK /\ StreamInv(s) /\ TypesAt(s) BY Zenon, TypesThere DEF PipelineInv
  <2>1. /\ worker' \in [Streams -> [Workers -> WorkerStates]] /\ worker'[s][w] = v
        /\ \A u \in Workers \ {w} : worker'[s][u] = worker[s][u]
        /\ \A t \in Streams \ {s} : worker'[t] = worker[t]
    BY Zenon, <2>0, <1>worker
  <2>2. /\ job' \in [Streams -> [Workers -> Jobs]]
        /\ v # "pop" => job'[s][w] = job[s][w]
        /\ \A u \in Workers \ {w} : job'[s][u] = job[s][u]
        /\ \A t \in Streams \ {s} : job'[t] = job[t]
    <3>1. CASE job' = job BY Zenon, <3>1, <2>0 DEF ThreadsOK
    <3>2. CASE v = "pop" /\ job' = [job EXCEPT ![s][w] = NoJob]
      <4>1. NoJob \in Jobs BY DEF NoJob, Jobs
      <4> QED BY ZenonT(30), <4>1, <3>2, <2>0, <1>job
    <3> QED BY Zenon, <3>1, <3>2 DEF MayDropJob
  <2>3. /\ halt' \in [Streams -> BOOLEAN]
        /\ halt[s] => halt'[s]
        /\ halt'[s] => halt[s] \/ worker[s][w] = "abort"
        /\ \A t \in Streams \ {s} : halt'[t] = halt[t]
    <3>0. halt \in [Streams -> BOOLEAN] BY Zenon, <2>0 DEF ThreadsOK
    <3>1. CASE halt' = halt BY Zenon, <3>0, <3>1
    <3>2. CASE worker[s][w] = "abort" /\ halt' = [halt EXCEPT ![s] = TRUE] BY Zenon, <3>0, <3>2
    <3> QED BY Zenon, <3>1, <3>2 DEF MayHalt
  <2>4. ThreadsOK'
    <3>1. /\ worker' \in [Streams -> [Workers -> WorkerStates]]
          /\ job' \in [Streams -> [Workers -> Jobs]] /\ halt' \in [Streams -> BOOLEAN]
      BY Zenon, <2>1, <2>2, <2>3
    <3> QED BY Zenon, <3>1, <2>0 DEF ThreadsOK
  <2>5. \A t \in Streams \ {s} : Same(t)
    BY Zenon, <2>1, <2>2, <2>3
       DEF Same, KeepsWorkers, KeepsStops, KeepsWire, KeepsQueues, KeepsReader
  <2>6. KeepsOthers(s, w) /\ KeepsReader(s) /\ KeepsWire(s) /\ KeepsQueues(s)
    BY Zenon, <2>1, <2>2 DEF KeepsOthers, KeepsReader, KeepsWire, KeepsQueues
  <2>7. /\ Busy(s, w)' => job'[s][w] = job[s][w]
        /\ Owes(s, w)' => Owes(s, w)
        /\ Owes(s, w) => Owes(s, w)' \/ halt'[s]
    <3>1. Owes(s, w)' <=> v \in Unanswering
      <4>1. worker'[s][w] = v BY Zenon, <2>1
      <4> QED BY SMT, <4>1 DEF Owes, Unanswering
    <3>2. Busy(s, w)' => v # "pop" BY Zenon, <2>1 DEF Busy
    <3> QED BY Zenon, <3>1, <3>2, <2>2, <2>3 DEF MayOwe
  <2>8. worker'[s][w] \notin {"exited", "abort"} BY Zenon, <2>1
  <2>9. client_gone'[s] = client_gone[s] /\ abort_on_error'[s] = abort_on_error[s]
        /\ page_failed'[s] = page_failed[s]
    BY Zenon
  <2>10. (halt[s] => halt'[s]) /\ (halt'[s] => halt[s] \/ worker[s][w] = "abort") BY Zenon, <2>3
  <2>11. StreamInv(s)' BY Zenon, <2>0, <2>6, <2>7, <2>8, <2>9, <2>10, <1>moves
  <2> QED BY Zenon, <2>4, <2>5, <2>11, OneStream
<1>skipOrGoOn. ASSUME SkipOrGoOn(s, w)
               PROVE  PipelineInv'
  <2> USE <1>skipOrGoOn
  <2> DEFINE v == IF halt[s] THEN "drop_job" ELSE "slot_line"
  <2>1. /\ v \in WorkerStates /\ v \notin {"exited", "abort"} /\ Busy(s, w) /\ Owes(s, w)
        /\ ~halt[s] => v = "slot_line"
    BY Zenon DEF SkipOrGoOn, WorkerStates, Busy, Owes
  <2>2. worker' = [worker EXCEPT ![s][w] = v] /\ job' = job /\ halt' = halt
    BY Zenon DEF SkipOrGoOn
  <2>3. UNCHANGED <<clientVars, readerVars, resultVars, client_gone, countVars, reader, jobs,
                    events, writer>>
    BY Zenon DEF SkipOrGoOn
  <2> HIDE DEF v
  <2> QED BY Zenon, <2>1, <2>2, <2>3, <1>quiet DEF MayDropJob, MayOwe, MayHalt, Unanswering
<1>acquireSlot. ASSUME AcquireSlot(s, w)
                PROVE  PipelineInv'
  <2> USE <1>acquireSlot
  <2> DEFINE b == IF worker[s][w] = "slot_line" THEN Enter(vlm_slots, WorkerId(s, w)) ELSE vlm_slots
             turn == TurnOf(b, WorkerId(s, w), Clamp(b, 1), halt[s])
             v == CASE turn = "holding" -> "call" [] turn = "idle" -> "drop_job"
                    [] OTHER -> "slot_wait"
  <2>0. turn = "idle" => halt[s] BY Zenon DEF TurnOf
  <2>1. /\ v \in WorkerStates /\ v \notin {"exited", "abort"} /\ Busy(s, w) /\ Owes(s, w)
        /\ v \in {"slot_wait", "call"} \/ halt[s]
    <3>1. Busy(s, w) /\ Owes(s, w) BY Zenon DEF AcquireSlot, Busy, Owes
    <3> HIDE DEF turn
    <3>2. v \in {"slot_wait", "call"} \/ (v = "drop_job" /\ halt[s]) BY Zenon, <2>0
    <3> QED BY Zenon, <3>1, <3>2 DEF WorkerStates
  <2>2. worker' = [worker EXCEPT ![s][w] = v] /\ job' = job /\ halt' = halt
    BY Zenon DEF AcquireSlot
  <2>3. UNCHANGED <<clientVars, readerVars, resultVars, client_gone, countVars, reader, jobs,
                    events, writer>>
    BY Zenon DEF AcquireSlot
  <2> HIDE DEF v
  <2> QED BY Zenon, <2>1, <2>2, <2>3, <1>quiet DEF MayDropJob, MayOwe, MayHalt, Unanswering
<1>cutCall. ASSUME CutCall(s, w)
            PROVE  PipelineInv'
  <2> USE <1>cutCall
  <2>1. "drop_slot" \in WorkerStates /\ Busy(s, w) /\ halt[s]
    BY Zenon DEF CutCall, WorkerStates, Busy
  <2>2. /\ worker' = [worker EXCEPT ![s][w] = "drop_slot"] /\ job' = job /\ halt' = halt
        /\ UNCHANGED <<clientVars, readerVars, resultVars, client_gone, countVars, reader, jobs,
                       events, writer>>
    BY Zenon DEF CutCall
  <2> QED BY Zenon, <2>1, <2>2, <1>quiet DEF MayDropJob, MayOwe, MayHalt, Unanswering
<1>abort. ASSUME Abort(s, w)
          PROVE  PipelineInv'
  <2> USE <1>abort
  <2>1. "drop_slot" \in WorkerStates /\ Busy(s, w) /\ ~Owes(s, w)
    BY Zenon DEF Abort, WorkerStates, Busy, Owes
  <2>2. /\ worker' = [worker EXCEPT ![s][w] = "drop_slot"] /\ job' = job
        /\ worker[s][w] = "abort" /\ halt' = [halt EXCEPT ![s] = TRUE]
        /\ UNCHANGED <<clientVars, readerVars, resultVars, client_gone, countVars, reader, jobs,
                       events, writer>>
    BY Zenon DEF Abort
  <2> QED BY Zenon, <2>1, <2>2, <1>quiet DEF MayDropJob, MayOwe, MayHalt, Unanswering
<1>dropSlot. ASSUME DropSlot(s, w)
             PROVE  PipelineInv'
  <2> USE <1>dropSlot
  <2>1. "drop_job" \in WorkerStates /\ Busy(s, w) /\ ~Owes(s, w)
    BY Zenon DEF DropSlot, WorkerStates, Busy, Owes
  <2>2. /\ worker' = [worker EXCEPT ![s][w] = "drop_job"] /\ job' = job /\ halt' = halt
        /\ UNCHANGED <<clientVars, readerVars, resultVars, client_gone, countVars, reader, jobs,
                       events, writer>>
    BY Zenon DEF DropSlot
  <2> QED BY Zenon, <2>1, <2>2, <1>quiet DEF MayDropJob, MayOwe, MayHalt, Unanswering
<1>dropJob. ASSUME DropJob(s, w)
            PROVE  PipelineInv'
  <2> USE <1>dropJob
  <2>1. "pop" \in WorkerStates /\ Busy(s, w) /\ ~Owes(s, w)
    BY Zenon DEF DropJob, WorkerStates, Busy, Owes
  <2>2. /\ worker' = [worker EXCEPT ![s][w] = "pop"] /\ halt' = halt
        /\ job' = [job EXCEPT ![s][w] = NoJob]
        /\ UNCHANGED <<clientVars, readerVars, resultVars, client_gone, countVars, reader, jobs,
                       events, writer>>
    BY Zenon DEF DropJob
  <2> QED BY Zenon, <2>1, <2>2, <1>quiet DEF MayDropJob, MayOwe, MayHalt, Unanswering
<1>answer. ASSUME NEW kind \in AnswerKinds,
                  Answer(s, w, kind)
           PROVE  PipelineInv'
  <2> USE <1>answer
  (* A worker queues the answer to its page. *)
  <2>flat. ASSUME StreamInv(s), TypesAt(s),
                  worker[s][w] = "call", worker'[s][w] \in {"abort", "drop_slot"}, NEW e, e = [kind |-> kind, page |-> job[s][w].page],
                  NEW log, log = events[s].log, NEW long, long = events'[s].log, long = Append(log, e),
                  events'[s].taken = events[s].taken, events'[s].closed = events[s].closed,
                  page_failed'[s] = IF kind = "page_raw" THEN page_failed[s] + 1 ELSE page_failed[s],
                  worker'[s][w] = "abort" => abort_on_error[s] /\ kind = "page_raw",
                  halt'[s] = halt[s], client_gone'[s] = client_gone[s], abort_on_error'[s] = abort_on_error[s],
                  job'[s] = job[s], jobs'[s] = jobs[s], KeepsOthers(s, w), KeepsReader(s), KeepsWire(s)
           PROVE  StreamInv(s)'
    <3> USE <2>flat
    <3> USE DEF KeepsReader, KeepsWire
    <3>0. /\ ReaderPlace(s) /\ JobPlace(s) /\ LogOrder(s) /\ Accounted(s) /\ Unopened(s)
          /\ Causes(s) /\ Drained(s) /\ Ending(s) /\ WirePlace(s)
      BY Zenon DEF StreamInv
    <3>a. ~WorkersGone(s) BY Zenon DEF WorkersGone
    <3>b. reader[s] \notin {"idle", "drain", "trailer", "done"} /\ outcome[s] = "none"
      BY Zenon, <3>0, <3>a DEF Unopened, ReaderPlace
    <3>c. /\ Owes(s, w) /\ Busy(s, w) /\ ~Owes(s, w)'
          /\ \A v \in Workers \ {w} : Owes(s, v)' => Owes(s, v) /\ Busy(s, v)
          /\ \A v \in Workers \ {w} : Owes(s, v) => Owes(s, v)'
          /\ \A v \in Workers : Busy(s, v)' => Busy(s, v)
      BY Zenon DEF Owes, Busy, KeepsOthers
    <3>d. /\ e.kind \in AnswerKinds /\ e.kind = kind /\ e.page = job[s][w].page
          /\ job[s][w].page \in 1..jobs[s].taken /\ job[s][w].page \in 1..started[s]
      <4>1. job[s][w].page \in 1..jobs[s].taken BY Zenon, <3>0, <3>c DEF JobPlace
      <4>2. /\ jobs[s].taken \in Nat /\ started[s] \in Nat /\ jobs[s].taken <= started[s]
        BY Zenon, <3>0, TakenAreStarted
      <4>3. job[s][w].page \in 1..started[s] BY Zenon, <4>1, <4>2, MoreIndices
      <4> QED BY Zenon, <4>1, <4>3
    <3>e. /\ DOMAIN log = 1..Len(log) /\ Len(log) \in Nat /\ DOMAIN long = 1..(Len(log) + 1)
          /\ (\A i \in 1..Len(log) : long[i] = log[i]) /\ long[Len(log) + 1] = e
      <4>1. log \in Seq(PageEvents) /\ e \in PageEvents
        <5>1. log \in Seq(PageEvents) BY Zenon, ChannelFacts DEF TypesAt
        <5>2. jobs[s].taken \in Nat BY Zenon, ChannelFacts DEF TypesAt
        <5>3. job[s][w].page \in Nat BY Zenon, <5>2, <3>d, NewIndex
        <5>4. kind \in {"page_started", "page_document", "page_raw"} BY Zenon DEF AnswerKinds
        <5> QED BY Zenon, <5>1, <5>3, <5>4 DEF PageEvents
      <4>2. Longer(log, e, long) BY Zenon, <4>1, AppendLonger
      <4> QED BY Zenon, <4>2 DEF Longer
    <3>f. /\ \A i \in DOMAIN log : i \in DOMAIN long /\ long[i] = log[i]
          /\ Len(log) + 1 \in DOMAIN long
          /\ \A i \in DOMAIN long : i \in DOMAIN log \/ i = Len(log) + 1
      BY Zenon, <3>e, OneIndexMore
    <3>g. \A p : (Answered(s, p))' <=> (Answered(s, p) \/ p = job[s][w].page)
      <4>1. \A p : Answers(e, p) <=> p = job[s][w].page BY Zenon, <3>d DEF Answers
      <4>2. long[Len(log) + 1] = e BY Zenon, <3>e
      <4>3. ASSUME NEW p, (Answered(s, p))' PROVE Answered(s, p) \/ p = job[s][w].page
        <5>1. PICK i \in DOMAIN long : Answers(long[i], p) BY Zenon, <4>3 DEF Answered
        <5>2. CASE i \in DOMAIN log BY Zenon, <5>1, <5>2, <3>f DEF Answered
        <5>3. CASE i = Len(log) + 1 BY Zenon, <5>1, <5>3, <4>1, <4>2
        <5> QED BY Zenon, <5>2, <5>3, <3>f
      <4>4. ASSUME NEW p, Answered(s, p) PROVE (Answered(s, p))'
        <5>1. PICK i \in DOMAIN log : Answers(log[i], p) BY Zenon, <4>4 DEF Answered
        <5> QED BY Zenon, <5>1, <3>f DEF Answered
      <4>5. (Answered(s, job[s][w].page))'
        <5>1. Answers(long[Len(log) + 1], job[s][w].page) BY Zenon, <4>1, <4>2
        <5> QED BY Zenon, <5>1, <3>f DEF Answered
      <4> QED BY Zenon, <4>3, <4>4, <4>5
    <3>1. Unopened(s)' BY Zenon, <3>b DEF Unopened
    <3>2. ReaderPlace(s)' BY Zenon, <3>0, <3>b DEF ReaderPlace
    <3>3. JobPlace(s)' BY Zenon, <3>0, <3>c, JobPlaceKept
    <3>4. Drained(s)'
      <4>1. worker'[s][1] = "exited" => worker[s][1] = "exited"
        BY Zenon, WorkerOne DEF KeepsOthers
      <4> QED BY Zenon, <4>1, <3>0 DEF Drained, Empty
    <3>5. LogOrder(s)'
      <4>0. /\ \A i \in DOMAIN log : log[i].page \in 1..started[s]
            /\ \A p \in 1..started[s] : \E i \in DOMAIN log : Announces(log[i], p)
            /\ \A i, j \in DOMAIN log : i # j =>
                  /\ ~(log[i].kind = "page_started" /\ Announces(log[j], log[i].page))
                  /\ ~(log[i].kind \in AnswerKinds /\ Answers(log[j], log[i].page))
        BY Zenon, <3>0 DEF LogOrder
      <4>1. \A i \in DOMAIN long : long[i].page \in 1..started[s]
        <5>1. long[Len(log) + 1].page \in 1..started[s] BY Zenon, <3>d, <3>e
        <5> QED BY Zenon, <4>0, <5>1, <3>f
      <4>2. \A p \in 1..started[s] : \E i \in DOMAIN long : Announces(long[i], p)
        BY Zenon, <4>0, <3>f
      <4>3. ASSUME NEW j \in DOMAIN long, long[j].kind \in AnswerKinds
            PROVE  /\ long[j].page \in 1..jobs[s].taken
                   /\ \E i \in 1..(j - 1) : Announces(long[i], long[j].page)
        <5>1. CASE j \in DOMAIN log
          <6>1. long[j] = log[j] BY Zenon, <5>1, <3>f
          <6>2. PICK i \in 1..(j - 1) : Announces(log[i], log[j].page)
            BY Zenon, <4>3, <5>1, <6>1, <3>0 DEF LogOrder
          <6>3. i \in DOMAIN log BY Zenon, <5>1, <3>e, EarlierIndices
          <6>4. log[j].page \in 1..jobs[s].taken BY Zenon, <4>3, <5>1, <6>1, <3>0 DEF LogOrder
          <6> QED BY Zenon, <6>1, <6>2, <6>3, <6>4, <3>f
        <5>2. CASE j = Len(log) + 1
          <6>1. long[j] = e BY Zenon, <5>2, <3>e
          <6>2. PICK i \in DOMAIN log : Announces(log[i], e.page) BY Zenon, <3>0, <3>d DEF LogOrder
          <6>3. i \in 1..(j - 1) BY Zenon, <5>2, <3>e, BeforeNew
          <6> QED BY Zenon, <6>1, <6>2, <6>3, <3>d, <3>f
        <5> QED BY Zenon, <5>1, <5>2, <3>f
      <4>4. ASSUME NEW i \in DOMAIN long, NEW j \in DOMAIN long, i # j
            PROVE  /\ ~(long[i].kind = "page_started" /\ Announces(long[j], long[i].page))
                   /\ ~(long[i].kind \in AnswerKinds /\ Answers(long[j], long[i].page))
        <5>1. CASE i \in DOMAIN log /\ j \in DOMAIN log
          <6>1. long[i] = log[i] /\ long[j] = log[j] BY Zenon, <5>1, <3>f
          <6> QED BY ZenonT(30), <4>0, <4>4, <5>1, <6>1
        <5>2. \A k \in DOMAIN log : ~Answers(log[k], e.page)
          BY Zenon, <3>0, <3>c, <3>d DEF LogOrder, Answered
        <5>3. e.kind # "page_started" BY Zenon, <3>d DEF AnswerKinds
        <5>4. CASE i \in DOMAIN log /\ j = Len(log) + 1
          BY ZenonT(30), <5>2, <5>3, <5>4, <3>e, <3>f DEF Announces, Answers
        <5>5. CASE i = Len(log) + 1 /\ j \in DOMAIN log
          BY Zenon, <5>2, <5>3, <5>5, <3>e, <3>f
        <5> QED BY Zenon, <5>1, <5>4, <5>5, <4>4, <3>f
      <4>5. \A v \in Workers : Owes(s, v)' => ~(Answered(s, job[s][v].page))'
        <5> SUFFICES ASSUME NEW v \in Workers, Owes(s, v)' PROVE ~(Answered(s, job[s][v].page))'
          OBVIOUS
        <5>1. v # w /\ Owes(s, v) /\ Busy(s, v) BY Zenon, <3>c
        <5>2. job[s][v].page # job[s][w].page BY Zenon, <5>1, <3>0, <3>c DEF JobPlace
        <5>3. ~Answered(s, job[s][v].page) BY Zenon, <5>1, <3>0 DEF LogOrder
        <5> QED BY Zenon, <5>2, <5>3, <3>g
      <4> QED BY Zenon, <4>1, <4>2, <4>3, <4>4, <4>5 DEF LogOrder
    <3>6. Accounted(s)'
      <4> SUFFICES ASSUME ~halt[s], NEW p \in 1..jobs[s].taken
                   PROVE  (Answered(s, p))' \/ \E v \in Workers : Owes(s, v)' /\ job'[s][v].page = p
        BY Zenon DEF Accounted
      <4>1. CASE Answered(s, p) BY Zenon, <4>1, <3>g
      <4>2. CASE \E v \in Workers : Owes(s, v) /\ job[s][v].page = p
        <5>1. PICK v \in Workers : Owes(s, v) /\ job[s][v].page = p BY Zenon, <4>2
        <5>2. CASE v = w BY Zenon, <5>1, <5>2, <3>g
        <5>3. CASE v # w BY Zenon, <5>1, <5>3, <3>c
        <5> QED BY Zenon, <5>2, <5>3
      <4> QED BY Zenon, <4>1, <4>2, <3>0 DEF Accounted
    <3>7. Causes(s)'
      <4>1. kind = "page_raw" => page_failed'[s] > 0 BY Zenon, OneUp DEF TypesAt
      <4>2. kind # "page_raw" => page_failed'[s] = page_failed[s] BY Zenon
      <4>3. page_failed[s] > 0 => page_failed'[s] > 0 BY Zenon, <4>1, <4>2
      <4>4. \A v \in Workers : worker'[s][v] = "abort" => abort_on_error[s] /\ page_failed'[s] > 0
        BY Zenon, <4>1, <4>3, <3>0 DEF Causes, KeepsOthers
      <4>5. page_failed'[s] > 0 => \E i \in DOMAIN long : long[i].kind = "page_raw"
        <5>1. CASE kind = "page_raw" BY Zenon, <5>1, <3>d, <3>e, <3>f
        <5>2. CASE kind # "page_raw" BY ZenonT(30), <5>2, <4>2, <3>0, <3>f DEF Causes
        <5> QED BY Zenon, <5>1, <5>2
      <4> QED BY Zenon, <4>3, <4>4, <4>5, <3>0 DEF Causes
    <3>8. WirePlace(s)'
      <4>1. ~events[s].closed BY Zenon, <3>0, <3>b DEF ReaderPlace
      <4>2. \A i \in DOMAIN wire[s] : i \in DOMAIN log /\ wire[s][i] = log[i]
        BY Zenon, <3>0, <3>b DEF WirePlace
      <4>3. \A i \in DOMAIN wire[s] : i \in DOMAIN long /\ wire[s][i] = long[i]
        BY Zenon, <4>2, <3>f
      <4> QED BY ZenonT(30), <4>1, <4>3, <3>0, <3>b DEF WirePlace
    <3>9. Ending(s)' BY Zenon, <3>b DEF Ending
    <3> QED BY Zenon, <3>1, <3>2, <3>3, <3>4, <3>5, <3>6, <3>7, <3>8, <3>9 DEF StreamInv
  <2> USE DEF Answer
  <2>0. ThreadsOK /\ StreamInv(s) /\ TypesAt(s) BY Zenon, TypesThere DEF PipelineInv
  <2> DEFINE e == [kind |-> kind, page |-> job[s][w].page]
             v == AfterAnswer(s, kind)
  <2>1. v \in {"abort", "drop_slot"} /\ (v = "abort" => abort_on_error[s] /\ kind = "page_raw")
    BY Zenon DEF AfterAnswer
  <2>2. /\ worker' \in [Streams -> [Workers -> WorkerStates]] /\ worker'[s][w] = v
        /\ \A u \in Workers \ {w} : worker'[s][u] = worker[s][u]
        /\ \A t \in Streams \ {s} : worker'[t] = worker[t]
    <3> HIDE DEF v
    <3>1. v \in WorkerStates BY Zenon, <2>1 DEF WorkerStates
    <3>2. worker' = [worker EXCEPT ![s][w] = v] BY Zenon DEF v
    <3> QED BY ZenonT(30), <3>1, <3>2, <2>0, <1>worker
  <2>3. e \in PageEvents
    <3>1. job[s][w].page \in Nat BY <2>0 DEF ThreadsOK, Jobs
    <3> QED BY <3>1 DEF PageEvents, AnswerKinds
  <2> HIDE DEF e, v
  <2>4. /\ Push(events[s], e) \in Channels(PageEvents)
        /\ Push(events[s], e).log = Append(events[s].log, e)
        /\ Push(events[s], e).taken = events[s].taken
        /\ Push(events[s], e).closed = events[s].closed
    <3>1. events[s] \in Channels(PageEvents) BY Zenon, <2>0 DEF TypesAt
    <3> QED BY Zenon, <3>1, <2>3, PushFacts
  <2>5. /\ events' \in [Streams -> Channels(PageEvents)] /\ events'[s] = Push(events[s], e)
        /\ \A t \in Streams \ {s} : events'[t] = events[t]
    <3>1. events \in [Streams -> Channels(PageEvents)] BY Zenon, <2>0 DEF ThreadsOK
    <3>2. events' = [events EXCEPT ![s] = Push(events[s], e)] BY Zenon DEF e
    <3> QED BY Zenon, <3>1, <3>2, <2>4
  <2>6. \A t \in Streams : events'[t].taken <= Len(events'[t].log)
    <3>1. events'[s].taken <= Len(events'[s].log)
      <4>1. /\ events[s].log \in Seq(PageEvents) /\ events[s].taken \in Nat
            /\ events[s].taken <= Len(events[s].log)
        BY <2>0 DEF TypesAt, Channels
      <4>2. Len(Append(events[s].log, e)) = Len(events[s].log) + 1 BY <4>1, <2>3
      <4> QED BY <4>1, <4>2, <2>4, <2>5
    <3> QED BY Zenon, <3>1, <2>0, <2>5 DEF ThreadsOK
  <2>7. /\ ok' \in [Streams -> Nat] /\ page_failed' \in [Streams -> Nat]
        /\ page_failed'[s] = IF kind = "page_raw" THEN page_failed[s] + 1 ELSE page_failed[s]
        /\ \A t \in Streams \ {s} : page_failed'[t] = page_failed[t]
    <3>1. ok \in [Streams -> Nat] /\ page_failed \in [Streams -> Nat] BY Zenon, <2>0 DEF ThreadsOK
    <3>2. /\ ok' = [ok EXCEPT ![s] = IF kind = "page_document" THEN ok[s] + 1 ELSE ok[s]]
          /\ page_failed' = [page_failed EXCEPT
                ![s] = IF kind = "page_raw" THEN page_failed[s] + 1 ELSE page_failed[s]]
      BY Zenon
    <3> QED BY SMT, <3>1, <3>2
  <2>8. ThreadsOK' BY Zenon, <2>0, <2>2, <2>5, <2>6, <2>7 DEF ThreadsOK
  <2>9. \A t \in Streams \ {s} : Same(t)
    BY Zenon, <2>2, <2>5, <2>7 DEF Same, KeepsWorkers, KeepsStops, KeepsWire, KeepsQueues, KeepsReader
  <2>10. KeepsOthers(s, w) /\ KeepsReader(s) /\ KeepsWire(s)
    BY Zenon, <2>2 DEF KeepsOthers, KeepsReader, KeepsWire
  <2>11. /\ worker[s][w] = "call" /\ worker'[s][w] \in {"abort", "drop_slot"}
         /\ worker'[s][w] = "abort" => abort_on_error[s] /\ kind = "page_raw"
    BY Zenon, <2>1, <2>2
  <2>12. /\ e = [kind |-> kind, page |-> job[s][w].page] /\ events'[s].log = Append(events[s].log, e)
         /\ events'[s].taken = events[s].taken /\ events'[s].closed = events[s].closed
    BY Zenon, <2>4, <2>5 DEF e
  <2>13. /\ halt'[s] = halt[s] /\ client_gone'[s] = client_gone[s]
         /\ abort_on_error'[s] = abort_on_error[s] /\ job'[s] = job[s] /\ jobs'[s] = jobs[s]
    BY Zenon
  <2>14. StreamInv(s)'
    <3>1. PICK log : log = events[s].log OBVIOUS
    <3>2. PICK long : long = events'[s].log OBVIOUS
    <3>3. long = Append(log, e) BY Zenon, <3>1, <3>2, <2>12
    <3>4. page_failed'[s] = IF kind = "page_raw" THEN page_failed[s] + 1 ELSE page_failed[s]
      BY Zenon, <2>7
    <3> HIDE DEF Answer
    <3> QED BY Zenon, <3>1, <3>2, <3>3, <3>4, <2>0, <2>10, <2>11, <2>12, <2>13, <2>flat
  <2> QED BY Zenon, <2>8, <2>9, <2>14, OneStream
<1>1. ASSUME WorkerStep(s, w) PROVE PipelineInv'
  BY Zenon, <1>1, <1>popJob, <1>exitWorker, <1>skipOrGoOn, <1>acquireSlot, <1>cutCall,
     <1>abort, <1>dropSlot, <1>dropJob DEF WorkerStep
<1>2. ASSUME EndpointStep(s, w) PROVE PipelineInv'
  BY Zenon, <1>2, <1>answer DEF EndpointStep, AnswerKinds
<1> QED BY Zenon, <1>1, <1>2

-----------------------------------------------------------------------------
(* The writer.                                                             *)

(* A writer that runs: the stream is open and has not reached its end. *)
LEMMA WriterRuns ==
  ASSUME NEW s \in Streams, StreamInv(s), writer[s] # "exited"
  PROVE  reader[s] \notin {"idle", "trailer", "done"} /\ outcome[s] = "none"
  BY Zenon DEF StreamInv, Unopened, ReaderPlace

(* The steps of the writer. *)
LEMMA WriterKeeps ==
  ASSUME PipelineInv, NEW s \in Streams
  PROVE  WriterTurn(s) \/ WriteEvent(s) \/ WriteFails(s) => PipelineInv'
(* Where the writer goes, and what a stop of it does to the flags. *)
<1>writer. ASSUME ThreadsOK, NEW v \in {"poll", "poll_maybe", "write", "exited"},
                  writer' = [writer EXCEPT ![s] = v]
           PROVE  /\ writer' \in [Streams -> {"poll", "poll_maybe", "write", "exited"}] /\ writer'[s] = v
                  /\ \A t \in Streams \ {s} : writer'[t] = writer[t]
  <2> USE <1>writer
  <2>1. writer \in [Streams -> {"poll", "poll_maybe", "write", "exited"}] BY Zenon DEF ThreadsOK
  <2> QED BY <2>1
(* client_gone = true; halt = true; return *)
<1>exits. ASSUME StreamInv(s), writer[s] # "exited", writer'[s] = "exited",
                 client_gone'[s], halt'[s], abort_on_error'[s] = abort_on_error[s],
                 page_failed'[s] = page_failed[s], wire'[s] = wire[s], outcome'[s] = outcome[s],
                 KeepsQueues(s), KeepsWorkers(s), KeepsReader(s)
          PROVE  StreamInv(s)'
  <2> USE <1>exits
  <2> USE DEF KeepsWorkers, KeepsReader, KeepsQueues
  <2>0. /\ ReaderPlace(s) /\ JobPlace(s) /\ Causes(s) /\ Drained(s) /\ WirePlace(s)
    BY Zenon DEF StreamInv
  <2>a. reader[s] \notin {"idle", "trailer", "done"} /\ outcome[s] = "none"
    BY Zenon, WriterRuns
  <2>1. Unopened(s)' BY Zenon, <2>a DEF Unopened
  <2>2. ReaderPlace(s)' BY Zenon, <2>0, <2>a DEF ReaderPlace, WorkersGone
  <2>3. JobPlace(s)' BY Zenon, <2>0, JobPlaceKept DEF Busy
  <2>4. Drained(s)' BY Zenon, <2>0 DEF Drained, Empty
  <2>5. LogOrder(s)' /\ Accounted(s)' BY Zenon, Quiet
  <2>7. Causes(s)' BY Zenon, <2>0 DEF Causes
  <2>8. WirePlace(s)' BY Zenon, <2>0, <2>a DEF WirePlace
  <2>9. Ending(s)' BY Zenon, <2>a DEF Ending
  <2> QED BY Zenon, <2>1, <2>2, <2>3, <2>4, <2>5, <2>7, <2>8, <2>9 DEF StreamInv
<1>stops. ASSUME writer[s] # "exited", WriterStops(s),
                 UNCHANGED <<clientVars, readerVars, resultVars, workerVars, countVars, reader, jobs,
                             events>>
          PROVE  PipelineInv'
  <2> USE <1>stops
  <2> USE DEF WriterStops
  <2>0. ThreadsOK /\ StreamInv(s) BY Zenon DEF PipelineInv
  <2>1. /\ writer' \in [Streams -> {"poll", "poll_maybe", "write", "exited"}]
        /\ writer'[s] = "exited"
        /\ \A t \in Streams \ {s} : writer'[t] = writer[t]
    BY Zenon, <2>0, <1>writer
  <2>2. /\ halt' \in [Streams -> BOOLEAN] /\ client_gone' \in [Streams -> BOOLEAN]
        /\ halt'[s] /\ client_gone'[s]
        /\ \A t \in Streams \ {s} : halt'[t] = halt[t] /\ client_gone'[t] = client_gone[t]
    <3>1. halt \in [Streams -> BOOLEAN] /\ client_gone \in [Streams -> BOOLEAN]
      BY Zenon, <2>0 DEF ThreadsOK
    <3> QED BY Zenon, <3>1
  <2>3. ThreadsOK' BY Zenon, <2>0, <2>1, <2>2 DEF ThreadsOK
  <2>4. \A t \in Streams \ {s} : Same(t)
    BY Zenon, <2>1, <2>2 DEF Same, KeepsWorkers, KeepsStops, KeepsWire, KeepsQueues, KeepsReader
  <2>5. KeepsQueues(s) /\ KeepsWorkers(s) /\ KeepsReader(s)
    BY Zenon DEF KeepsQueues, KeepsWorkers, KeepsReader
  <2>6. /\ abort_on_error'[s] = abort_on_error[s] /\ page_failed'[s] = page_failed[s]
        /\ wire'[s] = wire[s] /\ outcome'[s] = outcome[s]
    BY Zenon
  <2>7. StreamInv(s)' BY Zenon, <2>0, <2>1, <2>2, <2>5, <2>6, <1>exits
  <2> QED BY Zenon, <2>3, <2>4, <2>7, OneStream
<1>writerTurn. ASSUME WriterTurn(s)
               PROVE  PipelineInv'
  <2> USE <1>writerTurn
  (* pop_for times out, or finds the channel closed and drained. *)
  <2>idles. ASSUME StreamInv(s), writer[s] \in {"poll", "poll_maybe"},
                   writer'[s] \in {"poll", "exited"},
                   writer'[s] = "exited" => events[s].closed /\ Empty(events[s]),
                   wire'[s] = wire[s], outcome'[s] = outcome[s],
                   KeepsQueues(s), KeepsWorkers(s), KeepsStops(s), KeepsReader(s)
            PROVE  StreamInv(s)'
    <3> USE <2>idles
    <3> USE DEF KeepsWorkers, KeepsStops, KeepsReader, KeepsQueues
    <3>0. /\ ReaderPlace(s) /\ JobPlace(s) /\ Causes(s) /\ Drained(s) /\ WirePlace(s)
      BY Zenon DEF StreamInv
    <3>a. reader[s] \notin {"idle", "trailer", "done"} /\ outcome[s] = "none"
      BY Zenon, WriterRuns
    <3>1. Unopened(s)' BY Zenon, <3>a DEF Unopened
    <3>2. ReaderPlace(s)' BY Zenon, <3>0, <3>a DEF ReaderPlace, WorkersGone
    <3>3. JobPlace(s)' BY Zenon, <3>0, JobPlaceKept DEF Busy
    <3>4. Drained(s)' BY Zenon, <3>0 DEF Drained, Empty
    <3>5. LogOrder(s)' /\ Accounted(s)' BY Zenon, Quiet
    <3>7. Causes(s)' BY Zenon, <3>0 DEF Causes
    <3>8. WirePlace(s)'
      <4>1. Len(wire[s]) = events[s].taken BY Zenon, <3>0 DEF WirePlace
      <4>2. \A i \in DOMAIN wire[s] : i \in DOMAIN events[s].log /\ wire[s][i] = events[s].log[i]
        BY Zenon, <3>0, <3>a DEF WirePlace
      <4> QED BY ZenonT(30), <4>1, <4>2 DEF WirePlace, Empty
    <3>9. Ending(s)' BY Zenon, <3>a DEF Ending
    <3> QED BY Zenon, <3>1, <3>2, <3>3, <3>4, <3>5, <3>7, <3>8, <3>9 DEF StreamInv
  (* pop_for gives the writer the next event. *)
  <2>pops. ASSUME StreamInv(s), TypesAt(s),
                  writer[s] \in {"poll", "poll_maybe"}, writer'[s] = "write",
                  events'[s].log = events[s].log, events'[s].taken = events[s].taken + 1,
                  events'[s].closed = events[s].closed, wire'[s] = wire[s], outcome'[s] = outcome[s],
                  jobs'[s] = jobs[s], KeepsWorkers(s), KeepsStops(s), KeepsReader(s)
           PROVE  StreamInv(s)'
    <3> USE <2>pops
    <3> USE DEF KeepsWorkers, KeepsStops, KeepsReader
    <3>0. /\ ReaderPlace(s) /\ JobPlace(s) /\ Causes(s) /\ Drained(s) /\ WirePlace(s)
      BY Zenon DEF StreamInv
    <3>a. reader[s] \notin {"idle", "trailer", "done"} /\ outcome[s] = "none"
      BY Zenon, WriterRuns
    <3>1. Unopened(s)' BY Zenon, <3>a DEF Unopened
    <3>2. ReaderPlace(s)' BY Zenon, <3>0, <3>a DEF ReaderPlace, WorkersGone
    <3>3. JobPlace(s)' BY Zenon, <3>0, JobPlaceKept DEF Busy
    <3>4. Drained(s)' BY Zenon, <3>0 DEF Drained, Empty
    <3>5. LogOrder(s)' /\ Accounted(s)' BY Zenon, Quiet
    <3>7. Causes(s)' BY Zenon, <3>0 DEF Causes
    <3>8. WirePlace(s)'
      <4>1. Len(wire[s]) = events[s].taken BY Zenon, <3>0 DEF WirePlace
      <4>2. \A i \in DOMAIN wire[s] : i \in DOMAIN events[s].log /\ wire[s][i] = events[s].log[i]
        BY Zenon, <3>0, <3>a DEF WirePlace
      <4> QED BY Zenon, <4>1, <4>2 DEF WirePlace
    <3>9. Ending(s)' BY Zenon, <3>a DEF Ending
    <3> QED BY Zenon, <3>1, <3>2, <3>3, <3>4, <3>5, <3>7, <3>8, <3>9 DEF StreamInv
  <2>0. ThreadsOK /\ StreamInv(s) /\ TypesAt(s) BY Zenon, TypesThere DEF PipelineInv
  <2>1. /\ writer[s] \in {"poll", "poll_maybe"}
        /\ UNCHANGED <<clientVars, readerVars, resultVars, workerVars, countVars, reader, jobs>>
    BY Zenon DEF WriterTurn
  <2>2. CASE WriterStops(s) /\ UNCHANGED events
    <3>1. writer[s] # "exited" BY Zenon, <2>1
    <3> QED BY Zenon, <2>1, <2>2, <3>1, <1>stops
  <2>3. CASE /\ writer' = [writer EXCEPT ![s] = PopFor(events[s])]
             /\ events' = IF PopFor(events[s]) = "write" THEN [events EXCEPT ![s] = Pop(@)]
                                                         ELSE events
             /\ UNCHANGED stopVars
    <3> DEFINE v == PopFor(events[s])
    <3>1. /\ v \in {"write", "poll", "exited"} /\ (v = "write" => ~Empty(events[s]))
          /\ (v = "exited" => events[s].closed /\ Empty(events[s]))
      BY Zenon DEF PopFor
    <3>2. /\ writer' = [writer EXCEPT ![s] = v]
          /\ v = "write" => events' = [events EXCEPT ![s] = Pop(events[s])]
          /\ v # "write" => events' = events
      BY Zenon, <2>3
    <3> HIDE DEF v
    <3>3. /\ writer' \in [Streams -> {"poll", "poll_maybe", "write", "exited"}] /\ writer'[s] = v
          /\ \A t \in Streams \ {s} : writer'[t] = writer[t]
      <4>1. v \in {"poll", "poll_maybe", "write", "exited"} BY Zenon, <3>1
      <4> QED BY Zenon, <4>1, <3>2, <2>0, <1>writer
    <3>4. CASE v = "write"
      <4>1. /\ Pop(events[s]) \in Channels(PageEvents) /\ Pop(events[s]).taken = events[s].taken + 1
            /\ Pop(events[s]).log = events[s].log /\ Pop(events[s]).closed = events[s].closed
        <5>1. events[s] \in Channels(PageEvents) BY Zenon, <2>0 DEF TypesAt
        <5> QED BY Zenon, <5>1, PopFacts
      <4>2. /\ events' \in [Streams -> Channels(PageEvents)] /\ events'[s] = Pop(events[s])
            /\ \A t \in Streams \ {s} : events'[t] = events[t]
        <5>1. events \in [Streams -> Channels(PageEvents)] BY Zenon, <2>0 DEF ThreadsOK
        <5> QED BY Zenon, <5>1, <4>1, <3>2, <3>4
      <4>3. events[s].taken + 1 <= Len(events[s].log)
        <5>1. ~Empty(events[s]) BY Zenon, <3>1, <3>4
        <5> QED BY <5>1, <2>0 DEF TypesAt, Channels, Empty
      <4>4. \A t \in Streams : events'[t].taken <= Len(events'[t].log)
        BY Zenon, <4>1, <4>2, <4>3, <2>0 DEF ThreadsOK
      <4>5. ThreadsOK' BY Zenon, <2>0, <2>1, <2>3, <3>3, <4>2, <4>4 DEF ThreadsOK
      <4>6. \A t \in Streams \ {s} : Same(t)
        BY Zenon, <2>1, <2>3, <3>3, <4>2
           DEF Same, KeepsWorkers, KeepsStops, KeepsWire, KeepsQueues, KeepsReader
      <4>7. /\ KeepsWorkers(s) /\ KeepsStops(s) /\ KeepsReader(s)
            /\ wire'[s] = wire[s] /\ outcome'[s] = outcome[s] /\ jobs'[s] = jobs[s]
        BY Zenon, <2>1, <2>3 DEF KeepsWorkers, KeepsStops, KeepsReader
      <4>8. writer'[s] = "write" BY Zenon, <3>3, <3>4
      <4>9. StreamInv(s)' BY Zenon, <2>0, <2>1, <4>1, <4>2, <4>7, <4>8, <2>pops
      <4> QED BY Zenon, <4>5, <4>6, <4>9, OneStream
    <3>5. CASE v # "write"
      <4>1. events' = events BY Zenon, <3>2, <3>5
      <4>2. ThreadsOK' BY Zenon, <2>0, <2>1, <2>3, <3>3, <4>1 DEF ThreadsOK
      <4>3. \A t \in Streams \ {s} : Same(t)
        BY Zenon, <2>1, <2>3, <3>3, <4>1
           DEF Same, KeepsWorkers, KeepsStops, KeepsWire, KeepsQueues, KeepsReader
      <4>4. /\ KeepsWorkers(s) /\ KeepsStops(s) /\ KeepsReader(s) /\ KeepsQueues(s)
            /\ wire'[s] = wire[s] /\ outcome'[s] = outcome[s]
        BY Zenon, <2>1, <2>3, <4>1 DEF KeepsWorkers, KeepsStops, KeepsReader, KeepsQueues
      <4>5. /\ writer'[s] \in {"poll", "exited"}
            /\ writer'[s] = "exited" => events[s].closed /\ Empty(events[s])
        BY Zenon, <3>1, <3>3, <3>5
      <4>6. StreamInv(s)' BY Zenon, <2>0, <2>1, <4>4, <4>5, <2>idles
      <4> QED BY Zenon, <4>2, <4>3, <4>6, OneStream
    <3> QED BY Zenon, <3>4, <3>5
  <2> QED BY Zenon, <2>2, <2>3 DEF WriterTurn
<1>writeEvent. ASSUME WriteEvent(s)
               PROVE  PipelineInv'
  <2> USE <1>writeEvent
  (* write() takes the event popped last. *)
  <2>flat. ASSUME StreamInv(s), TypesAt(s),
                  writer[s] = "write", writer'[s] = "poll_maybe",
                  NEW e, e = events[s].log[events[s].taken], NEW sent, sent = wire'[s],
                  sent = Append(wire[s], e), outcome'[s] = outcome[s],
                  KeepsQueues(s), KeepsWorkers(s), KeepsStops(s), KeepsReader(s)
           PROVE  StreamInv(s)'
    <3> USE <2>flat
    <3> USE DEF KeepsWorkers, KeepsStops, KeepsReader, KeepsQueues
    <3>0. /\ ReaderPlace(s) /\ JobPlace(s) /\ Causes(s) /\ Drained(s) /\ WirePlace(s)
      BY Zenon DEF StreamInv
    <3>a. reader[s] \notin {"idle", "trailer", "done"} /\ outcome[s] = "none"
      BY Zenon, WriterRuns
    <3>b. Len(wire[s]) + 1 = events[s].taken BY Zenon, <3>0 DEF WirePlace
    <3>c. events[s].taken \in DOMAIN events[s].log /\ e \in PageEvents
      <4>1. Len(wire[s]) \in Nat BY Zenon, SequenceLength DEF TypesAt
      <4>2. events[s].log \in Seq(PageEvents) /\ Len(events[s].log) \in Nat
            /\ DOMAIN events[s].log = 1..Len(events[s].log)
        BY Zenon, ChannelFacts DEF TypesAt
      <4>3. events[s].taken <= Len(events[s].log) BY Zenon DEF TypesAt
      <4>4. events[s].taken \in DOMAIN events[s].log BY Zenon, <4>1, <4>2, <4>3, <3>b, LastTaken
      <4> QED BY Zenon, <4>2, <4>4, ElementIn
    <3>d. /\ DOMAIN wire[s] = 1..Len(wire[s]) /\ DOMAIN sent = 1..(Len(wire[s]) + 1)
          /\ Len(sent) = Len(wire[s]) + 1 /\ Len(wire[s]) \in Nat
          /\ (\A i \in 1..Len(wire[s]) : sent[i] = wire[s][i]) /\ sent[Len(wire[s]) + 1] = e
      <4>1. wire[s] \in Seq(PageEvents \cup Trailers) BY Zenon DEF TypesAt
      <4>2. e \in PageEvents \cup Trailers BY Zenon, <3>c
      <4>3. Longer(wire[s], e, sent) BY Zenon, <4>1, <4>2, AppendLonger
      <4>4. OneLonger(wire[s], sent) BY Zenon, <4>1, <4>2, AppendLength
      <4> QED BY Zenon, <4>3, <4>4 DEF Longer, OneLonger
    <3>1. Unopened(s)' BY Zenon, <3>a DEF Unopened
    <3>2. ReaderPlace(s)' BY Zenon, <3>0, <3>a DEF ReaderPlace, WorkersGone
    <3>3. JobPlace(s)' BY Zenon, <3>0, JobPlaceKept DEF Busy
    <3>4. Drained(s)' BY Zenon, <3>0 DEF Drained, Empty
    <3>5. LogOrder(s)' /\ Accounted(s)' BY Zenon, Quiet
    <3>7. Causes(s)' BY Zenon, <3>0 DEF Causes
    <3>8. WirePlace(s)'
      <4>1. \A i \in DOMAIN wire[s] : i \in DOMAIN events[s].log /\ wire[s][i] = events[s].log[i]
        BY Zenon, <3>0, <3>a DEF WirePlace
      <4>2. \A i \in DOMAIN sent : i \in DOMAIN wire[s] \/ i = Len(wire[s]) + 1
        BY Zenon, <3>d, OneIndexMore
      <4>3. \A i \in DOMAIN wire[s] : sent[i] = wire[s][i] BY Zenon, <3>d
      <4>4. \A i \in DOMAIN sent : i \in DOMAIN events[s].log /\ sent[i] = events[s].log[i]
        BY Zenon, <4>1, <4>2, <4>3, <3>b, <3>c, <3>d
      <4>5. Len(sent) = events[s].taken BY Zenon, <3>b, <3>d
      <4> QED BY Zenon, <4>4, <4>5 DEF WirePlace
    <3>9. Ending(s)' BY Zenon, <3>a DEF Ending
    <3> QED BY Zenon, <3>1, <3>2, <3>3, <3>4, <3>5, <3>7, <3>8, <3>9 DEF StreamInv
  <2> USE DEF WriteEvent
  <2>0. ThreadsOK /\ StreamInv(s) /\ TypesAt(s) BY Zenon, TypesThere DEF PipelineInv
  <2>1. /\ writer' \in [Streams -> {"poll", "poll_maybe", "write", "exited"}]
        /\ writer'[s] = "poll_maybe"
        /\ \A t \in Streams \ {s} : writer'[t] = writer[t]
    BY Zenon, <2>0, <1>writer
  <2>2. PICK e : e = events[s].log[events[s].taken] OBVIOUS
  <2>3. e \in PageEvents
    <3>1. Len(wire[s]) + 1 = events[s].taken BY Zenon, <2>0 DEF StreamInv, WirePlace
    <3>2. Len(wire[s]) \in Nat BY <2>0 DEF TypesAt
    <3> QED BY <3>1, <3>2, <2>0, <2>2 DEF TypesAt, Channels
  <2>4. Append(wire[s], e) \in Seq(PageEvents \cup Trailers)
    <3>1. wire[s] \in Seq(PageEvents \cup Trailers) BY Zenon, <2>0 DEF TypesAt
    <3> QED BY <3>1, <2>3, AppendFacts
  <2>5. /\ wire' \in [Streams -> Seq(PageEvents \cup Trailers)] /\ wire'[s] = Append(wire[s], e)
        /\ \A t \in Streams \ {s} : wire'[t] = wire[t]
    <3>1. wire \in [Streams -> Seq(PageEvents \cup Trailers)] BY Zenon, <2>0 DEF ThreadsOK
    <3>2. wire' = [wire EXCEPT ![s] = Append(wire[s], e)] BY Zenon, <2>2
    <3> QED BY Zenon, <3>1, <3>2, <2>4
  <2>6. ThreadsOK' BY Zenon, <2>0, <2>1, <2>5 DEF ThreadsOK
  <2>7. \A t \in Streams \ {s} : Same(t)
    BY Zenon, <2>1, <2>5 DEF Same, KeepsWorkers, KeepsStops, KeepsWire, KeepsQueues, KeepsReader
  <2>8. /\ KeepsQueues(s) /\ KeepsWorkers(s) /\ KeepsStops(s) /\ KeepsReader(s)
        /\ writer[s] = "write" /\ outcome'[s] = outcome[s]
    BY Zenon DEF KeepsQueues, KeepsWorkers, KeepsStops, KeepsReader
  <2>9. StreamInv(s)'
    <3>1. PICK sent : sent = wire'[s] OBVIOUS
    <3>2. sent = Append(wire[s], e) BY Zenon, <3>1, <2>5
    <3> HIDE DEF WriteEvent
    <3> QED BY Zenon, <3>1, <3>2, <2>0, <2>1, <2>2, <2>8, <2>flat
  <2> QED BY Zenon, <2>6, <2>7, <2>9, OneStream
<1>writeFails. ASSUME WriteFails(s)
               PROVE  PipelineInv'
  <2> USE <1>writeFails
  <2>1. /\ writer[s] # "exited" /\ WriterStops(s)
        /\ UNCHANGED <<clientVars, readerVars, resultVars, workerVars, countVars, reader, jobs,
                       events>>
    BY Zenon DEF WriteFails
  <2> QED BY Zenon, <2>1, <1>stops
<1> QED BY Zenon, <1>writerTurn, <1>writeEvent, <1>writeFails

-----------------------------------------------------------------------------
(* The invariant.                                                          *)

LEMMA InitPipelineInv ==
  ASSUME Init
  PROVE  PipelineInv
<1> USE DEF Init
<1>1. ThreadsOK
  <2>1. NewChannel \in Channels(Jobs) /\ NewChannel \in Channels(PageEvents)
    BY DEF NewChannel, Channels
  <2>2. NewChannel.taken <= Len(NewChannel.log) BY DEF NewChannel
  <2>3. NoJob \in Jobs BY DEF NoJob, Jobs
  <2>4. 0 \in 0..MaxReads /\ 0 \in 0..MaxPages BY SizesAssumption
  <2>5. <<>> \in Seq(PageEvents \cup Trailers) OBVIOUS
  <2> HIDE DEF NewChannel, NoJob
  <2> QED BY <2>1, <2>2, <2>3, <2>4, <2>5 DEF ThreadsOK, ReaderStates, WorkerStates
<1>2. ASSUME NEW s \in Streams PROVE StreamInv(s)
  <2>1. /\ reader[s] = "idle" /\ outcome[s] = "none" /\ status[s] = "OK" /\ wire[s] = <<>>
        /\ jobs[s] = NewChannel /\ events[s] = NewChannel /\ started[s] = 0 /\ page_failed[s] = 0
        /\ ~halt[s] /\ ~client_gone[s] /\ writer[s] = "exited"
        /\ \A w \in Workers : worker[s][w] = "exited"
    BY Zenon
  <2>2. /\ NewChannel.log = <<>> /\ NewChannel.taken = 0 /\ ~NewChannel.closed
        /\ Empty(NewChannel) /\ DOMAIN <<>> = {} /\ Len(<<>>) = 0 /\ 1..0 = {}
    BY DEF NewChannel, Empty
  <2> HIDE DEF Init
  <2>3. \A w \in Workers : ~Busy(s, w) /\ ~Owes(s, w) /\ worker[s][w] # "abort"
    BY Zenon, <2>1 DEF Busy, Owes
  <2>4. Unopened(s) BY Zenon, <2>1, <2>2 DEF Unopened, WorkersGone
  <2>5. ReaderPlace(s) BY Zenon, <2>1, <2>2 DEF ReaderPlace
  <2>6. JobPlace(s) /\ Drained(s) BY SMT, <2>1, <2>2, <2>3 DEF JobPlace, Drained
  <2>7. LogOrder(s) BY SMT, <2>1, <2>2, <2>3 DEF LogOrder
  <2>8. Accounted(s) BY SMT, <2>1, <2>2 DEF Accounted
  <2>9. Causes(s) BY SMT, <2>1, <2>2, <2>3 DEF Causes
  <2>10. WirePlace(s) /\ Ending(s) BY SMT, <2>1, <2>2 DEF WirePlace, Ending
  <2> QED BY Zenon, <2>4, <2>5, <2>6, <2>7, <2>8, <2>9, <2>10 DEF StreamInv
<1> QED BY Zenon, <1>1, <1>2 DEF PipelineInv

LEMMA NextPipelineInv ==
  ASSUME PipelineInv, [Next]_vars
  PROVE  PipelineInv'
<1>1. CASE UNCHANGED vars
  <2>1. gone' \in [Streams -> BOOLEAN] BY Zenon, <1>1 DEF vars, PipelineInv, ThreadsOK
  <2> QED BY Zenon, <2>1, <1>1, IdleKeeps DEF vars
<1> QED BY Zenon, <1>1, ReaderKeeps, WorkerKeeps, WriterKeeps DEF Next, AllDone, TransportStep

(* PipelineInv always holds: where each page of a stream is, what the      *)
(* reader, the workers and the writer may conclude of each other at each   *)
(* point of ConvertPages, and the ranges of all they keep.                 *)
THEOREM PipelineHolds == Spec => []PipelineInv
<1>1. Init => PipelineInv BY InitPipelineInv
<1>2. PipelineInv /\ [Next]_vars => PipelineInv' BY NextPipelineInv
<1> QED BY <1>1, <1>2, PTL DEF Spec

(* halt is set only for a reason the stream's status will tell, so a good  *)
(* stream never skips a page (the halted() tests of reader and workers).   *)
THEOREM HaltIsCaused == Spec => []HaltHasACause
<1>1. PipelineInv => HaltHasACause BY Zenon DEF PipelineInv, StreamInv, Causes, HaltHasACause
<1> QED BY <1>1, PipelineHolds, PTL

(* What was sent and is no trailer is the log's. *)
LEMMA SentIsLogged ==
  ASSUME PipelineInv, NEW s \in Streams, NEW i \in DOMAIN wire[s],
         wire[s][i].kind \in AnswerKinds \/ wire[s][i].kind = "page_started"
  PROVE  i \in DOMAIN events[s].log /\ wire[s][i] = events[s].log[i]
<1>1. WirePlace(s) BY Zenon DEF PipelineInv, StreamInv
<1>2. wire[s][i].kind # "complete" BY Zenon DEF AnswerKinds
<1> QED BY Zenon, <1>1, <1>2 DEF WirePlace

(* A client sees a page's PageStarted before its answer, and one of each   *)
(* at most: the announcement is queued before the job (vlm_convert_service *)
(* .cpp, the read loop), each job is popped by one worker and answered     *)
(* once, and the one writer keeps the order of the queue.                  *)
THEOREM AnswersFollowStarts == Spec => []AnsweredOnceAfterStart
<1>1. ASSUME PipelineInv, NEW s \in Streams, NEW j \in DOMAIN wire[s]
      PROVE  /\ wire[s][j].kind \in AnswerKinds =>
                  \E i \in 1..(j - 1) :
                      wire[s][i] = [kind |-> "page_started", page |-> wire[s][j].page]
             /\ \A i \in 1..(j - 1) :
                  /\ wire[s][i] # wire[s][j]
                  /\ wire[s][i].kind \in AnswerKinds /\ wire[s][j].kind \in AnswerKinds
                        => wire[s][i].page # wire[s][j].page
  <2>0. /\ LogOrder(s) /\ WirePlace(s) /\ TypesAt(s)
    BY Zenon, <1>1, TypesThere DEF PipelineInv, StreamInv
  <2>1. PICK log : log = events[s].log OBVIOUS
  <2>2. PICK sent : sent = wire[s] OBVIOUS
  <2>3. /\ log \in Seq(PageEvents) /\ sent \in Seq(PageEvents \cup Trailers)
        /\ DOMAIN log = 1..Len(log) /\ DOMAIN sent = 1..Len(sent)
        /\ Len(log) \in Nat /\ Len(sent) \in Nat /\ j \in 1..Len(sent)
    BY <2>0, <2>1, <2>2, <1>1 DEF TypesAt, Channels
  <2>4. \A i \in 1..(j - 1) : i \in DOMAIN sent /\ i # j BY <2>3
  <2>5. ASSUME sent[j].kind \in AnswerKinds
        PROVE  \E i \in 1..(j - 1) : sent[i] = [kind |-> "page_started", page |-> sent[j].page]
    <3>1. j \in DOMAIN log /\ sent[j] = log[j] BY Zenon, <1>1, <2>1, <2>2, <2>5, SentIsLogged
    <3>2. PICK i \in 1..(j - 1) : Announces(log[i], log[j].page)
      BY Zenon, <3>1, <2>0, <2>1, <2>5 DEF LogOrder
    <3>3. i \in DOMAIN sent /\ i \in DOMAIN log BY <2>3, <3>1
    <3>4. sent[i] = log[i] \/ i = Len(log) + 1 BY Zenon, <3>3, <2>0, <2>1, <2>2 DEF WirePlace
    <3>5. sent[i] = log[i] BY <3>3, <3>4, <2>3
    <3>6. log[i] \in PageEvents BY <3>3, <2>3
    <3>7. log[i] = [kind |-> "page_started", page |-> log[j].page]
      BY <3>2, <3>6 DEF Announces, PageEvents
    <3> QED BY Zenon, <3>1, <3>5, <3>7
  <2>6. ASSUME NEW i \in 1..(j - 1),
               sent[i].kind \in AnswerKinds /\ sent[j].kind \in AnswerKinds
        PROVE  sent[i].page # sent[j].page
    <3>1. /\ i \in DOMAIN log /\ sent[i] = log[i] /\ j \in DOMAIN log /\ sent[j] = log[j] /\ i # j
      BY Zenon, <1>1, <2>1, <2>2, <2>4, <2>6, SentIsLogged
    <3> QED BY Zenon, <3>1, <2>0, <2>1, <2>6 DEF LogOrder, Answers
  <2>7. ASSUME NEW i \in 1..(j - 1), sent[i] = sent[j] PROVE FALSE
    <3>1. sent[j] \in PageEvents \cup Trailers /\ i \in DOMAIN sent /\ i # j BY <2>3, <2>4
    <3>2. CASE sent[j] \in PageEvents
      <4>1. sent[j].kind \in AnswerKinds \/ sent[j].kind = "page_started"
        BY <3>2 DEF PageEvents, AnswerKinds
      <4>2. /\ i \in DOMAIN log /\ sent[i] = log[i] /\ j \in DOMAIN log /\ sent[j] = log[j]
        BY Zenon, <4>1, <3>1, <1>1, <2>1, <2>2, <2>7, SentIsLogged
      <4>3. log[i] = log[j] /\ i # j BY Zenon, <4>2, <3>1, <2>7
      <4>4. /\ ~(log[i].kind = "page_started" /\ Announces(log[j], log[i].page))
            /\ ~(log[i].kind \in AnswerKinds /\ Answers(log[j], log[i].page))
        BY Zenon, <4>2, <4>3, <2>0, <2>1 DEF LogOrder
      <4>5. log[j].kind \in AnswerKinds \/ log[j].kind = "page_started" BY Zenon, <4>1, <4>2
      <4> QED BY Zenon, <4>3, <4>4, <4>5 DEF Answers, Announces
    <3>3. CASE sent[j] \in Trailers
      <4>1. sent[i].kind = "complete" /\ sent[j].kind = "complete" BY <3>3, <2>7 DEF Trailers
      <4>2. \A k \in DOMAIN log : log[k].kind # "complete"
        <5>1. \A k \in DOMAIN log : log[k] \in PageEvents BY <2>3
        <5>2. \A x \in PageEvents : x.kind # "complete" BY DEF PageEvents
        <5> QED BY Zenon, <5>1, <5>2
      <4>3. i = Len(log) + 1 BY Zenon, <4>1, <4>2, <3>1, <2>0, <2>1, <2>2 DEF WirePlace
      <4>4. j = Len(log) + 1 BY Zenon, <4>1, <4>2, <1>1, <2>0, <2>1, <2>2 DEF WirePlace
      <4> QED BY Zenon, <4>3, <4>4, <3>1
    <3> QED BY Zenon, <3>1, <3>2, <3>3
  <2> QED BY Zenon, <2>2, <2>5, <2>6, <2>7
<1>2. PipelineInv => AnsweredOnceAfterStart BY Zenon, <1>1 DEF AnsweredOnceAfterStart
<1> QED BY <1>2, PipelineHolds, PTL

LEMMA EveryPageAnswered == PipelineInv => OkAnswersEveryPage
<1>1. ASSUME PipelineInv, NEW s \in Streams, outcome[s] = "OK"
      PROVE  /\ Len(wire[s]) >= Len(events[s].log)
             /\ \A i \in DOMAIN events[s].log : wire[s][i] = events[s].log[i]
             /\ \A p \in 1..started[s] : \E i \in DOMAIN events[s].log :
                   events[s].log[i].kind \in AnswerKinds /\ events[s].log[i].page = p
  <2>0. /\ ReaderPlace(s) /\ JobPlace(s) /\ Accounted(s) /\ WirePlace(s) /\ Ending(s) /\ TypesAt(s)
    BY Zenon, <1>1, TypesThere DEF PipelineInv, StreamInv
  <2>1. /\ ~halt[s] /\ Empty(jobs[s]) /\ Len(wire[s]) >= Len(events[s].log)
    BY Zenon, <2>0, <1>1 DEF Ending
  <2>2. ASSUME NEW i \in DOMAIN events[s].log PROVE wire[s][i] = events[s].log[i]
    <3>1. /\ events[s].log \in Seq(PageEvents) /\ wire[s] \in Seq(PageEvents \cup Trailers)
      BY <2>0 DEF TypesAt, Channels
    <3>2. i \in DOMAIN wire[s] /\ i # Len(events[s].log) + 1 BY <3>1, <2>1
    <3> QED BY Zenon, <3>2, <2>0 DEF WirePlace
  <2>3. reader[s] = "done" BY Zenon, <2>0, <1>1 DEF ReaderPlace
  <2>4. jobs[s].taken = started[s] BY <2>0, <2>1, <2>3 DEF JobPlace, Empty
  <2>5. \A w \in Workers : ~Owes(s, w) BY Zenon, <2>0, <2>3 DEF ReaderPlace, WorkersGone, Owes
  <2>6. \A p \in 1..started[s] : Answered(s, p) BY Zenon, <2>0, <2>1, <2>4, <2>5 DEF Accounted
  <2> QED BY Zenon, <2>1, <2>2, <2>6 DEF Answered, Answers
<1> QED BY Zenon, <1>1 DEF OkAnswersEveryPage

(* A stream that ends OK answered every page it started, and all it queued *)
(* reached the transport in order: the checks after the joins leave no way *)
(* for a skipped page or an unwritten event to end in Status::OK.          *)
THEOREM OkIsWhole == Spec => []OkAnswersEveryPage
  BY EveryPageAnswered, PipelineHolds, PTL

(* A client told ABORTED was sent the failed page, and every other event   *)
(* queued: the writer drains events although the stream halted.            *)
THEOREM AbortIsExplained == Spec => []AbortedWasExplained
<1>1. ASSUME PipelineInv, NEW s \in Streams, outcome[s] = "ABORTED"
      PROVE  wire[s] = events[s].log /\ \E i \in DOMAIN wire[s] : wire[s][i].kind = "page_raw"
  <2>0. /\ Causes(s) /\ WirePlace(s) /\ Ending(s) /\ TypesAt(s)
    BY Zenon, <1>1, TypesThere DEF PipelineInv, StreamInv
  <2>1. page_failed[s] > 0 /\ Len(wire[s]) = Len(events[s].log) BY Zenon, <2>0, <1>1 DEF Ending
  <2>2. /\ events[s].log \in Seq(PageEvents) /\ wire[s] \in Seq(PageEvents \cup Trailers)
    BY <2>0 DEF TypesAt, Channels
  <2>3. \A i \in DOMAIN wire[s] : wire[s][i] = events[s].log[i]
    BY Zenon, <2>0, <1>1 DEF WirePlace
  <2>4. wire[s] = events[s].log BY <2>1, <2>2, <2>3
  <2>5. \E i \in DOMAIN events[s].log : events[s].log[i].kind = "page_raw"
    BY Zenon, <2>0, <2>1 DEF Causes
  <2> QED BY Zenon, <2>4, <2>5
<1>2. PipelineInv => AbortedWasExplained BY Zenon, <1>1 DEF AbortedWasExplained
<1> QED BY <1>2, PipelineHolds, PTL

(* What no step changes in a channel that is closed. *)
KeepsClosed(s) == /\ events[s].closed => events'[s].log = events[s].log
                  /\ jobs[s].closed => jobs'[s].log = jobs[s].log

(* The three steps that push do so while the channel is open; the others   *)
(* leave both logs as they are.                                            *)
LEMMA PushersFindItOpen ==
  ASSUME PipelineInv, NEW t \in Streams, Announce(t) \/ Enqueue(t) \/
         \E w \in Workers : EndpointStep(t, w)
  PROVE  \A s \in Streams : KeepsClosed(s)
<1>0. ReaderPlace(t) BY Zenon DEF PipelineInv, StreamInv
<1>1. CASE Announce(t)
  <2>1. ~events[t].closed BY Zenon, <1>0, <1>1 DEF Announce, ReaderPlace
  <2>2. /\ jobs' = jobs /\ \A s \in Streams \ {t} : events'[s] = events[s]
    BY Zenon, <1>1 DEF Announce, PipelineInv, ThreadsOK
  <2> QED BY Zenon, <2>1, <2>2 DEF KeepsClosed
<1>2. CASE Enqueue(t)
  <2>1. ~jobs[t].closed BY Zenon, <1>0, <1>2 DEF Enqueue, ReaderPlace
  <2>2. /\ events' = events /\ \A s \in Streams \ {t} : jobs'[s] = jobs[s]
    BY Zenon, <1>2 DEF Enqueue, PipelineInv, ThreadsOK
  <2> QED BY Zenon, <2>1, <2>2 DEF KeepsClosed
<1>3. ASSUME NEW w \in Workers, EndpointStep(t, w) PROVE \A s \in Streams : KeepsClosed(s)
  <2>0. PICK kind : Answer(t, w, kind) BY Zenon, <1>3 DEF EndpointStep
  <2>1. ~events[t].closed BY Zenon, <1>0, <2>0 DEF Answer, ReaderPlace, WorkersGone
  <2>2. jobs' = jobs /\ \A s \in Streams \ {t} : events'[s] = events[s]
    BY Zenon, <2>0 DEF Answer, PipelineInv, ThreadsOK
  <2> QED BY Zenon, <2>1, <2>2 DEF KeepsClosed
<1> QED BY Zenon, <1>1, <1>2, <1>3

LEMMA OthersKeepTheLogs ==
  ASSUME PipelineInv, NEW t \in Streams, CloseJobs(t) \/ CloseEvents(t) \/ WriterTurn(t) \/
         \E w \in Workers : PopJob(t, w)
  PROVE  \A s \in Streams : KeepsClosed(s)
<1>0. /\ jobs \in [Streams -> Channels(Jobs)] /\ events \in [Streams -> Channels(PageEvents)]
      /\ jobs[t] \in Channels(Jobs) /\ events[t] \in Channels(PageEvents)
  BY Zenon DEF PipelineInv, ThreadsOK
<1>1. /\ Close(jobs[t]).log = jobs[t].log /\ Pop(jobs[t]).log = jobs[t].log
      /\ Close(events[t]).log = events[t].log /\ Pop(events[t]).log = events[t].log
  BY Zenon, <1>0, CloseFacts, PopFacts
<1>2. CASE CloseJobs(t) BY Zenon, <1>0, <1>1, <1>2 DEF CloseJobs, KeepsClosed
<1>3. CASE CloseEvents(t) BY Zenon, <1>0, <1>1, <1>3 DEF CloseEvents, KeepsClosed
<1>4. CASE WriterTurn(t)
  <2>1. jobs' = jobs /\ (events' = events \/ events' = [events EXCEPT ![t] = Pop(events[t])])
    BY Zenon, <1>4 DEF WriterTurn
  <2>2. CASE events' = events BY Zenon, <2>1, <2>2 DEF KeepsClosed
  <2>3. CASE events' = [events EXCEPT ![t] = Pop(events[t])]
    BY Zenon, <2>1, <2>3, <1>0, <1>1 DEF KeepsClosed
  <2> QED BY Zenon, <2>1, <2>2, <2>3
<1>5. ASSUME NEW w \in Workers, PopJob(t, w) PROVE \A s \in Streams : KeepsClosed(s)
  BY Zenon, <1>0, <1>1, <1>5 DEF PopJob, KeepsClosed
<1> QED BY Zenon, <1>2, <1>3, <1>4, <1>5

(* No event or job is pushed on a channel that is closed: jobs is closed   *)
(* by the one thread that pushes on it, and events only after every worker *)
(* has been joined.                                                        *)
THEOREM ClosedStaysClosed == Spec => NoPushAfterClose
<1>1. ASSUME UNCHANGED <<jobs, events>> PROVE \A s \in Streams : KeepsClosed(s)
  BY Zenon, <1>1 DEF KeepsClosed
<1>2. ASSUME PipelineInv, NEW t \in Streams, ReaderStep(t) PROVE \A s \in Streams : KeepsClosed(s)
  <2>1. CASE TestHalted(t) \/ AcquireStream(t) \/ AcquireProcess(t) \/ Finish(t)
    BY Zenon, <2>1, <1>1 DEF TestHalted, AcquireStream, AcquireProcess, Finish
  <2> QED BY Zenon, <2>1, <1>2, PushersFindItOpen, OthersKeepTheLogs DEF ReaderStep
<1>3. ASSUME NEW t \in Streams, ClientStep(t) \/ TransportStep(t)
      PROVE  \A s \in Streams : KeepsClosed(s)
  <2>1. UNCHANGED <<jobs, events>>
    BY Zenon, <1>3 DEF ClientStep, TransportStep, RefuseOptions, Open, Cancel, ReadEnd,
       ReadMessage, WriteEvent, WriteFails, WriteTrailer
  <2> QED BY Zenon, <2>1, <1>1
<1>4. ASSUME PipelineInv, NEW t \in Streams, NEW w \in Workers, WorkerStep(t, w)
      PROVE  \A s \in Streams : KeepsClosed(s)
  <2>1. CASE PopJob(t, w) BY Zenon, <2>1, <1>4, OthersKeepTheLogs
  <2>2. CASE ~PopJob(t, w)
    BY Zenon, <2>2, <1>1, <1>4 DEF WorkerStep, ExitWorker, SkipOrGoOn, AcquireSlot, CutCall,
       Abort, DropSlot, DropJob
  <2> QED BY Zenon, <2>1, <2>2
<1>5. PipelineInv /\ [Next]_vars =>
        [\A s \in Streams :
            /\ events[s].closed => events'[s].log = events[s].log
            /\ jobs[s].closed => jobs'[s].log = jobs[s].log]_vars
  <2>1. ASSUME PipelineInv, Next PROVE (\A s \in Streams : KeepsClosed(s)) \/ UNCHANGED vars
    BY Zenon, <2>1, <1>2, <1>3, <1>4, PushersFindItOpen, OthersKeepTheLogs DEF Next, AllDone
  <2> QED BY Zenon, <2>1 DEF KeepsClosed
<1> QED BY <1>5, PipelineHolds, PTL DEF Spec, NoPushAfterClose

-----------------------------------------------------------------------------
(* The counters.                                                           *)

(* A set gains or loses at most x. *)
Recount(A, B, x) ==
    /\ Cardinality(A) \in Nat /\ Cardinality(B) \in Nat
    /\ (x \in A <=> x \in B) => Cardinality(B) = Cardinality(A)
    /\ x \notin A /\ x \in B => Cardinality(B) = Cardinality(A) + 1
    /\ x \in A /\ x \notin B => Cardinality(B) = Cardinality(A) - 1

(* One event more. *)
OneMore(q, e, kind) ==
    /\ Count(q, kind) \in Nat
    /\ e.kind = kind => Count(Append(q, e), kind) = Count(q, kind) + 1
    /\ e.kind # kind => Count(Append(q, e), kind) = Count(q, kind)

(* What the proofs about the counters need of Cardinality, and what        *)
(* ConvertTheorems shows of finite sets: a stream that ends changes a set  *)
(* of streams by one, and an event queued the count of its kind.           *)
StreamsCount ==
    \A A, B \in SUBSET Streams : \A s :
        (\A t \in Streams : t # s => (t \in A <=> t \in B)) => Recount(A, B, s)
EventsCount ==
    \A log \in Seq(PageEvents), e \in PageEvents : \A kind : OneMore(log, e, kind)

KeepsCounts(s) ==
    /\ started'[s] = started[s] /\ ok'[s] = ok[s] /\ page_failed'[s] = page_failed[s]
    /\ wire'[s] = wire[s] /\ events'[s].log = events[s].log

LEMMA NextCounts ==
  ASSUME PipelineInv, CountInv, EventsCount
  PROVE  [Next]_vars => \A t \in Streams : CountsTold(t)'
(* Before ConvertPages returns, no trailer is out. *)
<1>noTrailer. ASSUME NEW s \in Streams, reader[s] # "done"
              PROVE  \A i \in DOMAIN wire[s] : wire[s][i].kind # "complete"
  <2> USE <1>noTrailer
  <2>0. ReaderPlace(s) /\ WirePlace(s) /\ TypesAt(s) BY Zenon, TypesThere DEF PipelineInv, StreamInv
  <2>1. outcome[s] # "OK"
    <3>1. "OK" # "none" OBVIOUS
    <3> QED BY Zenon, <2>0, <3>1 DEF ReaderPlace
  <2>2. \A i \in DOMAIN events[s].log : events[s].log[i].kind # "complete"
    <3>1. \A i \in DOMAIN events[s].log : events[s].log[i] \in PageEvents BY <2>0 DEF TypesAt, Channels
    <3>2. \A x \in PageEvents : x.kind # "complete" BY DEF PageEvents
    <3> QED BY Zenon, <3>1, <3>2
  <2>3. \A i \in DOMAIN wire[s] : i \in DOMAIN events[s].log /\ wire[s][i] = events[s].log[i]
    BY Zenon, <2>0, <2>1 DEF WirePlace
  <2> QED BY Zenon, <2>2, <2>3
<1>quiet. ASSUME NEW s \in Streams, CountsTold(s), KeepsCounts(s)
          PROVE  CountsTold(s)'
  BY <1>quiet, Zenon DEF CountsTold, KeepsCounts
<1>announce. ASSUME NEW s \in Streams, Announce(s)
             PROVE  \A t \in Streams : CountsTold(t)'
  <2> USE <1>announce
  <2>0. TypesAt(s) /\ CountsTold(s) BY Zenon, TypesThere DEF PipelineInv, CountInv
  <2>1. PICK e : e = [kind |-> "page_started", page |-> started[s] + 1] OBVIOUS
  <2>2. e \in PageEvents /\ e.kind = "page_started" BY <2>0, <2>1, SizesAssumption DEF TypesAt, PageEvents
  <2>3. /\ reader[s] = "announce" /\ started' = [started EXCEPT ![s] = @ + 1]
        /\ events' = [events EXCEPT ![s] = Push(events[s], e)]
        /\ ok' = ok /\ page_failed' = page_failed /\ wire' = wire
    BY Zenon, <2>1 DEF Announce
  <2>4. /\ started \in [Streams -> 0..MaxPages] /\ events \in [Streams -> Channels(PageEvents)]
    BY Zenon DEF PipelineInv, ThreadsOK
  <2>5. \A t \in Streams \ {s} : CountsTold(t)'
    <3>1. \A t \in Streams \ {s} : KeepsCounts(t) BY Zenon, <2>3, <2>4 DEF KeepsCounts
    <3> QED BY Zenon, <3>1, <1>quiet DEF CountInv
  <2>6. CountsTold(s)'
    <3>1. started'[s] = started[s] + 1 /\ events'[s] = Push(events[s], e) BY Zenon, <2>3, <2>4
    <3>2. PICK log : log = events[s].log OBVIOUS
    <3>3. events'[s].log = Append(log, e) /\ log \in Seq(PageEvents)
      <4>1. events[s] \in Channels(PageEvents) BY Zenon, <2>4
      <4>2. Push(events[s], e).log = Append(events[s].log, e) BY SMT, <4>1, <2>2, PushFacts
      <4> QED BY <3>1, <3>2, <4>1, <4>2 DEF Channels
    <3>4. /\ Count(Append(log, e), "page_started") = Count(log, "page_started") + 1
          /\ Count(Append(log, e), "page_document") = Count(log, "page_document")
          /\ Count(Append(log, e), "page_raw") = Count(log, "page_raw")
      <4>1. "page_started" # "page_document" /\ "page_started" # "page_raw" OBVIOUS
      <4>2. \A kind : OneMore(log, e, kind) BY Zenon, <2>2, <3>3 DEF EventsCount
      <4> QED BY Zenon, <2>2, <4>1, <4>2 DEF OneMore
    <3>5. "announce" # "done" OBVIOUS
    <3>6. \A i \in DOMAIN wire[s] : wire[s][i].kind # "complete" BY Zenon, <2>3, <3>5, <1>noTrailer
    <3> QED BY Zenon, <2>0, <2>3, <3>1, <3>2, <3>3, <3>4, <3>6 DEF CountsTold
  <2> QED BY Zenon, <2>5, <2>6
<1>answer. ASSUME NEW s \in Streams, NEW w \in Workers, NEW kind \in AnswerKinds,
                  Answer(s, w, kind)
           PROVE  \A t \in Streams : CountsTold(t)'
  <2> USE <1>answer
  <2>0. TypesAt(s) /\ CountsTold(s) /\ ReaderPlace(s)
    BY Zenon, TypesThere DEF PipelineInv, StreamInv, CountInv
  <2>1. PICK e : e = [kind |-> kind, page |-> job[s][w].page] OBVIOUS
  <2>2. e \in PageEvents /\ e.kind = kind
    <3>1. job[s][w].page \in Nat BY <2>0 DEF TypesAt, Jobs
    <3> QED BY <2>1, <3>1 DEF PageEvents, AnswerKinds
  <2>3. /\ worker[s][w] = "call" /\ started' = started /\ wire' = wire
        /\ events' = [events EXCEPT ![s] = Push(events[s], e)]
        /\ ok' = [ok EXCEPT ![s] = IF kind = "page_document" THEN @ + 1 ELSE @]
        /\ page_failed' = [page_failed EXCEPT ![s] = IF kind = "page_raw" THEN @ + 1 ELSE @]
    BY Zenon, <2>1 DEF Answer
  <2>4. /\ ok \in [Streams -> Nat] /\ page_failed \in [Streams -> Nat]
        /\ events \in [Streams -> Channels(PageEvents)]
    BY Zenon DEF PipelineInv, ThreadsOK
  <2>5. \A t \in Streams \ {s} : CountsTold(t)'
    <3>1. \A t \in Streams \ {s} : KeepsCounts(t) BY Zenon, <2>3, <2>4 DEF KeepsCounts
    <3> QED BY Zenon, <3>1, <1>quiet DEF CountInv
  <2>6. CountsTold(s)'
    <3>1. /\ ok'[s] = IF kind = "page_document" THEN ok[s] + 1 ELSE ok[s]
          /\ page_failed'[s] = IF kind = "page_raw" THEN page_failed[s] + 1 ELSE page_failed[s]
          /\ events'[s] = Push(events[s], e)
      BY Zenon, <2>3, <2>4
    <3>2. PICK log : log = events[s].log OBVIOUS
    <3>3. events'[s].log = Append(log, e) /\ log \in Seq(PageEvents)
      <4>1. events[s] \in Channels(PageEvents) BY Zenon, <2>4
      <4>2. Push(events[s], e).log = Append(events[s].log, e) BY SMT, <4>1, <2>2, PushFacts
      <4> QED BY <3>1, <3>2, <4>1, <4>2 DEF Channels
    <3>4. \A k : OneMore(log, e, k) BY Zenon, <2>2, <3>3 DEF EventsCount
    <3>5. kind # "page_started" BY DEF AnswerKinds
    <3>6. /\ started'[s] = Count(Append(log, e), "page_started")
          /\ ok'[s] = Count(Append(log, e), "page_document")
          /\ page_failed'[s] = Count(Append(log, e), "page_raw")
      BY Zenon, <2>0, <2>2, <2>3, <3>1, <3>2, <3>4, <3>5 DEF OneMore, CountsTold
    <3>7. reader[s] # "done"
      <4>1. "call" # "exited" OBVIOUS
      <4> QED BY Zenon, <2>0, <2>3, <4>1 DEF ReaderPlace, WorkersGone
    <3>8. \A i \in DOMAIN wire[s] : wire[s][i].kind # "complete" BY Zenon, <3>7, <1>noTrailer
    <3> QED BY Zenon, <2>3, <3>3, <3>6, <3>8 DEF CountsTold
  <2> QED BY Zenon, <2>5, <2>6
(* What is appended to the wire is no trailer, or the right one. *)
<1>wire. ASSUME NEW s \in Streams, NEW e \in PageEvents \cup Trailers,
                wire' = [wire EXCEPT ![s] = Append(@, e)], UNCHANGED <<events, started, countVars>>,
                e.kind = "complete" => e = [kind |-> "complete", started |-> started[s],
                                            ok |-> ok[s], failed |-> page_failed[s]]
         PROVE  \A t \in Streams : CountsTold(t)'
  <2> USE <1>wire
  <2>1. wire \in [Streams -> Seq(PageEvents \cup Trailers)] BY Zenon DEF PipelineInv, ThreadsOK
  <2>2. \A t \in Streams \ {s} : CountsTold(t)'
    <3>1. \A t \in Streams \ {s} : KeepsCounts(t) BY Zenon, <2>1 DEF KeepsCounts
    <3> QED BY Zenon, <3>1, <1>quiet DEF CountInv
  <2>3. PICK q : q = wire[s] OBVIOUS
  <2>4. wire'[s] = Append(q, e) /\ q \in Seq(PageEvents \cup Trailers) BY Zenon, <2>1, <2>3
  <2>5. \A i \in DOMAIN Append(q, e) : (i \in DOMAIN q /\ Append(q, e)[i] = q[i]) \/ Append(q, e)[i] = e
    <3> HIDE DEF PageEvents, Trailers
    <3>1. q \in Seq(PageEvents \cup Trailers) /\ e \in PageEvents \cup Trailers BY Zenon, <2>4
    <3> QED BY <3>1
  <2>6. \A i \in DOMAIN wire'[s] : wire'[s][i].kind = "complete" =>
           wire'[s][i] = [kind |-> "complete", started |-> started[s],
                          ok |-> ok[s], failed |-> page_failed[s]]
    <3>1. CountsTold(s) BY Zenon DEF CountInv
    <3> QED BY Zenon, <2>3, <2>4, <2>5, <3>1 DEF CountsTold
  <2>7. CountsTold(s)' BY Zenon, <2>6 DEF CountsTold, CountInv
  <2> QED BY Zenon, <2>2, <2>7
<1>writeEvent. ASSUME NEW s \in Streams, WriteEvent(s)
               PROVE  \A t \in Streams : CountsTold(t)'
  <2> USE <1>writeEvent
  <2>0. WirePlace(s) /\ TypesAt(s) BY Zenon, TypesThere DEF PipelineInv, StreamInv
  <2>1. PICK e : e = events[s].log[events[s].taken] OBVIOUS
  <2>2. e \in PageEvents
    <3>1. Len(wire[s]) + 1 = events[s].taken BY Zenon, <2>0 DEF WriteEvent, WirePlace
    <3>2. /\ wire[s] \in Seq(PageEvents \cup Trailers) /\ events[s].log \in Seq(PageEvents)
          /\ events[s].taken <= Len(events[s].log)
      BY <2>0 DEF TypesAt, Channels
    <3>3. events[s].taken \in 1..Len(events[s].log) BY <3>1, <3>2
    <3> QED BY <2>1, <3>2, <3>3
  <2>3. e.kind # "complete" BY <2>2 DEF PageEvents
  <2>4. wire' = [wire EXCEPT ![s] = Append(@, e)] /\ UNCHANGED <<events, started, countVars>>
    BY Zenon, <2>1 DEF WriteEvent
  <2>5. e \in PageEvents \cup Trailers BY Zenon, <2>2
  <2> QED BY Zenon, <2>3, <2>4, <2>5, <1>wire
<1>writeTrailer. ASSUME NEW s \in Streams, WriteTrailer(s)
                 PROVE  \A t \in Streams : CountsTold(t)'
  <2> USE <1>writeTrailer
  <2>1. PICK e : e = [kind |-> "complete", started |-> started[s], ok |-> ok[s],
                      failed |-> page_failed[s]]
    OBVIOUS
  <2>2. (wire' = wire \/ wire' = [wire EXCEPT ![s] = Append(@, e)])
        /\ UNCHANGED <<events, started, countVars>>
    BY Zenon, <2>1 DEF WriteTrailer
  <2>3. e \in Trailers
    <3>1. started[s] \in 0..MaxPages /\ ok[s] \in Nat /\ page_failed[s] \in Nat
      BY Zenon DEF PipelineInv, ThreadsOK
    <3> QED BY <2>1, <3>1, SizesAssumption DEF Trailers
  <2>4. CASE wire' = wire
    <3>1. \A t \in Streams : KeepsCounts(t) BY Zenon, <2>2, <2>4 DEF KeepsCounts
    <3> QED BY Zenon, <3>1, <1>quiet DEF CountInv
  <2>5. CASE wire' = [wire EXCEPT ![s] = Append(@, e)]
    <3>1. e \in PageEvents \cup Trailers BY Zenon, <2>3
    <3> QED BY Zenon, <2>1, <2>2, <2>5, <3>1, <1>wire
  <2> QED BY Zenon, <2>2, <2>4, <2>5
<1>1. ASSUME UNCHANGED <<started, countVars, wire>>,
             \A t \in Streams : events'[t].log = events[t].log
      PROVE  \A t \in Streams : CountsTold(t)'
  <2>1. \A t \in Streams : KeepsCounts(t) BY Zenon, <1>1 DEF KeepsCounts
  <2> QED BY Zenon, <2>1, <1>quiet DEF CountInv
<1>2. ASSUME NEW s \in Streams, CloseEvents(s) \/ WriterTurn(s)
      PROVE  \A t \in Streams : CountsTold(t)'
  <2>1. events \in [Streams -> Channels(PageEvents)] /\ events[s] \in Channels(PageEvents)
    BY Zenon DEF PipelineInv, ThreadsOK
  <2>2. Close(events[s]).log = events[s].log /\ Pop(events[s]).log = events[s].log
    BY Zenon, <2>1, CloseFacts, PopFacts
  <2>3. /\ UNCHANGED <<started, countVars, wire>>
        /\ \/ events' = events \/ events' = [events EXCEPT ![s] = Pop(events[s])]
           \/ events' = [events EXCEPT ![s] = Close(events[s])]
    BY Zenon, <1>2 DEF CloseEvents, WriterTurn
  <2>4. \A t \in Streams : events'[t].log = events[t].log BY Zenon, <2>1, <2>2, <2>3
  <2> QED BY Zenon, <1>1, <2>3, <2>4
<1>3. ASSUME NEW s \in Streams, ReaderStep(s) PROVE \A t \in Streams : CountsTold(t)'
  <2>1. CASE TestHalted(s) \/ AcquireStream(s) \/ AcquireProcess(s) \/ Enqueue(s)
             \/ CloseJobs(s) \/ Finish(s)
    BY Zenon, <2>1, <1>1 DEF TestHalted, AcquireStream, AcquireProcess, Enqueue, CloseJobs, Finish
  <2> QED BY Zenon, <1>2, <1>3, <2>1, <1>announce DEF ReaderStep
<1>4. ASSUME NEW s \in Streams, ClientStep(s) \/ TransportStep(s)
      PROVE  \A t \in Streams : CountsTold(t)'
  <2>1. CASE ClientStep(s) \/ WriteFails(s)
    BY Zenon, <2>1, <1>1 DEF ClientStep, RefuseOptions, Open, Cancel, ReadEnd, ReadMessage, WriteFails
  <2> QED BY Zenon, <1>4, <2>1, <1>writeEvent, <1>writeTrailer DEF TransportStep
<1>5. ASSUME NEW s \in Streams, NEW w \in Workers, WorkerStep(s, w)
      PROVE  \A t \in Streams : CountsTold(t)'
  BY Zenon, <1>5, <1>1 DEF WorkerStep, PopJob, ExitWorker, SkipOrGoOn, AcquireSlot, CutCall,
     Abort, DropSlot, DropJob
<1>6. ASSUME NEW s \in Streams, NEW w \in Workers, EndpointStep(s, w)
      PROVE  \A t \in Streams : CountsTold(t)'
  BY Zenon, <1>6, <1>answer DEF EndpointStep, AnswerKinds
<1>7. CASE UNCHANGED vars BY Zenon, <1>7, <1>1 DEF vars
<1> QED BY Zenon, <1>2, <1>3, <1>4, <1>5, <1>6, <1>7 DEF Next, AllDone

-----------------------------------------------------------------------------
(* The counters of the process.                                            *)

Counters == {"converted", "rejected", "failed", "pages_ok", "pages_failed", "pages_finished"}

Ended(codes) == {t \in Streams : outcome[t] \in codes}
Refused == {t \in Streams : outcome[t] = "none" /\ status[t] # "OK"}
Rejections == OptionErrors \cup ReadErrors

(* MetricsCountStreams and the range of metrics, in these terms. *)
MetricsInv ==
    /\ metrics \in [Counters -> Nat]
    /\ metrics.converted = Cardinality(Ended({"OK"}))
    /\ metrics.failed = Cardinality(Ended({"ABORTED"}))
    /\ metrics.rejected = Cardinality(Ended(Rejections)) + Cardinality(Refused)

MetricsPart == metrics \in [DOMAIN NewMetrics -> Nat] /\ MetricsCountStreams

LEMMA MetricsRestated == MetricsInv <=> MetricsPart
<1>1. DOMAIN NewMetrics = Counters BY DEF NewMetrics, Counters
<1> QED BY Zenon, <1>1 DEF MetricsInv, MetricsPart, MetricsCountStreams, Ended, Refused,
   Rejections

(* Only stream s ends or is refused. *)
MetricsMove(s) ==
    /\ \A codes \in {{"OK"}, {"ABORTED"}, Rejections} : Recount(Ended(codes), Ended(codes)', s)
    /\ Recount(Refused, Refused', s)

(* The counters a step moves, and by how much. *)
Tally(c, f, r) ==
    /\ metrics' \in [Counters -> Nat]
    /\ metrics'.converted = metrics.converted + c
    /\ metrics'.failed = metrics.failed + f
    /\ metrics'.rejected = metrics.rejected + r

LEMMA NextMetrics ==
  ASSUME PipelineInv, MetricsInv, StreamsCount
  PROVE  [Next]_vars => MetricsInv'
<1>moves. ASSUME NEW s \in Streams,
                 \A t \in Streams \ {s} : outcome'[t] = outcome[t] /\ status'[t] = status[t]
          PROVE  MetricsMove(s)
  <2> USE <1>moves
  <2>1. ASSUME NEW codes \in {{"OK"}, {"ABORTED"}, Rejections}
        PROVE  Recount(Ended(codes), Ended(codes)', s)
    <3> DEFINE A == Ended(codes)
               B == Ended(codes)'
    <3>1. A \in SUBSET Streams /\ B \in SUBSET Streams
          /\ \A t \in Streams : t # s => (t \in A <=> t \in B)
      BY Zenon DEF Ended, Rejections
    <3> HIDE DEF A, B
    <3>2. Recount(A, B, s) BY Zenon, <3>1 DEF StreamsCount
    <3> QED BY Zenon, <3>2 DEF A, B
  <2>2. Recount(Refused, Refused', s)
    <3> DEFINE A == Refused
               B == Refused'
    <3>1. A \in SUBSET Streams /\ B \in SUBSET Streams
          /\ \A t \in Streams : t # s => (t \in A <=> t \in B)
      BY Zenon DEF Refused
    <3> HIDE DEF A, B
    <3>2. Recount(A, B, s) BY Zenon, <3>1 DEF StreamsCount
    <3> QED BY Zenon, <3>2 DEF A, B
  <2> QED BY Zenon, <2>1, <2>2 DEF MetricsMove
<1>members. ASSUME NEW s \in Streams
            PROVE  /\ s \in Ended({"OK"}) <=> outcome[s] = "OK"
                   /\ s \in Ended({"ABORTED"}) <=> outcome[s] = "ABORTED"
                   /\ s \in Ended(Rejections) <=> outcome[s] \in Rejections
                   /\ s \in Refused <=> outcome[s] = "none" /\ status[s] # "OK"
                   /\ s \in Ended({"OK"})' <=> outcome'[s] = "OK"
                   /\ s \in Ended({"ABORTED"})' <=> outcome'[s] = "ABORTED"
                   /\ s \in Ended(Rejections)' <=> outcome'[s] \in Rejections
                   /\ s \in Refused' <=> outcome'[s] = "none" /\ status'[s] # "OK"
  BY <1>members, Zenon DEF Ended, Refused, Rejections
<1>quiet. ASSUME outcome' = outcome, status' = status, Tally(0, 0, 0)
          PROVE  MetricsInv'
  <2> USE <1>quiet
  <2>1. /\ Ended({"OK"})' = Ended({"OK"}) /\ Ended({"ABORTED"})' = Ended({"ABORTED"})
        /\ Ended(Rejections)' = Ended(Rejections) /\ Refused' = Refused
    BY Zenon DEF Ended, Refused, Rejections
  <2>2. /\ metrics'.converted = metrics.converted /\ metrics'.failed = metrics.failed
        /\ metrics'.rejected = metrics.rejected
    BY DEF MetricsInv, Tally, Counters
  <2> QED BY Zenon, <2>1, <2>2 DEF MetricsInv, Tally
(* A stream s is refused a message, or ends with a code. *)
<1>counted. ASSUME NEW s \in Streams, outcome[s] = "none",
                   \A t \in Streams \ {s} : outcome'[t] = outcome[t] /\ status'[t] = status[t],
                   \/ /\ outcome'[s] = "none" /\ status[s] = "OK" /\ status'[s] # "OK" /\ Tally(0, 0, 1)
                   \/ /\ status'[s] = status[s] /\ status[s] = "OK"
                      /\ \/ outcome'[s] = "OK" /\ Tally(1, 0, 0)
                         \/ outcome'[s] = "ABORTED" /\ Tally(0, 1, 0)
                         \/ outcome'[s] = "CANCELLED" /\ Tally(0, 0, 0)
                         \/ outcome'[s] \in Rejections /\ Tally(0, 0, 1)
                   \/ /\ status'[s] = status[s] /\ status[s] # "OK"
                      /\ outcome'[s] \in Rejections /\ Tally(0, 0, 0)
            PROVE  MetricsInv'
  <2> USE <1>counted
  <2>1. /\ Recount(Ended({"OK"}), Ended({"OK"})', s)
        /\ Recount(Ended({"ABORTED"}), Ended({"ABORTED"})', s)
        /\ Recount(Ended(Rejections), Ended(Rejections)', s)
        /\ Recount(Refused, Refused', s)
    BY Zenon, <1>moves DEF MetricsMove
  <2>2. /\ {"none", "OK", "ABORTED", "CANCELLED"} \cap Rejections = {}
        /\ "none" # "OK" /\ "none" # "ABORTED" /\ "OK" # "ABORTED"
        /\ "CANCELLED" \notin {"none", "OK", "ABORTED"}
    BY DEF Rejections, OptionErrors, ReadErrors
  <2>o. PICK o, p, a, b, e, f, r, q :
           /\ o = Cardinality(Ended({"OK"})) /\ p = Cardinality(Ended({"OK"})')
           /\ a = Cardinality(Ended({"ABORTED"})) /\ b = Cardinality(Ended({"ABORTED"})')
           /\ e = Cardinality(Ended(Rejections)) /\ f = Cardinality(Ended(Rejections)')
           /\ r = Cardinality(Refused) /\ q = Cardinality(Refused')
    OBVIOUS
  <2>n. o \in Nat /\ a \in Nat /\ e \in Nat /\ r \in Nat /\ p \in Nat /\ b \in Nat /\ f \in Nat /\ q \in Nat
    BY Zenon, <2>o, <2>1 DEF Recount
  <2>m. /\ metrics.converted = o /\ metrics.failed = a /\ metrics.rejected = e + r
    BY Zenon, <2>o DEF MetricsInv
  <2> DEFINE Goal == /\ metrics' \in [Counters -> Nat] /\ metrics'.converted = p /\ metrics'.failed = b
                     /\ metrics'.rejected = f + q
  <2>g. SUFFICES Goal BY Zenon, <2>o DEF MetricsInv
  <2>3. CASE outcome'[s] = "none" /\ status[s] = "OK" /\ status'[s] # "OK" /\ Tally(0, 0, 1)
    <3>1. p = o /\ b = a /\ f = e /\ q = r + 1
      BY Zenon, <2>1, <2>2, <2>3, <2>o, <1>members DEF Recount
    <3> QED BY <2>3, <2>n, <2>m, <3>1 DEF Tally
  <2>4. CASE status'[s] = status[s] /\ status[s] = "OK" /\ outcome'[s] = "OK" /\ Tally(1, 0, 0)
    <3>1. p = o + 1 /\ b = a /\ f = e /\ q = r
      BY Zenon, <2>1, <2>2, <2>4, <2>o, <1>members DEF Recount
    <3> QED BY <2>4, <2>n, <2>m, <3>1 DEF Tally
  <2>5. CASE status'[s] = status[s] /\ status[s] = "OK" /\ outcome'[s] = "ABORTED" /\ Tally(0, 1, 0)
    <3>1. p = o /\ b = a + 1 /\ f = e /\ q = r
      BY Zenon, <2>1, <2>2, <2>5, <2>o, <1>members DEF Recount
    <3> QED BY <2>5, <2>n, <2>m, <3>1 DEF Tally
  <2>6. CASE status'[s] = status[s] /\ status[s] = "OK" /\ outcome'[s] = "CANCELLED" /\ Tally(0, 0, 0)
    <3>1. p = o /\ b = a /\ f = e /\ q = r
      BY Zenon, <2>1, <2>2, <2>6, <2>o, <1>members DEF Recount
    <3> QED BY <2>6, <2>n, <2>m, <3>1 DEF Tally
  <2>7. CASE status'[s] = status[s] /\ status[s] = "OK" /\ outcome'[s] \in Rejections /\ Tally(0, 0, 1)
    <3>1. p = o /\ b = a /\ f = e + 1 /\ q = r
      BY Zenon, <2>1, <2>2, <2>7, <2>o, <1>members DEF Recount
    <3> QED BY <2>7, <2>n, <2>m, <3>1 DEF Tally
  <2>8. CASE status'[s] = status[s] /\ status[s] # "OK" /\ outcome'[s] \in Rejections /\ Tally(0, 0, 0)
    <3>1. p = o /\ b = a /\ f = e + 1 /\ q = r - 1
      BY Zenon, <2>1, <2>2, <2>8, <2>o, <1>members DEF Recount
    <3> QED BY <2>8, <2>n, <2>m, <3>1 DEF Tally
  <2> QED BY Zenon, <2>3, <2>4, <2>5, <2>6, <2>7, <2>8
(* What the assignments to metrics_ do to the counters. *)
<1>tally. ASSUME metrics \in [Counters -> Nat]
          PROVE  /\ metrics' = metrics => Tally(0, 0, 0)
                 /\ metrics' = [metrics EXCEPT !.rejected = @ + 1] => Tally(0, 0, 1)
                 /\ metrics' = [metrics EXCEPT !.failed = @ + 1] => Tally(0, 1, 0)
                 /\ metrics' = [metrics EXCEPT !.pages_finished = @ + 1] => Tally(0, 0, 0)
                 /\ \A x, y \in Nat :
                       metrics' = [metrics EXCEPT !.converted = @ + 1, !.pages_ok = x, !.pages_failed = y]
                          => Tally(1, 0, 0)
  <2> USE <1>tally
  <2>1. metrics' = metrics => Tally(0, 0, 0) BY DEF Tally, Counters
  <2>2. metrics' = [metrics EXCEPT !.rejected = @ + 1] => Tally(0, 0, 1) BY DEF Tally, Counters
  <2>3. metrics' = [metrics EXCEPT !.failed = @ + 1] => Tally(0, 1, 0) BY DEF Tally, Counters
  <2>4. metrics' = [metrics EXCEPT !.pages_finished = @ + 1] => Tally(0, 0, 0) BY DEF Tally, Counters
  <2>5. ASSUME NEW x \in Nat, NEW y \in Nat,
               metrics' = [metrics EXCEPT !.converted = @ + 1, !.pages_ok = x, !.pages_failed = y]
        PROVE  Tally(1, 0, 0)
    <3>1. PICK z : z = metrics.converted + 1 OBVIOUS
    <3>2. z \in Nat BY <3>1 DEF Counters
    <3>3. metrics' = [metrics EXCEPT !.converted = z, !.pages_ok = x, !.pages_failed = y]
      BY Zenon, <2>5, <3>1
    <3>4. metrics' \in [Counters -> Nat] BY <3>2, <3>3
    <3>5. /\ metrics'.converted = z /\ metrics'.failed = metrics.failed
          /\ metrics'.rejected = metrics.rejected
      BY <3>2, <3>3 DEF Counters
    <3>6. metrics.failed \in Nat /\ metrics.rejected \in Nat BY DEF Counters
    <3> QED BY <3>1, <3>4, <3>5, <3>6 DEF Tally
  <2> QED BY Zenon, <2>1, <2>2, <2>3, <2>4, <2>5
<1>refusals. ASSUME NEW s \in Streams,
                    \/ \E code \in OptionErrors : RefuseOptions(s, code)
                    \/ \E m \in Messages : ReadMessage(s, m)
             PROVE  MetricsInv'
  <2> USE <1>refusals
  <2>0. /\ metrics \in [Counters -> Nat] /\ ReaderPlace(s) /\ Unopened(s)
        /\ outcome \in [Streams -> {"none", "OK", "CANCELLED", "ABORTED"} \cup OptionErrors \cup ReadErrors]
        /\ status \in [Streams -> {"OK"} \cup ReadErrors]
    BY Zenon DEF PipelineInv, StreamInv, ThreadsOK, MetricsInv
  <2>1. ASSUME NEW code \in OptionErrors, RefuseOptions(s, code) PROVE MetricsInv'
    <3>1. /\ reader[s] = "idle" /\ outcome' = [outcome EXCEPT ![s] = code]
          /\ metrics' = [metrics EXCEPT !.rejected = @ + 1] /\ status' = status
      BY Zenon, <2>1 DEF RefuseOptions
    <3>2. "idle" # "done" OBVIOUS
    <3>3. outcome[s] = "none" /\ status[s] = "OK" BY Zenon, <2>0, <3>1, <3>2 DEF ReaderPlace, Unopened
    <3>4. outcome'[s] = code /\ \A t \in Streams \ {s} : outcome'[t] = outcome[t] BY Zenon, <2>0, <3>1
    <3>5. Tally(0, 0, 1) BY Zenon, <2>0, <3>1, <1>tally
    <3>6. outcome'[s] \in Rejections BY Zenon, <3>4 DEF Rejections
    <3>7. status'[s] = status[s] /\ \A t \in Streams \ {s} : outcome'[t] = outcome[t] /\ status'[t] = status[t]
      BY Zenon, <3>1, <3>4
    <3> QED BY Zenon, <3>3, <3>5, <3>6, <3>7, <1>counted
  <2>2. ASSUME NEW m \in Messages, ReadMessage(s, m) PROVE MetricsInv'
    <3>1. /\ reader[s] = "reading" /\ outcome' = outcome
          /\ \/ status' = status /\ metrics' = metrics
             \/ /\ Verdict(m, started[s]) \in ReadErrors
                /\ status' = [status EXCEPT ![s] = Verdict(m, started[s])]
                /\ metrics' = [metrics EXCEPT !.rejected = @ + 1]
      BY Zenon, <2>2 DEF ReadMessage
    <3>2. CASE status' = status /\ metrics' = metrics
      <4>1. Tally(0, 0, 0) BY Zenon, <2>0, <3>2, <1>tally
      <4> QED BY Zenon, <3>1, <3>2, <4>1, <1>quiet
    <3>3. CASE /\ Verdict(m, started[s]) \in ReadErrors
               /\ status' = [status EXCEPT ![s] = Verdict(m, started[s])]
               /\ metrics' = [metrics EXCEPT !.rejected = @ + 1]
      <4>1. "reading" \notin {"leave", "join", "drain", "done"} /\ "OK" \notin ReadErrors
        BY DEF ReadErrors
      <4>2. outcome[s] = "none" /\ status[s] = "OK" BY Zenon, <2>0, <3>1, <4>1 DEF ReaderPlace
      <4>3. status'[s] # "OK" /\ \A t \in Streams \ {s} : status'[t] = status[t]
        BY Zenon, <2>0, <3>3, <4>1
      <4>4. Tally(0, 0, 1) BY Zenon, <2>0, <3>3, <1>tally
      <4>5. outcome'[s] = "none" /\ \A t \in Streams \ {s} : outcome'[t] = outcome[t] /\ status'[t] = status[t]
        BY Zenon, <3>1, <4>2, <4>3
      <4> QED BY Zenon, <4>2, <4>3, <4>4, <4>5, <1>counted
    <3> QED BY Zenon, <3>1, <3>2, <3>3
  <2> QED BY Zenon, <2>1, <2>2
<1>ends. ASSUME NEW s \in Streams, Finish(s) \/ WriteTrailer(s)
         PROVE  MetricsInv'
  <2> USE <1>ends
  <2>0. /\ metrics \in [Counters -> Nat] /\ ReaderPlace(s) /\ status[s] \in {"OK"} \cup ReadErrors
        /\ outcome \in [Streams -> {"none", "OK", "CANCELLED", "ABORTED"} \cup OptionErrors \cup ReadErrors]
        /\ ok[s] \in Nat /\ page_failed[s] \in Nat
    BY Zenon DEF PipelineInv, StreamInv, ThreadsOK, MetricsInv
  <2>n. outcome[s] = "none"
    <3>1. "drain" # "done" /\ "trailer" # "done" OBVIOUS
    <3> QED BY Zenon, <2>0, <3>1 DEF Finish, WriteTrailer, ReaderPlace
  <2>1. CASE Finish(s)
    <3>1. PICK final : final = FinalStatus(s) OBVIOUS
    <3>2. /\ metrics' = Counted(s, final) /\ status' = status
          /\ outcome' = [outcome EXCEPT ![s] = IF final = "OK" THEN @ ELSE final]
      BY Zenon, <2>1, <3>1 DEF Finish
    <3>3. /\ \A t \in Streams \ {s} : outcome'[t] = outcome[t] /\ status'[t] = status[t]
          /\ status'[s] = status[s] /\ outcome'[s] = IF final = "OK" THEN outcome[s] ELSE final
      BY Zenon, <2>0, <3>2
    <3>4. /\ status[s] # "OK" => final = status[s] /\ final \in ReadErrors
          /\ status[s] = "OK" => final \in {"OK", "CANCELLED", "INVALID_ARGUMENT", "ABORTED"}
      BY Zenon, <2>0, <3>1 DEF FinalStatus
    <3>5. /\ "ABORTED" \notin Rejections /\ "INVALID_ARGUMENT" \in Rejections /\ ReadErrors \subseteq Rejections
          /\ "INVALID_ARGUMENT" \notin {"OK", "CANCELLED", "ABORTED"} /\ "ABORTED" # "OK"
          /\ "CANCELLED" # "OK" /\ "CANCELLED" # "ABORTED" /\ "OK" \notin ReadErrors
      BY DEF Rejections, OptionErrors, ReadErrors
    <3>6. CASE status[s] # "OK"
      <4>1. metrics' = metrics /\ outcome'[s] \in Rejections
        BY Zenon, <3>2, <3>3, <3>4, <3>5, <3>6 DEF Counted
      <4>2. Tally(0, 0, 0) BY Zenon, <2>0, <4>1, <1>tally
      <4> QED BY Zenon, <2>n, <3>3, <3>6, <4>1, <4>2, <1>counted
    <3>7. CASE status[s] = "OK" /\ final = "OK"
      <4>1. metrics' = metrics BY Zenon, <3>2, <3>5, <3>7 DEF Counted
      <4>2. outcome' = outcome BY Zenon, <2>0, <3>2, <3>7
      <4>3. Tally(0, 0, 0) BY Zenon, <2>0, <4>1, <1>tally
      <4> QED BY Zenon, <3>2, <4>2, <4>3, <1>quiet
    <3>8. CASE status[s] = "OK" /\ final = "CANCELLED"
      <4>1. metrics' = metrics /\ outcome'[s] = "CANCELLED" BY Zenon, <3>2, <3>3, <3>5, <3>8 DEF Counted
      <4>2. Tally(0, 0, 0) BY Zenon, <2>0, <4>1, <1>tally
      <4> QED BY Zenon, <2>n, <3>3, <3>8, <4>1, <4>2, <1>counted
    <3>9. CASE status[s] = "OK" /\ final = "INVALID_ARGUMENT"
      <4>1. metrics' = [metrics EXCEPT !.rejected = @ + 1] /\ outcome'[s] \in Rejections
        BY Zenon, <3>2, <3>3, <3>5, <3>9 DEF Counted
      <4>2. Tally(0, 0, 1) BY Zenon, <2>0, <4>1, <1>tally
      <4> QED BY Zenon, <2>n, <3>3, <3>9, <4>1, <4>2, <1>counted
    <3>10. CASE status[s] = "OK" /\ final = "ABORTED"
      <4>1. metrics' = [metrics EXCEPT !.failed = @ + 1] /\ outcome'[s] = "ABORTED"
        BY Zenon, <3>2, <3>3, <3>5, <3>10 DEF Counted
      <4>2. Tally(0, 1, 0) BY Zenon, <2>0, <4>1, <1>tally
      <4> QED BY Zenon, <2>n, <3>3, <3>10, <4>1, <4>2, <1>counted
    <3> QED BY Zenon, <3>4, <3>6, <3>7, <3>8, <3>9, <3>10
  <2>2. CASE WriteTrailer(s)
    <3>1. /\ reader[s] = "trailer" /\ outcome' = [outcome EXCEPT ![s] = "OK"] /\ status' = status
          /\ metrics' = [metrics EXCEPT !.converted = @ + 1, !.pages_ok = @ + ok[s],
                                        !.pages_failed = @ + page_failed[s]]
      BY Zenon, <2>2 DEF WriteTrailer
    <3>2. "trailer" \notin {"leave", "join", "drain", "done"} OBVIOUS
    <3>3. status[s] = "OK" /\ status'[s] = status[s] BY Zenon, <2>0, <3>1, <3>2 DEF ReaderPlace
    <3>4. outcome'[s] = "OK" /\ \A t \in Streams \ {s} : outcome'[t] = outcome[t] /\ status'[t] = status[t]
      BY Zenon, <2>0, <3>1
    <3>5. PICK x, y : /\ x = metrics.pages_ok + ok[s] /\ y = metrics.pages_failed + page_failed[s]
      OBVIOUS
    <3>6. x \in Nat /\ y \in Nat BY <2>0, <3>5 DEF Counters
    <3>7. metrics' = [metrics EXCEPT !.converted = @ + 1, !.pages_ok = x, !.pages_failed = y]
      BY Zenon, <3>1, <3>5
    <3>8. Tally(1, 0, 0) BY Zenon, <2>0, <3>6, <3>7, <1>tally
    <3> QED BY Zenon, <2>n, <3>3, <3>4, <3>8, <1>counted
  <2> QED BY Zenon, <2>1, <2>2
<1>0. metrics \in [Counters -> Nat] BY Zenon DEF MetricsInv
<1>1. ASSUME UNCHANGED <<outcome, status>>,
             metrics' = metrics \/ metrics' = [metrics EXCEPT !.pages_finished = @ + 1]
      PROVE  MetricsInv'
  <2>1. Tally(0, 0, 0) BY Zenon, <1>0, <1>1, <1>tally
  <2> QED BY Zenon, <1>1, <2>1, <1>quiet
<1>2. ASSUME NEW s \in Streams, ReaderStep(s) PROVE MetricsInv'
  <2>1. CASE TestHalted(s) \/ AcquireStream(s) \/ AcquireProcess(s) \/ Announce(s) \/ Enqueue(s)
             \/ CloseJobs(s) \/ CloseEvents(s)
    BY Zenon, <2>1, <1>1 DEF TestHalted, AcquireStream, AcquireProcess, Announce, Enqueue,
       CloseJobs, CloseEvents
  <2> QED BY Zenon, <1>2, <2>1, <1>ends DEF ReaderStep
<1>3. ASSUME NEW s \in Streams, ClientStep(s) PROVE MetricsInv'
  <2>1. CASE (\E request \in Requests : Open(s, request)) \/ Cancel(s) \/ ReadEnd(s)
    BY Zenon, <2>1, <1>1 DEF Open, Cancel, ReadEnd
  <2> QED BY Zenon, <1>3, <2>1, <1>refusals DEF ClientStep
<1>4. ASSUME NEW s \in Streams, TransportStep(s) \/ WriterTurn(s) PROVE MetricsInv'
  <2>1. CASE WriterTurn(s) \/ WriteEvent(s) \/ WriteFails(s)
    BY Zenon, <2>1, <1>1 DEF WriterTurn, WriteEvent, WriteFails
  <2> QED BY Zenon, <1>4, <2>1, <1>ends DEF TransportStep
<1>5. ASSUME NEW s \in Streams, NEW w \in Workers, WorkerStep(s, w) \/ EndpointStep(s, w)
      PROVE  MetricsInv'
  BY Zenon, <1>5, <1>1 DEF WorkerStep, EndpointStep, PopJob, ExitWorker, SkipOrGoOn, AcquireSlot,
     CutCall, Abort, DropSlot, DropJob, Answer
<1>6. CASE UNCHANGED vars BY Zenon, <1>6, <1>1 DEF vars
<1> QED BY Zenon, <1>2, <1>3, <1>4, <1>5, <1>6 DEF Next, AllDone

-----------------------------------------------------------------------------
(* The halts.                                                              *)

(* No step takes a halt back. *)
LEMMA HaltSteps ==
  ASSUME PipelineInv, [Next]_vars
  PROVE  HaltStep
<1>0. halt \in [Streams -> BOOLEAN] BY Zenon DEF PipelineInv, ThreadsOK
<1>1. ASSUME NEW s \in Streams, NEW v \in BOOLEAN, halt' = [halt EXCEPT ![s] = halt[s] \/ v]
      PROVE  HaltStep
  <2>1. CASE halt[s] \/ ~v
    <3>1. (halt[s] \/ v) = halt[s] BY <2>1, <1>0
    <3>2. halt' = halt BY Zenon, <3>1, <1>0, <1>1
    <3> QED BY Zenon, <3>2 DEF HaltStep
  <2>2. CASE ~halt[s] /\ v
    <3>1. (halt[s] \/ v) = TRUE BY <2>2
    <3>2. halt' = [halt EXCEPT ![s] = TRUE] BY Zenon, <1>1, <3>1
    <3> QED BY Zenon, <2>2, <3>2 DEF HaltStep
  <2> QED BY Zenon, <2>1, <2>2
<1>2. CASE UNCHANGED vars BY Zenon, <1>2 DEF vars, HaltStep
<1>3. ASSUME NEW s \in Streams, CloseJobs(s) PROVE HaltStep
  <2>1. PICK v \in BOOLEAN : v = (status[s] # "OK") OBVIOUS
  <2>2. halt' = [halt EXCEPT ![s] = halt[s] \/ v] BY Zenon, <1>3, <2>1 DEF CloseJobs
  <2> QED BY Zenon, <2>2, <1>1
<1>4. ASSUME NEW s \in Streams, halt' = [halt EXCEPT ![s] = TRUE] PROVE HaltStep
  <2>1. (halt[s] \/ TRUE) = TRUE OBVIOUS
  <2>2. halt' = [halt EXCEPT ![s] = halt[s] \/ TRUE] BY Zenon, <1>4, <2>1
  <2> QED BY Zenon, <2>2, <1>1
<1>5. ASSUME NEW s \in Streams, ReaderStep(s) PROVE HaltStep
  <2>1. halt' = halt \/ CloseJobs(s)
    BY Zenon, <1>5 DEF ReaderStep, TestHalted, AcquireStream, AcquireProcess, Announce, Enqueue,
       CloseEvents, Finish
  <2> QED BY Zenon, <2>1, <1>3 DEF HaltStep
<1>6. ASSUME NEW s \in Streams, ClientStep(s) \/ TransportStep(s) \/ WriterTurn(s) PROVE HaltStep
  <2>1. CASE ClientStep(s)
    <3>1. halt' = halt BY Zenon, <2>1 DEF ClientStep, RefuseOptions, Open, Cancel, ReadEnd, ReadMessage
    <3> QED BY Zenon, <3>1 DEF HaltStep
  <2>2. CASE TransportStep(s) \/ WriterTurn(s)
    <3>1. halt' = halt \/ halt' = [halt EXCEPT ![s] = TRUE]
      BY Zenon, <2>2 DEF TransportStep, WriterTurn, WriterStops, WriteEvent, WriteFails, WriteTrailer
    <3> QED BY Zenon, <3>1, <1>4 DEF HaltStep
  <2> QED BY Zenon, <1>6, <2>1, <2>2
<1>7. ASSUME NEW s \in Streams, NEW w \in Workers, WorkerStep(s, w) \/ EndpointStep(s, w)
      PROVE  HaltStep
  <2>1. halt' = halt \/ halt' = [halt EXCEPT ![s] = TRUE]
    BY Zenon, <1>7 DEF WorkerStep, PopJob, ExitWorker, SkipOrGoOn, AcquireSlot, CutCall, Abort,
       DropSlot, DropJob, EndpointStep, Answer
  <2> QED BY Zenon, <2>1, <1>4 DEF HaltStep
<1> QED BY Zenon, <1>2, <1>5, <1>6, <1>7 DEF Next, AllDone, HaltStep
=============================================================================
