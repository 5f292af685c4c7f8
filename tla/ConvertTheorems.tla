-------------------------- MODULE ConvertTheorems ---------------------------
(***************************************************************************)
(* What PipelineInv (where the pages of ConvertPages are) gives together   *)
(* with CountInv (what is counted) and LeaseInv (what the pages hold): the *)
(* counters are right, no lease leaks, the caps hold, and the pipelines    *)
(* are callers of BudgetClients.                                           *)
(***************************************************************************)
EXTENDS ConvertProofs, ConvertLeaseProofs, ConvertRefinement

-----------------------------------------------------------------------------
(* What is counted.                                                        *)

LEMMA OneElementMoves ==
  ASSUME NEW S, IsFiniteSet(S), NEW A \in SUBSET S, NEW B \in SUBSET S, NEW x,
         \A y \in S : y # x => (y \in A <=> y \in B)
  PROVE  Recount(A, B, x)
<1>1. IsFiniteSet(A) /\ IsFiniteSet(B) BY Zenon, FS_Subset
<1>2. Cardinality(A) \in Nat /\ Cardinality(B) \in Nat BY Zenon, <1>1, FS_CardinalityType
<1>3. ASSUME x \in A <=> x \in B PROVE A = B
  <2>1. \A y : y \in A <=> y \in B BY <1>3
  <2> QED BY Zenon, <2>1
<1>4. ASSUME x \notin A, x \in B PROVE Cardinality(B) = Cardinality(A) + 1
  <2>1. B = A \cup {x} BY Zenon, <1>4
  <2> QED BY Zenon, <1>1, <1>4, <2>1, FS_AddElement
<1>5. ASSUME x \in A, x \notin B PROVE Cardinality(B) = Cardinality(A) - 1
  <2>1. B = A \ {x} BY Zenon, <1>5
  <2> QED BY Zenon, <1>1, <1>5, <2>1, FS_RemoveElement
<1> QED BY Zenon, <1>2, <1>3, <1>4, <1>5 DEF Recount

LEMMA CountAppend ==
  ASSUME NEW V, NEW q \in Seq(V), NEW e \in V, NEW kind
  PROVE  OneMore(q, e, kind)
<1> DEFINE n == Len(q) + 1
           a == Append(q, e)
           A == {i \in DOMAIN q : q[i].kind = kind}
           B == {i \in DOMAIN a : a[i].kind = kind}
<1>1. /\ DOMAIN q = 1..Len(q) /\ DOMAIN a = 1..n /\ a[n] = e /\ n \in 1..n /\ n \notin 1..Len(q)
      /\ \A i \in 1..Len(q) : a[i] = q[i]
      /\ \A i \in 1..n : i # n => i \in 1..Len(q)
      /\ 1..Len(q) \subseteq 1..n /\ IsFiniteSet(1..n)
  <2>1. n \in Nat OBVIOUS
  <2>2. IsFiniteSet(1..n) BY <2>1, FS_Interval
  <2> QED BY <2>1, <2>2
<1> HIDE DEF n, a
<1>2. A \in SUBSET (1..n) /\ B \in SUBSET (1..n) BY Zenon, <1>1
<1>3. \A i \in 1..n : i # n => (i \in A <=> i \in B) BY Zenon, <1>1
<1>4. n \notin A /\ (n \in B <=> e.kind = kind) BY Zenon, <1>1
<1>5. Recount(A, B, n)
  <2> HIDE DEF A, B
  <2> QED BY Zenon, <1>1, <1>2, <1>3, OneElementMoves
<1>6. Count(q, kind) = Cardinality(A) /\ Count(Append(q, e), kind) = Cardinality(B)
  BY Zenon DEF Count, a
<1> HIDE DEF A, B
<1> QED BY Zenon, <1>4, <1>5, <1>6 DEF Recount, OneMore

LEMMA OneEventMore == EventsCount
  BY Zenon, CountAppend DEF EventsCount

LEMMA OneStreamMore == StreamsCount
<1>1. IsFiniteSet(Streams) BY SizesAssumption, FS_Interval DEF Streams
<1> QED BY Zenon, <1>1, OneElementMoves DEF StreamsCount

LEMMA InitCountInv ==
  ASSUME Init
  PROVE  CountInv
<1>1. ASSUME NEW s \in Streams PROVE CountsTold(s)
  <2>1. events[s] = NewChannel /\ started[s] = 0 /\ ok[s] = 0 /\ page_failed[s] = 0 /\ wire[s] = <<>>
    BY Zenon DEF Init
  <2>2. NewChannel.log = <<>> /\ DOMAIN <<>> = {} BY DEF NewChannel
  <2>3. \A kind : Count(<<>>, kind) = 0 BY Zenon, <2>2, FS_EmptySet DEF Count
  <2> QED BY Zenon, <2>1, <2>2, <2>3 DEF CountsTold
<1>2. MetricsInv
  <2>1. /\ metrics = NewMetrics /\ \A s \in Streams : outcome[s] = "none" /\ status[s] = "OK"
    BY Zenon DEF Init
  <2>2. /\ NewMetrics \in [Counters -> Nat] /\ NewMetrics.converted = 0 /\ NewMetrics.failed = 0
        /\ NewMetrics.rejected = 0
    BY DEF NewMetrics, Counters
  <2>3. "none" \notin {"OK"} /\ "none" \notin {"ABORTED"} /\ "none" \notin Rejections
    BY DEF Rejections, OptionErrors, ReadErrors
  <2>4. Ended({"OK"}) = {} /\ Ended({"ABORTED"}) = {} /\ Ended(Rejections) = {} /\ Refused = {}
    BY Zenon, <2>1, <2>3 DEF Ended, Refused
  <2>5. Cardinality({}) = 0 /\ 0 + 0 = 0 BY FS_EmptySet
  <2> QED BY Zenon, <2>1, <2>2, <2>4, <2>5 DEF MetricsInv
<1> QED BY Zenon, <1>1, <1>2, MetricsRestated DEF CountInv, MetricsPart

LEMMA NextCountInv ==
  ASSUME PipelineInv, CountInv, [Next]_vars
  PROVE  CountInv'
<1>1. \A s \in Streams : CountsTold(s)' BY Zenon, OneEventMore, NextCounts
<1>2. MetricsInv BY Zenon, MetricsRestated DEF CountInv, MetricsPart
<1>3. MetricsInv' BY Zenon, <1>2, OneStreamMore, NextMetrics
<1>4. MetricsInv' => MetricsPart' BY MetricsRestated, PTL
<1> QED BY Zenon, <1>1, <1>3, <1>4 DEF CountInv, MetricsPart

(* The counters of a stream and of the process always agree with the       *)
(* events queued and the streams ended: CountInv.                          *)
THEOREM CountsHold == Spec => []CountInv
<1>1. Init => PipelineInv /\ CountInv BY InitPipelineInv, InitCountInv
<1>2. (PipelineInv /\ CountInv) /\ [Next]_vars => (PipelineInv /\ CountInv)'
  BY NextPipelineInv, NextCountInv
<1> QED BY <1>1, <1>2, PTL DEF Spec

(* metrics_: each finished stream is counted once, as converted, failed or *)
(* rejected, wherever in ConvertPages it ended; a cancelled one not at     *)
(* all, and one refused in the read loop only when it was refused.         *)
THEOREM StreamsAreCounted == Spec => []MetricsCountStreams
<1>1. CountInv => MetricsCountStreams BY Zenon DEF CountInv
<1> QED BY <1>1, CountsHold, PTL

(* A stream that answered each of its pages counted each of them once. *)
LEMMA AnswersAddUp ==
  ASSUME PipelineInv, CountInv, NEW s \in Streams, outcome[s] = "OK"
  PROVE  started[s] = ok[s] + page_failed[s]
<1>0. LogOrder(s) /\ TypesAt(s) /\ CountsTold(s)
  BY Zenon, TypesThere DEF PipelineInv, StreamInv, CountInv
<1>1. PICK log : log = events[s].log OBVIOUS
<1>2. PICK n : n = started[s] OBVIOUS
<1>3. /\ log \in Seq(PageEvents) /\ DOMAIN log = 1..Len(log) /\ Len(log) \in Nat /\ n \in Nat
  BY <1>0, <1>1, <1>2, SizesAssumption DEF TypesAt, Channels
<1> DEFINE D == {i \in DOMAIN log : log[i].kind = "page_document"}
           R == {i \in DOMAIN log : log[i].kind = "page_raw"}
           A == D \cup R
           f == [i \in A |-> log[i].page]
<1>4. ok[s] = Cardinality(D) /\ page_failed[s] = Cardinality(R)
  BY Zenon, <1>0, <1>1 DEF CountsTold, Count
<1>5. IsFiniteSet(DOMAIN log) BY <1>3, FS_Interval
<1>6. IsFiniteSet(D) /\ IsFiniteSet(R) /\ D \cap R = {}
  <2>1. "page_document" # "page_raw" OBVIOUS
  <2> QED BY Zenon, <1>5, <2>1, FS_Subset
<1>7. \A i \in A : i \in DOMAIN log /\ log[i].kind \in AnswerKinds BY Zenon DEF AnswerKinds
<1>8. \A i \in DOMAIN log : log[i].kind \in AnswerKinds => i \in A BY Zenon DEF AnswerKinds
<1> HIDE DEF A
<1>9. f \in [A -> 1..n] BY Zenon, <1>0, <1>1, <1>2, <1>7 DEF LogOrder
<1>10. \A i, j \in A : f[i] = f[j] => i = j BY Zenon, <1>0, <1>1, <1>7 DEF LogOrder, Answers
<1>11. \A p \in 1..n : \E i \in A : f[i] = p
  <2>1. \A p \in 1..n : \E i \in DOMAIN log : log[i].kind \in AnswerKinds /\ log[i].page = p
    BY Zenon, <1>1, <1>2, EveryPageAnswered DEF OkAnswersEveryPage
  <2> QED BY Zenon, <2>1, <1>8
<1>12. f \in Bijection(A, 1..n)
  <2> HIDE DEF f
  <2> QED BY Zenon, <1>9, <1>10, <1>11 DEF Bijection, Injection, Surjection, IsInjective
<1>13. IsFiniteSet(A) /\ Cardinality(A) = Cardinality(D) + Cardinality(R) - Cardinality(D \cap R)
  BY Zenon, <1>6, FS_Union DEF A
<1>14. Cardinality(1..n) = Cardinality(A)
  <2> HIDE DEF f
  <2> QED BY Zenon, <1>12, <1>13, FS_Bijection DEF ExistsBijection
<1>15. Cardinality(1..n) = n /\ Cardinality(D \cap R) = 0
  <2>1. Cardinality(1..n) = IF 1 > n THEN 0 ELSE n - 1 + 1
    <3>1. 1 \in Int /\ n \in Int BY <1>3
    <3> QED BY Zenon, <3>1, FS_Interval
  <2>2. Cardinality(D \cap R) = 0 BY Zenon, <1>6, FS_EmptySet
  <2> QED BY <1>3, <2>1, <2>2
<1>16. Cardinality(D) \in Nat /\ Cardinality(R) \in Nat BY Zenon, <1>6, FS_CardinalityType
<1> HIDE DEF D, R
<1> QED BY <1>2, <1>3, <1>4, <1>13, <1>14, <1>15, <1>16

(* The trailer is the last event of an OK stream and states what its       *)
(* client can count for itself: the counters are moved on three threads    *)
(* and read once all are joined (the end of ConvertPagesCore).             *)
THEOREM TrailerIsRight == Spec => []TrailerTellsTheCounts
<1>1. ASSUME PipelineInv, CountInv, NEW s \in Streams, NEW i \in DOMAIN wire[s],
             wire[s][i].kind = "complete"
      PROVE  /\ outcome[s] = "OK" /\ i = Len(wire[s])
             /\ wire[s][i].started = Count(wire[s], "page_started")
             /\ wire[s][i].ok = Count(wire[s], "page_document")
             /\ wire[s][i].failed = Count(wire[s], "page_raw")
             /\ wire[s][i].started = wire[s][i].ok + wire[s][i].failed
  <2>0. WirePlace(s) /\ Ending(s) /\ TypesAt(s) /\ CountsTold(s)
    BY Zenon, <1>1, TypesThere DEF PipelineInv, StreamInv, CountInv
  <2>1. PICK log, sent : log = events[s].log /\ sent = wire[s] OBVIOUS
  <2>2. /\ log \in Seq(PageEvents) /\ sent \in Seq(PageEvents \cup Trailers)
        /\ DOMAIN log = 1..Len(log) /\ DOMAIN sent = 1..Len(sent)
        /\ Len(log) \in Nat /\ Len(sent) \in Nat
    BY <2>0, <2>1 DEF TypesAt, Channels
  <2>3. \A j \in DOMAIN log : log[j].kind # "complete"
    <3>1. \A j \in DOMAIN log : log[j] \in PageEvents BY <2>2
    <3>2. \A x \in PageEvents : x.kind # "complete" BY DEF PageEvents
    <3> QED BY Zenon, <3>1, <3>2
  <2>4. outcome[s] = "OK" /\ i = Len(log) + 1
    BY Zenon, <1>1, <2>0, <2>1, <2>3 DEF WirePlace
  <2>5. \A j \in DOMAIN sent : (j \in DOMAIN log /\ sent[j] = log[j])
                                 \/ (j = Len(log) + 1 /\ sent[j].kind = "complete")
    BY Zenon, <2>0, <2>1 DEF WirePlace
  <2>6. i = Len(sent) /\ DOMAIN log \subseteq DOMAIN sent
    <3>1. i \in 1..Len(sent) BY Zenon, <1>1, <2>1, <2>2
    <3>2. Len(sent) \in DOMAIN sent BY <2>2, <3>1
    <3>3. Len(sent) <= Len(log) + 1 BY <2>2, <2>5, <3>2
    <3>4. PICK m, n : m = Len(log) /\ n = Len(sent) OBVIOUS
    <3>5. m \in Nat /\ n \in Nat /\ i = m + 1 /\ i \in 1..n /\ n <= m + 1
      BY Zenon, <2>2, <2>4, <3>1, <3>3, <3>4
    <3>6. n = m + 1 BY <3>5
    <3>7. \A j \in 1..m : j \in 1..n BY <3>5, <3>6
    <3> QED BY Zenon, <2>2, <2>4, <3>4, <3>6, <3>7
  <2>7. ASSUME NEW kind, kind # "complete" PROVE Count(sent, kind) = Count(log, kind)
    <3>1. \A j : j \in DOMAIN log => j \in DOMAIN sent /\ sent[j] = log[j]
      <4>1. \A j \in DOMAIN log : j # Len(log) + 1 BY <2>2
      <4> QED BY Zenon, <2>5, <2>6, <4>1
    <3>2. \A j : j \in DOMAIN sent /\ sent[j].kind = kind <=> j \in DOMAIN log /\ log[j].kind = kind
      BY Zenon, <2>5, <2>7, <3>1
    <3>3. {j \in DOMAIN sent : sent[j].kind = kind} = {j \in DOMAIN log : log[j].kind = kind}
      BY Zenon, <3>2
    <3> QED BY Zenon, <3>3 DEF Count
  <2>8. PICK e : e = [kind |-> "complete", started |-> started[s],
                      ok |-> ok[s], failed |-> page_failed[s]]
    OBVIOUS
  <2>9. sent[i] = e /\ e.started = started[s] /\ e.ok = ok[s] /\ e.failed = page_failed[s]
    <3>1. sent[i] = e BY Zenon, <1>1, <2>0, <2>1, <2>8 DEF CountsTold
    <3> QED BY <2>8, <3>1
  <2>10. /\ started[s] = Count(sent, "page_started") /\ ok[s] = Count(sent, "page_document")
         /\ page_failed[s] = Count(sent, "page_raw")
    <3>1. "page_started" # "complete" /\ "page_document" # "complete" /\ "page_raw" # "complete"
      OBVIOUS
    <3> QED BY Zenon, <2>0, <2>1, <2>7, <3>1 DEF CountsTold
  <2>11. started[s] = ok[s] + page_failed[s] BY Zenon, <1>1, <2>4, AnswersAddUp
  <2> QED BY Zenon, <2>1, <2>4, <2>6, <2>9, <2>10, <2>11
<1>2. PipelineInv /\ CountInv => TrailerTellsTheCounts BY Zenon, <1>1 DEF TrailerTellsTheCounts
<1> QED BY <1>2, PipelineHolds, CountsHold, PTL

-----------------------------------------------------------------------------
(* The leases.                                                             *)

(* The event queue has no cap of its own, and needs none: a page puts at   *)
(* most two events in it.                                                  *)
LEMMA TwoEventsPerPage ==
  ASSUME PipelineInv, NEW s \in Streams
  PROVE  Len(events[s].log) <= 2 * MaxPages
<1>0. LogOrder(s) /\ TypesAt(s) BY Zenon DEF PipelineInv, StreamInv, ThreadsOK, TypesAt
<1>1. PICK log : log = events[s].log OBVIOUS
<1>2. /\ log \in Seq(PageEvents) /\ DOMAIN log = 1..Len(log) /\ Len(log) \in Nat
      /\ started[s] \in 0..MaxPages /\ MaxPages \in Nat
  <2>1. started[s] \in 0..MaxPages BY Zenon DEF PipelineInv, ThreadsOK
  <2> QED BY <1>0, <1>1, <2>1, SizesAssumption DEF TypesAt, Channels
<1>3. \A i \in 1..Len(log) : log[i].page \in 1..started[s] BY Zenon, <1>0, <1>1, <1>2 DEF LogOrder
<1>4. \A i \in 1..Len(log) : log[i].kind = "page_started" \/ log[i].kind \in AnswerKinds
  <2>1. \A x \in PageEvents : x.kind = "page_started" \/ x.kind \in AnswerKinds
    BY DEF PageEvents, AnswerKinds
  <2>2. \A i \in 1..Len(log) : log[i] \in PageEvents BY <1>2
  <2> QED BY Zenon, <2>1, <2>2
<1>5. \A i, j \in 1..Len(log) :
         /\ i # j /\ log[i].kind = "page_started" /\ log[j].kind = "page_started"
               => log[i].page # log[j].page
         /\ i # j /\ log[i].kind \in AnswerKinds /\ log[j].kind \in AnswerKinds
               => log[i].page # log[j].page
  BY Zenon, <1>0, <1>1, <1>2 DEF LogOrder, Announces, Answers
<1> DEFINE S == 1..Len(log)
           T == 1..(2 * MaxPages)
           f == [i \in S |-> IF log[i].kind = "page_started" THEN 2 * log[i].page - 1
                             ELSE 2 * log[i].page]
<1>6. f \in [S -> T]
  <2> SUFFICES ASSUME NEW i \in S
               PROVE  2 * log[i].page - 1 \in T /\ 2 * log[i].page \in T
    BY Zenon
  <2>1. log[i].page \in 1..started[s] BY Zenon, <1>3
  <2> QED BY <2>1, <1>2
<1>7. ASSUME NEW i \in S, NEW j \in S, f[i] = f[j] PROVE i = j
  <2>1. PICK a, b : a = log[i].page /\ b = log[j].page OBVIOUS
  <2>2. a \in Int /\ b \in Int BY <2>1, <1>2, <1>3
  <2>3. /\ f[i] = IF log[i].kind = "page_started" THEN 2 * a - 1 ELSE 2 * a
        /\ f[j] = IF log[j].kind = "page_started" THEN 2 * b - 1 ELSE 2 * b
    BY Zenon, <2>1
  <2>4. a = b /\ (log[i].kind = "page_started" <=> log[j].kind = "page_started")
    <3>1. PICK x, y : /\ x = (log[i].kind = "page_started") /\ y = (log[j].kind = "page_started")
      OBVIOUS
    <3>2. x \in BOOLEAN /\ y \in BOOLEAN BY Zenon, <3>1
    <3>3. (IF x THEN 2 * a - 1 ELSE 2 * a) = (IF y THEN 2 * b - 1 ELSE 2 * b)
      BY Zenon, <1>7, <2>3, <3>1
    <3> HIDE DEF f
    <3>4. a = b /\ x = y BY <2>2, <3>2, <3>3
    <3> QED BY Zenon, <3>1, <3>4
  <2> QED BY Zenon, <1>4, <1>5, <2>1, <2>4
<1>8. f \in Injection(S, T)
  <2> HIDE DEF f
  <2> QED BY Zenon, <1>6, <1>7 DEF Injection, IsInjective
<1>9. /\ IsFiniteSet(T) /\ Cardinality(T) = 2 * MaxPages /\ Cardinality(S) = Len(log)
  <2>1. \A n \in Nat : IsFiniteSet(1..n) /\ Cardinality(1..n) = n
    <3> SUFFICES ASSUME NEW n \in Nat PROVE IsFiniteSet(1..n) /\ Cardinality(1..n) = n
      OBVIOUS
    <3>1. IsFiniteSet(1..n) /\ Cardinality(1..n) = IF 1 > n THEN 0 ELSE n - 1 + 1
      BY 1 \in Int, n \in Int, FS_Interval, Zenon
    <3> QED BY <3>1
  <2>2. 2 * MaxPages \in Nat BY <1>2
  <2> QED BY Zenon, <1>2, <2>1, <2>2
<1>10. Cardinality(S) <= Cardinality(T)
  <2> HIDE DEF f, S, T
  <2> QED BY Zenon, <1>8, <1>9, FS_Injection
<1> QED BY Zenon, <1>1, <1>9, <1>10

(* What each budget has lent stays under its capacity. *)
LEMMA CapsFromLeases == PipelineInv /\ LeaseInv => CapsHold
<1> SUFFICES ASSUME PipelineInv, LeaseInv PROVE CapsHold OBVIOUS
<1>1. \A s \in Streams : Len(events[s].log) <= 2 * MaxPages BY Zenon, TwoEventsPerPage
<1> QED BY Zenon, <1>1
        DEF LeaseInv, ByteInv, StreamBudget, ProcessBudget, SlotBudget, CapsHold

(* A stream whose reader is done has nothing queued, lent or in a line. *)
LEMMA NothingLeft == PipelineInv /\ LeaseInv => NothingLeftBehind
<1>1. ASSUME PipelineInv, LeaseInv, NEW s \in Streams, reader[s] = "done"
      PROVE  /\ writer[s] = "exited" /\ \A w \in Workers : worker[s][w] = "exited"
             /\ Empty(jobs[s]) /\ stream_bytes[s].used = 0 /\ stream_bytes[s].line = <<>>
             /\ \A i \in DOMAIN buffered_bytes.line :
                   buffered_bytes.line[i] \notin {PageId(s, p) : p \in 1..MaxPages}
             /\ \A i \in DOMAIN vlm_slots.line :
                   vlm_slots.line[i] \notin {WorkerId(s, w) : w \in Workers}
  <2>1. WorkersGone(s) /\ writer[s] = "exited"
    BY Zenon, <1>1 DEF PipelineInv, StreamInv, ReaderPlace
  <2>2. Empty(jobs[s]) BY Zenon, <1>1 DEF LeaseInv, ByteInv, JobsAreQueued
  <2>3. StreamBytes(s) = 0 BY Zenon, <1>1, <2>1, <2>2, NothingLeased
  <2>4. "done" # "stream_wait" /\ "done" # "process_wait" /\ "exited" # "slot_wait" OBVIOUS
  <2>5. stream_bytes[s].used = 0 /\ stream_bytes[s].line = <<>>
    BY Zenon, <1>1, <2>3, <2>4 DEF LeaseInv, ByteInv, StreamBudget
  <2>6. \A p \in 1..MaxPages : ~In(buffered_bytes.line, PageId(s, p))
    BY Zenon, <1>1, <2>4 DEF LeaseInv, ByteInv, ProcessBudget, Pages
  <2>7. \A w \in Workers : ~In(vlm_slots.line, WorkerId(s, w))
    BY Zenon, <1>1, <2>1, <2>4 DEF LeaseInv, SlotBudget, WorkersGone
  <2> QED BY Zenon, <2>1, <2>2, <2>5, <2>6, <2>7 DEF WorkersGone, In
<1> QED BY Zenon, <1>1 DEF NothingLeftBehind

(* LeaseInv always holds: what each budget has lent is what the pages and  *)
(* workers entitled to it hold, and who stands in each line of budget.h is *)
(* known from the places of the threads.                                   *)
THEOREM LeasesHold == Spec => []LeaseInv
<1>1. Init => PipelineInv /\ LeaseInv BY InitPipelineInv, InitLeaseInv
<1>2. (PipelineInv /\ LeaseInv) /\ [Next]_vars => (PipelineInv /\ LeaseInv)'
  BY Zenon, NextPipelineInv, NextLeaseInv
<1> QED BY <1>1, <1>2, PTL DEF Spec

(* No lease leaks and none is given back twice: on every path of the read  *)
(* loop and of a worker's iteration, stream_bytes and buffered_bytes_ have *)
(* lent exactly the pages read and not yet answered, vlm_slots_ exactly    *)
(* the pages between their call and their queued event.                    *)
THEOREM NoLeaseLeaks == Spec => []LeasesMatchPages
<1>1. LeaseInv => LeasesMatchPages
  BY Zenon DEF LeaseInv, ByteInv, StreamBudget, ProcessBudget, SlotBudget, LeasesMatchPages
<1> QED BY <1>1, LeasesHold, PTL

(* The caps of config.h hold whatever clients send: a stream's images stay *)
(* under max_stream_buffered_bytes, all streams' under max_buffered_bytes, *)
(* the pages in a call under max_inflight, and the event queue, which has  *)
(* no cap, stays under two events per page.                                *)
THEOREM CapsAreKept == Spec => []CapsHold
  BY CapsFromLeases, PipelineHolds, LeasesHold, PTL

(* Once ConvertPages has returned, its threads are joined, its queue is    *)
(* empty, its own budget is whole, and no place of its pages or workers is *)
(* left in the lines of buffered_bytes_ and vlm_slots_ to hold up others.  *)
THEOREM DoneLeavesNothing == Spec => []NothingLeftBehind
  BY NothingLeft, PipelineHolds, LeasesHold, PTL

(* Every variable of every thread, every counter and every budget stays in *)
(* its range: no channel is popped past its end, no page is numbered above *)
(* max_pages, and no release() takes used_ below zero.                     *)
THEOREM TypesHold == Spec => []TypeOK
<1>1. PipelineInv /\ CountInv /\ LeaseInv => TypeOK
  BY Zenon DEF PipelineInv, CountInv, LeaseInv, ByteInv, ProcessBudget, SlotBudget, Pages,
               TypeOK, SharedOK
<1> QED BY <1>1, PipelineHolds, CountsHold, LeasesHold, PTL

-----------------------------------------------------------------------------
(* The operators of Budget are the same on either side of an INSTANCE.     *)

LEMMA SlotsSame ==
  /\ \A n : Slots!NewBudget(n) = NewBudget(n)
  /\ \A b, n : Slots!Clamp(b, n) = Clamp(b, n) /\ Slots!Release(b, n) = Release(b, n)
  /\ \A b, c : Slots!Enter(b, c) = Enter(b, c)
  /\ \A b, c, n, stop : /\ Slots!TurnOf(b, c, n, stop) = TurnOf(b, c, n, stop)
                        /\ Slots!AfterTurn(b, c, n, stop) = AfterTurn(b, c, n, stop)
<1>1. \A line, c : Slots!Erase(line, c) = Erase(line, c) BY Zenon DEF Slots!Erase, Erase
<1>2. \A b, c, n : Slots!MayTake(b, c, n) <=> MayTake(b, c, n) BY Zenon DEF Slots!MayTake, MayTake
<1>3. \A b, c, n : Slots!Take(b, c, n) = Take(b, c, n) /\ Slots!Leave(b, c) = Leave(b, c)
  BY Zenon, <1>1 DEF Slots!Take, Take, Slots!Leave, Leave
<1>4. \A b, c, n, stop : /\ Slots!TurnOf(b, c, n, stop) = TurnOf(b, c, n, stop)
                         /\ Slots!AfterTurn(b, c, n, stop) = AfterTurn(b, c, n, stop)
  BY Zenon, <1>2, <1>3 DEF Slots!TurnOf, TurnOf, Slots!AfterTurn, AfterTurn
<1> QED BY Zenon, <1>4 DEF Slots!NewBudget, NewBudget, Slots!Clamp, Clamp, Slots!Release, Release,
                           Slots!Enter, Enter

LEMMA SlotsInit ==
  ASSUME Init, PipelineInv
  PROVE  Slots!Init
<1>1. vlm_slots = NewBudget(MaxInflight) BY Zenon DEF Init
<1> QED BY Zenon, <1>1, CallersAtStart, SlotsSame DEF Slots!Init, Slots!Callers, SlotCallers

(* What a step of the pipelines is to vlm_slots_. *)
LEMMA SlotsStep ==
  ASSUME PipelineInv, SlotBudget, [Next]_vars
  PROVE  [Slots!Next]_(Slots!vars)
<1> DEFINE S == SlotCallers
           st == SlotStates
           am == SlotAmounts
           h == SlotHalts
<1>0. Slots!Callers = S BY Zenon DEF Slots!Callers, SlotCallers
<1>1. ASSUME vlm_slots' = vlm_slots, st' = st, am' = am, Halting(S, h, h')
      PROVE  [Slots!Next]_(Slots!vars)
  <2>1. CASE h' = h BY Zenon, <1>1, <2>1 DEF Slots!vars
  <2>2. ASSUME NEW stopped \in SUBSET S, \E c \in stopped : ~h[c],
               h' = [c \in S |-> h[c] \/ c \in stopped]
        PROVE  Slots!Next
    BY Zenon, <1>0, <1>1, <2>2 DEF Slots!Next, Slots!Halt
  <2> QED BY Zenon, <1>1, <2>1, <2>2 DEF Halting
<1>2. ASSUME NEW c \in S, NEW m \in {1}, NEW e, h' = h,
             \/ st[c] = "idle" /\ e = Enter(vlm_slots, c)
             \/ st[c] = "waiting" /\ e = vlm_slots /\ am[c] = Clamp(vlm_slots, m),
             TurnSeen(c, e, Clamp(vlm_slots, m), h[c], vlm_slots', st, st', am, am')
      PROVE  Slots!Next
  <2>1. Slots!Acquire(c, m) \/ Slots!Wake(c)
    BY Zenon, <1>2, SlotsSame DEF TurnSeen, Slots!Acquire, Slots!Wake, Slots!Turn
  <2> QED BY Zenon, <1>0, <1>2, <2>1 DEF Slots!Next
<1>3. ASSUME NEW c \in S, NEW n, h' = h, ResetSeen(c, n, vlm_slots, vlm_slots', st, st', am, am')
      PROVE  Slots!Next
  <2>1. Slots!Reset(c) BY Zenon, <1>3, SlotsSame DEF ResetSeen, Slots!Reset
  <2> QED BY Zenon, <1>0, <1>3, <2>1 DEF Slots!Next
<1>4. CallersStep(S, {1}, vlm_slots, vlm_slots', st, st', am, am', h, h')
  BY Zenon, HaltSteps, SlotsSeen
<1> QED BY Zenon, <1>1, <1>2, <1>3, <1>4 DEF CallersStep

(* Seen from vlm_slots_, the workers of all streams are callers of a       *)
(* Budget and nothing else: each joins its line once, takes one slot, and  *)
(* gives it back once, and a stream that halts only turns their probes.    *)
THEOREM SlotsRefineBudget == Spec => SlotsAreABudget
<1>1. LeaseInv => SlotBudget BY Zenon DEF LeaseInv
<1>2. PipelineInv /\ SlotBudget /\ [Next]_vars => [Slots!Next]_(Slots!vars) BY SlotsStep
<1>3. Init => Slots!Init BY Zenon, InitPipelineInv, SlotsInit
<1> QED BY <1>1, <1>2, <1>3, PipelineHolds, LeasesHold, PTL
        DEF Spec, SlotsAreABudget, Slots!Spec

LEMMA BufferedSame ==
  /\ \A n : Buffered!NewBudget(n) = NewBudget(n)
  /\ \A b, n : Buffered!Clamp(b, n) = Clamp(b, n) /\ Buffered!Release(b, n) = Release(b, n)
  /\ \A b, c : Buffered!Enter(b, c) = Enter(b, c)
  /\ \A b, c, n, stop : /\ Buffered!TurnOf(b, c, n, stop) = TurnOf(b, c, n, stop)
                        /\ Buffered!AfterTurn(b, c, n, stop) = AfterTurn(b, c, n, stop)
<1>1. \A line, c : Buffered!Erase(line, c) = Erase(line, c) BY Zenon DEF Buffered!Erase, Erase
<1>2. \A b, c, n : Buffered!MayTake(b, c, n) <=> MayTake(b, c, n) BY Zenon DEF Buffered!MayTake, MayTake
<1>3. \A b, c, n : Buffered!Take(b, c, n) = Take(b, c, n) /\ Buffered!Leave(b, c) = Leave(b, c)
  BY Zenon, <1>1 DEF Buffered!Take, Take, Buffered!Leave, Leave
<1>4. \A b, c, n, stop : /\ Buffered!TurnOf(b, c, n, stop) = TurnOf(b, c, n, stop)
                         /\ Buffered!AfterTurn(b, c, n, stop) = AfterTurn(b, c, n, stop)
  BY Zenon, <1>2, <1>3 DEF Buffered!TurnOf, TurnOf, Buffered!AfterTurn, AfterTurn
<1> QED BY Zenon, <1>4 DEF Buffered!NewBudget, NewBudget, Buffered!Clamp, Clamp, Buffered!Release, Release,
                           Buffered!Enter, Enter

LEMMA BufferedInit ==
  ASSUME Init, PipelineInv
  PROVE  Buffered!Init
<1>1. buffered_bytes = NewBudget(BufferBytes) BY Zenon DEF Init
<1> QED BY Zenon, <1>1, CallersAtStart, BufferedSame DEF Buffered!Init, Buffered!Callers, PageCallers

(* What a step of the pipelines is to buffered_bytes_. *)
LEMMA BufferedStep ==
  ASSUME PipelineInv, PipelineInv', ByteInv, [Next]_vars
  PROVE  [Buffered!Next]_(Buffered!vars)
<1> DEFINE S == PageCallers
           st == PageStates
           am == PageAmounts
           h == PageHalts
<1>0. Buffered!Callers = S BY Zenon DEF Buffered!Callers, PageCallers
<1>1. ASSUME buffered_bytes' = buffered_bytes, st' = st, am' = am, Halting(S, h, h')
      PROVE  [Buffered!Next]_(Buffered!vars)
  <2>1. CASE h' = h BY Zenon, <1>1, <2>1 DEF Buffered!vars
  <2>2. ASSUME NEW stopped \in SUBSET S, \E c \in stopped : ~h[c],
               h' = [c \in S |-> h[c] \/ c \in stopped]
        PROVE  Buffered!Next
    BY Zenon, <1>0, <1>1, <2>2 DEF Buffered!Next, Buffered!Halt
  <2> QED BY Zenon, <1>1, <2>1, <2>2 DEF Halting
<1>2. ASSUME NEW c \in S, NEW m \in 0..MaxPageBytes, NEW e, h' = h,
             \/ st[c] = "idle" /\ e = Enter(buffered_bytes, c)
             \/ st[c] = "waiting" /\ e = buffered_bytes /\ am[c] = Clamp(buffered_bytes, m),
             TurnSeen(c, e, Clamp(buffered_bytes, m), h[c], buffered_bytes', st, st', am, am')
      PROVE  Buffered!Next
  <2>1. Buffered!Acquire(c, m) \/ Buffered!Wake(c)
    BY Zenon, <1>2, BufferedSame DEF TurnSeen, Buffered!Acquire, Buffered!Wake, Buffered!Turn
  <2> QED BY Zenon, <1>0, <1>2, <2>1 DEF Buffered!Next
<1>3. ASSUME NEW c \in S, NEW n, h' = h, ResetSeen(c, n, buffered_bytes, buffered_bytes', st, st', am, am')
      PROVE  Buffered!Next
  <2>1. Buffered!Reset(c) BY Zenon, <1>3, BufferedSame DEF ResetSeen, Buffered!Reset
  <2> QED BY Zenon, <1>0, <1>3, <2>1 DEF Buffered!Next
<1>4. CallersStep(S, 0..MaxPageBytes, buffered_bytes, buffered_bytes', st, st', am, am', h, h')
  BY Zenon, HaltSteps, PagesSeen
<1> QED BY Zenon, <1>1, <1>2, <1>3, <1>4 DEF CallersStep

(* Seen from buffered_bytes_, the pages of all streams are callers of a    *)
(* Budget and nothing else: a page waits in its line, takes its image's    *)
(* bytes once, and gives them back once, on whichever thread its job ends. *)
THEOREM BufferRefinesBudget == Spec => BufferIsABudget
<1>1. LeaseInv => ByteInv BY Zenon DEF LeaseInv
<1>2. PipelineInv /\ PipelineInv' /\ ByteInv /\ [Next]_vars => [Buffered!Next]_(Buffered!vars)
  BY BufferedStep
<1>3. Init => Buffered!Init BY Zenon, InitPipelineInv, BufferedInit
<1> QED BY <1>1, <1>2, <1>3, PipelineHolds, LeasesHold, PTL
        DEF Spec, BufferIsABudget, Buffered!Spec
=============================================================================
