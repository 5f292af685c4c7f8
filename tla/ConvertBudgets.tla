--------------------------- MODULE ConvertBudgets ---------------------------
(***************************************************************************)
(* The leases of ConvertPages: what the pages of a stream take of its own  *)
(* budget and of the shared ones, and the inductive invariant that says so. *)
(***************************************************************************)
EXTENDS ConvertInvariant, Functions

Pages == 1..MaxPages

(* The page the reader has in its hand. *)
PageInHand(s) == IF reader[s] = "enqueue" THEN started[s] ELSE started[s] + 1

(* Page p of s has been read and not yet answered: the reader has it, at a *)
(* place in R where it holds the lease in question, or it is queued, or a  *)
(* worker is busy with it up to the end of its iteration.                  *)
Leased(s, p, R) ==
    \/ reader[s] \in R /\ p = PageInHand(s)
    \/ p \in (jobs[s].taken + 1)..Len(jobs[s].log)
    \/ \E w \in Workers : Busy(s, w) /\ job[s][w].page = p

HasStreamLease == {"process_line", "process_wait", "announce", "enqueue"}
HasBothLeases == {"announce", "enqueue"}

PageBytes(s, p) ==
    IF p <= Len(jobs[s].log) THEN jobs[s].log[p].bytes ELSE image[s]

(* What page p of s takes of the stream's budget and of the shared one,    *)
(* and what all pages of s do.                                             *)
StreamLease(s, p) ==
    IF Leased(s, p, HasStreamLease) THEN Clamp(stream_bytes[s], PageBytes(s, p)) ELSE 0
ProcessLease(s, p) ==
    IF Leased(s, p, HasBothLeases) THEN Clamp(buffered_bytes, PageBytes(s, p)) ELSE 0

StreamBytes(s) == SumFunction([p \in Pages |-> StreamLease(s, p)])
ProcessBytes(s) == SumFunction([p \in Pages |-> ProcessLease(s, p)])

(* The workers between their call and their queued event. *)
HoldsSlot(place) == place \in {"call", "abort", "drop_slot"}
AtSlot == {x \in Streams \X Workers : HoldsSlot(worker[x[1]][x[2]])}

(* Nothing leaks and nothing is lent twice: each byte budget holds exactly *)
(* the pages read and not yet answered, and vlm_slots the pages between    *)
(* their call and their queued event, on every path that drops a page.     *)
LeasesMatchPages ==
    /\ \A s \in Streams : stream_bytes[s].used = StreamBytes(s)
    /\ buffered_bytes.used = SumFunction([s \in Streams |-> ProcessBytes(s)])
    /\ vlm_slots.used = Cardinality(AtSlot)

(* What admission is for: the images held for one stream, and for all of   *)
(* them, never exceed the caps, and all streams together never have more   *)
(* than max_inflight pages between their call and their queued event.      *)
CapsHold ==
    /\ \A s \in Streams : StreamBytes(s) <= stream_bytes[s].capacity
    /\ SumFunction([s \in Streams |-> ProcessBytes(s)]) <= buffered_bytes.capacity
    /\ Cardinality(AtSlot) <= vlm_slots.capacity
    /\ \A s \in Streams : Len(events[s].log) <= 2 * MaxPages

-----------------------------------------------------------------------------
(* The inductive invariant behind these: what a worker holds is what was   *)
(* queued, and who stands in each line.                                    *)
JobsAreQueued(s) ==
    /\ \A w \in Workers : Busy(s, w) => job[s][w] = jobs[s].log[job[s][w].page]
    /\ reader[s] = "done" => Empty(jobs[s])
    /\ image[s] <= MaxPageBytes

StreamBudget(s) ==
    /\ stream_bytes[s].used <= stream_bytes[s].capacity
    /\ stream_bytes[s].used = StreamBytes(s)
    /\ stream_bytes[s].line = IF reader[s] = "stream_wait" THEN <<started[s] + 1>> ELSE <<>>

ProcessBudget ==
    /\ buffered_bytes \in Budgets(1..(NStreams * MaxPages))
    /\ buffered_bytes.used <= buffered_bytes.capacity
    /\ buffered_bytes.used = SumFunction([s \in Streams |-> ProcessBytes(s)])
    /\ Injective(buffered_bytes.line)
    /\ \A s \in Streams, p \in Pages : In(buffered_bytes.line, PageId(s, p)) <=>
          reader[s] = "process_wait" /\ p = started[s] + 1

SlotBudget ==
    /\ vlm_slots \in Budgets(1..(NStreams * Concurrency))
    /\ vlm_slots.used <= vlm_slots.capacity
    /\ vlm_slots.used = Cardinality(AtSlot)
    /\ Injective(vlm_slots.line)
    /\ \A s \in Streams, w \in Workers :
          In(vlm_slots.line, WorkerId(s, w)) <=> worker[s][w] = "slot_wait"

ByteInv ==
    /\ stream_bytes \in [Streams -> Budgets(Pages)]
    /\ \A s \in Streams : JobsAreQueued(s) /\ StreamBudget(s)
    /\ ProcessBudget

LeaseInv == ByteInv /\ SlotBudget

-----------------------------------------------------------------------------
(* How vlm_slots sees the workers: each is a caller, which stands in its   *)
(* line, holds a slot, or neither.                                         *)
SlotCallers == 1..(NStreams * Concurrency)
CallerStream(c) == ((c - 1) \div Concurrency) + 1
CallerWorker(c) == c - WorkerId(CallerStream(c), 0)

SlotState(s, w) ==
    IF worker[s][w] = "slot_wait" THEN "waiting"
    ELSE IF HoldsSlot(worker[s][w]) THEN "holding" ELSE "idle"

SlotStates == [c \in SlotCallers |-> SlotState(CallerStream(c), CallerWorker(c))]
SlotAmounts == [c \in SlotCallers |-> IF SlotStates[c] = "idle" THEN 0 ELSE 1]
SlotHalts == [c \in SlotCallers |-> halt[CallerStream(c)]]

(* How buffered_bytes sees the pages: each is a caller, from its admission *)
(* to the end of its job.                                                  *)
PageCallers == 1..(NStreams * MaxPages)
CallerOwner(c) == ((c - 1) \div MaxPages) + 1
CallerPage(c) == c - PageId(CallerOwner(c), 0)

PageWaits(s, p) == reader[s] = "process_wait" /\ p = started[s] + 1
PageState(s, p) ==
    IF PageWaits(s, p) THEN "waiting"
    ELSE IF ProcessLease(s, p) > 0 THEN "holding" ELSE "idle"
PageAmount(s, p) ==
    IF PageWaits(s, p) THEN Clamp(buffered_bytes, image[s]) ELSE ProcessLease(s, p)

PageStates == [c \in PageCallers |-> PageState(CallerOwner(c), CallerPage(c))]
PageAmounts == [c \in PageCallers |-> PageAmount(CallerOwner(c), CallerPage(c))]
PageHalts == [c \in PageCallers |-> halt[CallerOwner(c)]]
=============================================================================
