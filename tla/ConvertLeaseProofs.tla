------------------------- MODULE ConvertLeaseProofs -------------------------
(***************************************************************************)
(* The leases of ConvertPages: LeaseInv is an invariant, together with     *)
(* PipelineInv, for any number of streams, workers, pages and messages and *)
(* any sizes of the budgets, and what follows from it.                     *)
(***************************************************************************)
EXTENDS ConvertBudgets, BudgetLemmas, TLAPS

USE DEF clientVars, readerVars, resultVars, stopVars, workerVars, countVars, budgetVars

-----------------------------------------------------------------------------
(* The numbers that stand for pages and workers in the lines.              *)

LEMMA TimesGrows ==
  ASSUME NEW M \in Nat, NEW a \in Int, NEW b \in Int, a <= b
  PROVE  a * M <= b * M
  OBVIOUS

LEMMA IdBounds ==
  ASSUME NEW M \in Nat \ {0}, NEW K \in Nat, NEW s \in 1..K, NEW p \in 1..M
  PROVE  (s - 1) * M + p \in 1..(K * M)
<1>1. (s - 1) * M >= 0 /\ (s - 1) * M <= (K - 1) * M BY TimesGrows
<1>2. (K - 1) * M = K * M - M OBVIOUS
<1> QED BY <1>1, <1>2

(* Division finds the first part again. *)
LEMMA IdQuotient ==
  ASSUME NEW M \in Nat \ {0}, NEW s \in Nat \ {0}, NEW p \in 1..M
  PROVE  (((s - 1) * M + p - 1) \div M) + 1 = s
<1> DEFINE x == (s - 1) * M + p - 1
           q == x \div M
<1>1. x \in Int /\ q \in Int /\ x = M * q + (x % M) /\ x % M \in 0..(M - 1)
  OBVIOUS
<1>2. (s - 1) * M <= M * q + (M - 1) /\ M * q <= (s - 1) * M + (M - 1)
  BY <1>1
<1> HIDE DEF q
<1>3. CASE q + 1 < s
  <2>1. (q + 1) * M <= (s - 1) * M BY <1>3, <1>1, TimesGrows
  <2>2. (q + 1) * M = M * q + M BY <1>1
  <2> QED BY <2>1, <2>2, <1>2, <1>1
<1>4. CASE q + 1 > s
  <2>1. s * M <= q * M BY <1>4, <1>1, TimesGrows
  <2>2. s * M = (s - 1) * M + M /\ q * M = M * q BY <1>1
  <2> QED BY <2>1, <2>2, <1>2, <1>1
<1> QED BY <1>3, <1>4, <1>1 DEF q

LEMMA IdInverse ==
  ASSUME NEW M \in Nat \ {0}, NEW K \in Nat, NEW c \in 1..(K * M)
  PROVE  LET s == ((c - 1) \div M) + 1
         IN  s \in 1..K /\ c - (s - 1) * M \in 1..M
<1> DEFINE q == (c - 1) \div M
<1>1. q \in Int /\ c - 1 = M * q + ((c - 1) % M) /\ (c - 1) % M \in 0..(M - 1)
  OBVIOUS
<1> HIDE DEF q
<1>2. c - q * M \in 1..M BY <1>1
<1>3. CASE q < 0
  <2>1. q * M <= (-1) * M BY <1>1, <1>3, TimesGrows
  <2> QED BY <2>1, <1>1, <1>2
<1>4. CASE q >= K
  <2>1. K * M <= q * M BY <1>1, <1>4, TimesGrows
  <2> QED BY <2>1, <1>1, <1>2
<1> QED BY <1>1, <1>2, <1>3, <1>4 DEF q

LEMMA PageIds ==
  /\ \A s \in Streams, p \in Pages : PageId(s, p) \in 1..(NStreams * MaxPages)
  /\ \A s, t \in Streams : \A p, q \in Pages :
        PageId(s, p) = PageId(t, q) => s = t /\ p = q
<1>1. ASSUME NEW s \in Streams, NEW p \in Pages
      PROVE  PageId(s, p) \in 1..(NStreams * MaxPages) /\ ((PageId(s, p) - 1) \div MaxPages) + 1 = s
  BY SizesAssumption, IdBounds, IdQuotient DEF PageId, Pages, Streams
<1>2. ASSUME NEW s \in Streams, NEW t \in Streams, NEW p \in Pages, NEW q \in Pages,
             PageId(s, p) = PageId(t, q)
      PROVE  s = t /\ p = q
  <2>1. s = t BY <1>1, <1>2
  <2> QED BY <1>2, <2>1, SizesAssumption DEF PageId, Pages, Streams
<1> QED BY <1>1, <1>2

LEMMA WorkerIds ==
  /\ \A s \in Streams, w \in Workers : WorkerId(s, w) \in 1..(NStreams * Concurrency)
  /\ \A s, t \in Streams : \A v, w \in Workers :
        WorkerId(s, v) = WorkerId(t, w) => s = t /\ v = w
<1>1. ASSUME NEW s \in Streams, NEW w \in Workers
      PROVE  /\ WorkerId(s, w) \in 1..(NStreams * Concurrency)
             /\ ((WorkerId(s, w) - 1) \div Concurrency) + 1 = s
  BY SizesAssumption, IdBounds, IdQuotient DEF WorkerId, Workers, Streams
<1>2. ASSUME NEW s \in Streams, NEW t \in Streams, NEW v \in Workers, NEW w \in Workers,
             WorkerId(s, v) = WorkerId(t, w)
      PROVE  s = t /\ v = w
  <2>1. s = t BY <1>1, <1>2
  <2> QED BY <1>2, <2>1, SizesAssumption DEF WorkerId, Workers, Streams
<1> QED BY <1>1, <1>2

-----------------------------------------------------------------------------
(* Totals of leases.                                                       *)

CapacitiesOK ==
    /\ \A s \in Streams : stream_bytes[s].capacity \in Nat \ {0}
    /\ buffered_bytes.capacity \in Nat \ {0}

LEMMA Finite == IsFiniteSet(Pages) /\ IsFiniteSet(Streams) /\ IsFiniteSet(Workers)
  BY SizesAssumption, FS_Interval DEF Pages, Streams, Workers

LeasesAreNat ==
    \A s \in Streams, p \in Pages :
        PageBytes(s, p) \in Nat /\ StreamLease(s, p) \in Nat /\ ProcessLease(s, p) \in Nat

LEMMA LeaseTypes == ThreadsOK /\ CapacitiesOK => LeasesAreNat
<1> SUFFICES ASSUME ThreadsOK, CapacitiesOK, NEW s \in Streams, NEW p \in Pages
             PROVE  PageBytes(s, p) \in Nat /\ StreamLease(s, p) \in Nat /\ ProcessLease(s, p) \in Nat
  BY DEF LeasesAreNat
<1>1. PageBytes(s, p) \in Nat
  <2>1. jobs[s].log \in Seq(Jobs) /\ image[s] \in Nat
    BY DEF ThreadsOK, Channels
  <2>2. p <= Len(jobs[s].log) => jobs[s].log[p] \in Jobs
    BY <2>1, SizesAssumption DEF Pages
  <2> QED BY <2>1, <2>2 DEF PageBytes, Jobs
<1>2. stream_bytes[s].capacity \in Nat /\ buffered_bytes.capacity \in Nat
  BY DEF CapacitiesOK
<1> QED BY <1>1, <1>2 DEF StreamLease, ProcessLease, Clamp

LEMMA LeaseTypesNext == ThreadsOK' /\ CapacitiesOK' => LeasesAreNat'
  BY LeaseTypes, PTL

-----------------------------------------------------------------------------
(* Which pages hold leases.                                                *)

KeepsLeases(s) ==
    \A p \in Pages :
        StreamLease(s, p)' = StreamLease(s, p) /\ ProcessLease(s, p)' = ProcessLease(s, p)

KeepsCapacities(s) ==
    /\ stream_bytes'[s].capacity = stream_bytes[s].capacity
    /\ buffered_bytes'.capacity = buffered_bytes.capacity

(* A page a worker is busy with has left the queue. *)
LEMMA PagesBehind ==
  ASSUME PipelineInv, NEW s \in Streams
  PROVE  /\ jobs[s].taken \in Nat /\ Len(jobs[s].log) \in Nat
         /\ jobs[s].taken <= Len(jobs[s].log)
         /\ Len(jobs[s].log) = IF reader[s] = "enqueue" THEN started[s] - 1 ELSE started[s]
         /\ started[s] \in Nat /\ image[s] \in Nat
         /\ \A w \in Workers : Busy(s, w) => job[s][w].page \in 1..jobs[s].taken
<1>1. TypesAt(s) /\ JobPlace(s) /\ image[s] \in Nat
  BY Zenon DEF PipelineInv, StreamInv, ThreadsOK, TypesAt
<1> QED BY <1>1, SizesAssumption DEF TypesAt, Channels, JobPlace

LEMMA QuietLeases ==
  ASSUME PipelineInv, NEW s \in Streams, KeepsCapacities(s),
         jobs'[s].log = jobs[s].log, jobs'[s].taken = jobs[s].taken,
         \A w \in Workers : (Busy(s, w)' <=> Busy(s, w)) /\ (Busy(s, w) => job'[s][w] = job[s][w]),
         reader'[s] \in HasStreamLease <=> reader[s] \in HasStreamLease,
         reader'[s] \in HasBothLeases <=> reader[s] \in HasBothLeases,
         reader[s] \in HasStreamLease => PageInHand(s)' = PageInHand(s) /\ image'[s] = image[s]
  PROVE  KeepsLeases(s)
<1> SUFFICES ASSUME NEW p \in Pages
             PROVE  StreamLease(s, p)' = StreamLease(s, p) /\ ProcessLease(s, p)' = ProcessLease(s, p)
  BY DEF KeepsLeases
<1>1. reader[s] \in HasBothLeases => reader[s] \in HasStreamLease
  BY DEF HasBothLeases, HasStreamLease
<1>2. ASSUME NEW R, R = HasStreamLease \/ R = HasBothLeases
      PROVE  Leased(s, p, R)' <=> Leased(s, p, R)
  BY Zenon, <1>1, <1>2 DEF Leased
<1>3. ASSUME NEW R, R = HasStreamLease \/ R = HasBothLeases, Leased(s, p, R)
      PROVE  PageBytes(s, p)' = PageBytes(s, p)
  <2>1. CASE reader[s] \in HasStreamLease
    BY Zenon, <2>1 DEF PageBytes
  <2>2. CASE reader[s] \notin HasStreamLease
    <3>1. p <= Len(jobs[s].log)
      BY <1>1, <1>3, <2>2, PagesBehind DEF Leased, Pages
    <3> QED BY Zenon, <3>1 DEF PageBytes
  <2> QED BY Zenon, <2>1, <2>2
<1> QED BY Zenon, <1>2, <1>3 DEF StreamLease, ProcessLease, Clamp, KeepsCapacities

-----------------------------------------------------------------------------
(* Steps that leave the byte budgets alone.                                *)

KeepsLines(t) ==
    \A place \in {"stream_wait", "process_wait"} :
        /\ reader'[t] = place <=> reader[t] = place
        /\ reader[t] = place => started'[t] = started[t] /\ image'[t] = image[t]

Settled(t) ==
    /\ KeepsLeases(t) /\ KeepsLines(t) /\ JobsAreQueued(t)'
    /\ stream_bytes'[t] = stream_bytes[t]

LEMMA StreamSettled ==
  ASSUME NEW t \in Streams, StreamBudget(t), Settled(t)
  PROVE  StreamBudget(t)'
<1>1. StreamBytes(t)' = StreamBytes(t)
  BY Zenon DEF StreamBytes, Settled, KeepsLeases
<1>2. (reader'[t] = "stream_wait" <=> reader[t] = "stream_wait")
      /\ (reader[t] = "stream_wait" => started'[t] = started[t])
  BY Zenon DEF Settled, KeepsLines
<1> QED BY Zenon, <1>1, <1>2 DEF StreamBudget, Settled

(* No page takes a byte, gives one back, joins a line or leaves one. *)
BytesStill ==
    /\ \A t \in Streams : Settled(t)
    /\ stream_bytes' = stream_bytes /\ buffered_bytes' = buffered_bytes

LEMMA BytesQuiet ==
  ASSUME ByteInv, BytesStill
  PROVE  ByteInv'
<1>0. \A t \in Streams : Settled(t) BY Zenon DEF BytesStill
<1>1. \A t \in Streams : JobsAreQueued(t)' /\ StreamBudget(t)'
  BY Zenon, <1>0, StreamSettled DEF ByteInv, Settled
<1>2. \A t \in Streams : ProcessBytes(t)' = ProcessBytes(t)
  BY Zenon, <1>0 DEF ProcessBytes, Settled, KeepsLeases
<1>3. \A t \in Streams : (reader'[t] = "process_wait" <=> reader[t] = "process_wait")
        /\ (reader[t] = "process_wait" => started'[t] = started[t])
  BY Zenon, <1>0 DEF Settled, KeepsLines
<1>4. ProcessBudget'
  BY Zenon, <1>2, <1>3 DEF ByteInv, ProcessBudget, BytesStill
<1> QED BY Zenon, <1>1, <1>4 DEF ByteInv, BytesStill

(* Everything the byte budgets depend on, at stream t. *)
Untouched(t) ==
    /\ reader'[t] = reader[t] /\ started'[t] = started[t] /\ image'[t] = image[t]
    /\ jobs'[t] = jobs[t] /\ worker'[t] = worker[t] /\ job'[t] = job[t]
    /\ stream_bytes'[t] = stream_bytes[t]

LEMMA UntouchedSettled ==
  ASSUME PipelineInv, ByteInv, NEW t \in Streams, Untouched(t),
         buffered_bytes'.capacity = buffered_bytes.capacity
  PROVE  Settled(t)
<1>1. KeepsCapacities(t) BY Zenon DEF KeepsCapacities, Untouched
<1>2. \A w \in Workers : Busy(t, w)' <=> Busy(t, w) BY Zenon DEF Busy, Untouched
<1>3. PageInHand(t)' = PageInHand(t) BY Zenon DEF PageInHand, Untouched
<1>4. KeepsLeases(t) BY Zenon, <1>1, <1>2, <1>3, QuietLeases DEF Untouched
<1>5. JobsAreQueued(t)' BY Zenon, <1>2 DEF ByteInv, JobsAreQueued, Untouched, Empty
<1> QED BY Zenon, <1>4, <1>5 DEF Settled, KeepsLines, Untouched

(* A step of stream s that no lease notices: the reader takes up or lays   *)
(* down no page, and no worker a job.                                      *)
Calm(s) ==
    /\ jobs'[s].log = jobs[s].log /\ jobs'[s].taken = jobs[s].taken
    /\ \A w \in Workers : (Busy(s, w)' <=> Busy(s, w)) /\ (Busy(s, w) => job'[s][w] = job[s][w])
    /\ \/ reader'[s] = reader[s] /\ started'[s] = started[s] /\ image'[s] = image[s]
       \/ /\ {reader[s], reader'[s]} \cap (HasStreamLease \cup {"stream_wait"}) = {}
          /\ image'[s] <= MaxPageBytes
          /\ reader'[s] = "done" => Empty(jobs'[s])
    /\ stream_bytes'[s] = stream_bytes[s]

-----------------------------------------------------------------------------
(* Steps that take or give back bytes.                                     *)

(* The reader moves with a page in its hand, everything else standing      *)
(* still: only that page's leases may change, and it has no other.         *)
HandOnly(s, p) ==
    /\ \A R : \A q \in Pages : Leased(s, q, R) <=> Leased(s, q, {}) \/ (reader[s] \in R /\ q = p)
    /\ \A R : \A q \in Pages : Leased(s, q, R)' <=> Leased(s, q, {}) \/ (reader'[s] \in R /\ q = p)
    /\ \A q \in Pages : PageBytes(s, q)' = PageBytes(s, q)
    /\ ~Leased(s, p, {}) /\ PageBytes(s, p) = image[s]

(* No page takes a byte of the shared budget, or stands in its line anew. *)
BufferStill ==
    /\ buffered_bytes' = buffered_bytes
    /\ \A t \in Streams :
          /\ \A p \in Pages : ProcessLease(t, p)' = ProcessLease(t, p)
          /\ reader'[t] = "process_wait" <=> reader[t] = "process_wait"
          /\ reader[t] = "process_wait" => started'[t] = started[t] /\ image'[t] = image[t]

(* Page p of s takes a turn for n bytes of the shared budget. *)
PageTurn(s, p, n, turn) ==
    /\ p \in Pages /\ p = started[s] + 1
    /\ \A t \in Streams, q \in Pages : t # s \/ q # p => ProcessLease(t, q)' = ProcessLease(t, q)
    /\ ProcessLease(s, p) = 0
    /\ ProcessLease(s, p)' = IF turn = "holding" THEN n ELSE 0
    /\ \A t \in Streams \ {s} : reader'[t] = reader[t]
    /\ reader'[s] = "process_wait" <=> turn = "waiting"
    /\ turn \in {"holding", "idle", "waiting"}
    /\ buffered_bytes'.capacity = buffered_bytes.capacity

(* A turn of acquire() by the page the reader of s has in hand. *)
PageTurns(s) ==
    \A me, e :
        /\ me = PageId(s, started[s] + 1)
        /\ e = IF reader[s] = "process_line" THEN Enter(buffered_bytes, me) ELSE buffered_bytes
        => PageTurn(s, started[s] + 1, Clamp(buffered_bytes, image[s]),
                    TurnOf(e, me, Clamp(e, image[s]), halt[s]))

(* Page p of n bytes loses its leases, and no other page does. *)
OnlyPageDropped(s, p, n) ==
    /\ p \in Pages /\ PageBytes(s, p) = n
    /\ \A q \in Pages : PageBytes(s, q)' = PageBytes(s, q)
    /\ \A R : \A q \in Pages \ {p} : Leased(s, q, R)' <=> Leased(s, q, R)
    /\ \A R : Leased(s, p, R)
    /\ \A R : R \subseteq HasStreamLease => ~Leased(s, p, R)'

(* Page p of s gives back its n bytes of the shared budget. *)
PageReset(s, p, n) ==
    /\ p \in Pages
    /\ \A t \in Streams, q \in Pages : t # s \/ q # p => ProcessLease(t, q)' = ProcessLease(t, q)
    /\ ProcessLease(s, p) = n /\ ProcessLease(s, p)' = 0
    /\ buffered_bytes' = Release(buffered_bytes, n)
    /\ buffered_bytes'.capacity = buffered_bytes.capacity
    /\ UNCHANGED <<reader, started, image>>

(* The end of the job of worker w. *)
PageResets(s, w) ==
    PageReset(s, job[s][w].page, Clamp(buffered_bytes, job[s][w].bytes))

(* What a step at a byte budget does to it. *)
LEMMA BytesKept ==
  PipelineInv /\ PipelineInv' /\ ByteInv =>
    /\ \A s \in Streams : AcquireStream(s) => ByteInv' /\ BufferStill
    /\ \A s \in Streams : AcquireProcess(s) => ByteInv' /\ PageTurns(s)
    /\ \A s \in Streams, w \in Workers : DropJob(s, w) => ByteInv' /\ PageResets(s, w)
(* The capacities are positive, also after a step that leaves budgets. *)
<1>capacities. ASSUME ByteInv
               PROVE  /\ CapacitiesOK
                      /\ /\ \A s \in Streams : stream_bytes'[s].capacity = stream_bytes[s].capacity
                         /\ buffered_bytes'.capacity = buffered_bytes.capacity
                         => CapacitiesOK'
  BY <1>capacities DEF ByteInv, ProcessBudget, Budgets, CapacitiesOK
(* One page's lease of a stream changes, or none does. *)
<1>bytes. ASSUME ThreadsOK, ThreadsOK', CapacitiesOK, CapacitiesOK', NEW s \in Streams, NEW p \in Pages,
                 \A q \in Pages \ {p} : StreamLease(s, q)' = StreamLease(s, q)
          PROVE  /\ StreamBytes(s) \in Nat /\ StreamBytes(s)' \in Nat
                 /\ StreamBytes(s)' = StreamBytes(s) + (StreamLease(s, p)' - StreamLease(s, p))
  <2> USE <1>bytes
  <2> DEFINE f == [q \in Pages |-> StreamLease(s, q)]
             g == [q \in Pages |-> StreamLease(s, q)']
  <2>1. f \in [Pages -> Nat] /\ g \in [Pages -> Nat]
    BY LeaseTypes, LeaseTypesNext DEF LeasesAreNat
  <2>2. f \in [Pages -> Int] /\ g \in [Pages -> Int] /\ \A q \in Pages \ {p} : g[q] = f[q]
    BY <2>1
  <2>3. SumFunction(f) \in Nat /\ SumFunction(g) \in Nat
    <3> HIDE DEF f, g
    <3> QED BY Zenon, <2>1, Finite, Totals
  <2>4. SumFunction(g) = SumFunction(f) + (g[p] - f[p])
    <3> HIDE DEF f, g
    <3> QED BY Zenon, <2>2, Finite, Totals
  <2> QED BY Zenon, <2>3, <2>4 DEF StreamBytes
<1>pages. ASSUME ThreadsOK, ThreadsOK', CapacitiesOK, CapacitiesOK', NEW s \in Streams, NEW p \in Pages,
                 \A q \in Pages \ {p} : ProcessLease(s, q)' = ProcessLease(s, q)
          PROVE  /\ ProcessBytes(s) \in Nat /\ ProcessBytes(s)' \in Nat
                 /\ ProcessBytes(s)' = ProcessBytes(s) + (ProcessLease(s, p)' - ProcessLease(s, p))
  <2> USE <1>pages
  <2> DEFINE f == [q \in Pages |-> ProcessLease(s, q)]
             g == [q \in Pages |-> ProcessLease(s, q)']
  <2>1. f \in [Pages -> Nat] /\ g \in [Pages -> Nat]
    BY LeaseTypes, LeaseTypesNext DEF LeasesAreNat
  <2>2. f \in [Pages -> Int] /\ g \in [Pages -> Int] /\ \A q \in Pages \ {p} : g[q] = f[q]
    BY <2>1
  <2>3. SumFunction(f) \in Nat /\ SumFunction(g) \in Nat
    <3> HIDE DEF f, g
    <3> QED BY Zenon, <2>1, Finite, Totals
  <2>4. SumFunction(g) = SumFunction(f) + (g[p] - f[p])
    <3> HIDE DEF f, g
    <3> QED BY Zenon, <2>2, Finite, Totals
  <2> QED BY Zenon, <2>3, <2>4 DEF ProcessBytes
<1>total. ASSUME ThreadsOK, ThreadsOK', CapacitiesOK, CapacitiesOK', NEW s \in Streams, NEW p \in Pages,
                 \A t \in Streams, q \in Pages :
                    t # s \/ q # p => ProcessLease(t, q)' = ProcessLease(t, q)
          PROVE  LET total == SumFunction([t \in Streams |-> ProcessBytes(t)])
                 IN  /\ total \in Nat /\ total' \in Nat
                     /\ total' = total + (ProcessLease(s, p)' - ProcessLease(s, p))
  <2> USE <1>total
  <2> DEFINE f == [t \in Streams |-> ProcessBytes(t)]
             g == [t \in Streams |-> ProcessBytes(t)']
  <2>1. \A q \in Pages \ {p} : ProcessLease(s, q)' = ProcessLease(s, q)
    OBVIOUS
  <2>2. /\ ProcessBytes(s) \in Nat /\ ProcessBytes(s)' \in Nat
        /\ ProcessBytes(s)' = ProcessBytes(s) + (ProcessLease(s, p)' - ProcessLease(s, p))
    BY Zenon, <2>1, <1>pages
  <2>3. ASSUME NEW t \in Streams \ {s} PROVE ProcessBytes(t)' = ProcessBytes(t) /\ ProcessBytes(t) \in Nat
    <3>1. \A q \in Pages : ProcessLease(t, q)' = ProcessLease(t, q) OBVIOUS
    <3>2. /\ ProcessBytes(t) \in Nat
          /\ ProcessBytes(t)' = ProcessBytes(t) + (ProcessLease(t, p)' - ProcessLease(t, p))
      BY Zenon, <3>1, <1>pages
    <3>3. ProcessLease(t, p) \in Nat BY Zenon, LeaseTypes DEF LeasesAreNat
    <3> QED BY <3>1, <3>2, <3>3
  <2>4. ProcessLease(s, p)' \in Nat /\ ProcessLease(s, p) \in Nat
    BY Zenon, LeaseTypes, LeaseTypesNext DEF LeasesAreNat
  <2>n. f \in [Streams -> Nat] /\ g \in [Streams -> Nat]
    BY <2>2, <2>3
  <2>t. SumFunction(f) \in Nat /\ SumFunction(g) \in Nat
    <3> HIDE DEF f, g
    <3> QED BY Zenon, <2>n, Finite, Totals
  <2>5. f \in [Streams -> Int] /\ g \in [Streams -> Int] /\ \A t \in Streams \ {s} : g[t] = f[t]
    BY <2>2, <2>3, <2>4
  <2>6. SumFunction(g) = SumFunction(f) + (g[s] - f[s])
    <3> HIDE DEF f, g
    <3> QED BY Zenon, <2>5, Finite, Totals
  <2>7. g[s] - f[s] = ProcessLease(s, p)' - ProcessLease(s, p)
    BY <2>2, <2>4
  <2> QED BY Zenon, <2>6, <2>7, <2>t
<1>inHand. ASSUME PipelineInv, NEW s \in Streams,
                  UNCHANGED <<image, started, workerVars, jobs>>,
                  reader[s] # "enqueue", reader'[s] # "enqueue", NEW p, p = started[s] + 1
           PROVE  HandOnly(s, p)
  <2> USE <1>inHand
  <2>1. PageInHand(s) = p /\ PageInHand(s)' = p BY Zenon DEF PageInHand
  <2>2. \A q, R : Leased(s, q, R) <=> Leased(s, q, {}) \/ (reader[s] \in R /\ q = p)
    BY Zenon, <2>1 DEF Leased
  <2>3. \A q, R : Leased(s, q, R)' <=> Leased(s, q, {}) \/ (reader'[s] \in R /\ q = p)
    BY Zenon, <2>1 DEF Leased, Busy
  <2>4. \A q : PageBytes(s, q)' = PageBytes(s, q) BY Zenon DEF PageBytes
  <2>5. ~Leased(s, p, {}) BY PagesBehind DEF Leased
  <2>6. PageBytes(s, p) = image[s] BY PagesBehind DEF PageBytes
  <2> QED BY Zenon, <2>2, <2>3, <2>4, <2>5, <2>6 DEF HandOnly
<1>stream. ASSUME PipelineInv, PipelineInv', ByteInv, NEW s \in Streams, AcquireStream(s)
           PROVE  ByteInv' /\ BufferStill
  <2> USE <1>stream
  <2>0. PICK p \in Pages : p = started[s] + 1
    <3>1. ReaderPlace(s) /\ started[s] \in 0..MaxPages
      BY Zenon DEF PipelineInv, StreamInv, ThreadsOK, TypesAt
    <3> QED BY <3>1, SizesAssumption DEF AcquireStream, ReaderPlace, Pages
  <2> DEFINE sb == stream_bytes[s]
             e == IF reader[s] = "stream_line" THEN Enter(sb, p) ELSE sb
             a == AfterTurn(e, p, Clamp(e, image[s]), halt[s])
             turn == TurnOf(e, p, Clamp(e, image[s]), halt[s])
             place == CASE turn = "holding" -> "process_line" [] turn = "idle" -> "leave"
                        [] OTHER -> "stream_wait"
  <2>1. /\ reader[s] \in {"stream_line", "stream_wait"}
        /\ stream_bytes' = [stream_bytes EXCEPT ![s] = a]
        /\ reader' = [reader EXCEPT ![s] = place]
        /\ UNCHANGED <<image, started, workerVars, jobs, buffered_bytes>>
    BY Zenon, <2>0 DEF AcquireStream
  <2>2. /\ sb \in Budgets(Pages) /\ sb.used <= sb.capacity /\ sb.used = StreamBytes(s)
        /\ sb.line = IF reader[s] = "stream_wait" THEN <<p>> ELSE <<>>
        /\ JobsAreQueued(s)
    BY Zenon, <2>0 DEF ByteInv, StreamBudget
  <2>3. p \in Pages /\ image[s] \in Nat /\ halt[s] \in BOOLEAN
    BY Zenon DEF PipelineInv, ThreadsOK
  <2>4. /\ Injective(sb.line) /\ sb.line \in Seq(Pages)
        /\ \A c : In(sb.line, c) <=> reader[s] = "stream_wait" /\ c = p
    BY <2>2, <2>3 DEF Injective, In, Budgets
  <2>5. \/ e = Enter(sb, p) /\ ~In(sb.line, p)
        \/ e = sb /\ In(sb.line, p)
    BY <2>1, <2>4
  <2>6. AcquireEffect(Pages, sb, p, Clamp(sb, image[s]), a, turn)
    <3> HIDE DEF e, sb
    <3> QED BY Zenon, <2>2, <2>3, <2>4, <2>5, AcquireFacts
  <2> HIDE DEF e, a, turn
  <2>7. /\ reader'[s] = place /\ stream_bytes'[s] = a
        /\ \A t \in Streams \ {s} : reader'[t] = reader[t] /\ stream_bytes'[t] = stream_bytes[t]
        /\ stream_bytes' \in [Streams -> Budgets(Pages)] /\ buffered_bytes' = buffered_bytes
    <3>1. reader \in [Streams -> ReaderStates] /\ stream_bytes \in [Streams -> Budgets(Pages)]
      BY Zenon DEF PipelineInv, ThreadsOK, ByteInv
    <3>2. a \in Budgets(Pages) BY Zenon, <2>6 DEF AcquireEffect
    <3> QED BY Zenon, <2>1, <3>1, <3>2
  <2>8. /\ place \in HasStreamLease <=> turn = "holding"
        /\ place = "stream_wait" <=> turn = "waiting"
        /\ place \notin HasBothLeases \cup {"enqueue", "process_wait", "done"}
        /\ reader[s] \notin HasStreamLease \cup HasBothLeases \cup {"enqueue", "process_wait"}
    BY <2>1, <2>6 DEF HasStreamLease, HasBothLeases, AcquireEffect
  <2> HIDE DEF place
  <2>9. /\ \A R : \A q \in Pages : Leased(s, q, R) <=> Leased(s, q, {}) \/ (reader[s] \in R /\ q = p)
        /\ \A R : \A q \in Pages : Leased(s, q, R)' <=> Leased(s, q, {}) \/ (place \in R /\ q = p)
        /\ \A q \in Pages : PageBytes(s, q)' = PageBytes(s, q)
        /\ ~Leased(s, p, {}) /\ PageBytes(s, p) = image[s]
    <3>1. reader[s] # "enqueue" /\ reader'[s] # "enqueue" BY <2>7, <2>8
    <3>2. HandOnly(s, p) BY Zenon, <2>0, <2>1, <3>1, <1>inHand
    <3> QED BY Zenon, <2>7, <3>2 DEF HandOnly
  <2>10. stream_bytes'[s].capacity = sb.capacity BY Zenon, <2>6, <2>7 DEF AcquireEffect
  <2>11. /\ \A q \in Pages \ {p} : StreamLease(s, q)' = StreamLease(s, q)
         /\ StreamLease(s, p) = 0
         /\ StreamLease(s, p)' = IF turn = "holding" THEN Clamp(sb, image[s]) ELSE 0
         /\ \A q \in Pages : ProcessLease(s, q)' = ProcessLease(s, q)
    <3>1. \A q \in Pages : Leased(s, q, HasStreamLease)'
                             <=> Leased(s, q, HasStreamLease) \/ (turn = "holding" /\ q = p)
      BY Zenon, <2>8, <2>9
    <3>2. \A q \in Pages : Leased(s, q, HasBothLeases)' <=> Leased(s, q, HasBothLeases)
      BY <2>8, <2>9
    <3>3. ~Leased(s, p, HasStreamLease) BY <2>3, <2>8, <2>9
    <3>4. \A x : Clamp(stream_bytes'[s], x) = Clamp(sb, x) BY Zenon, <2>10 DEF Clamp
    <3> QED BY Zenon, <2>3, <2>7, <2>9, <3>1, <3>2, <3>3, <3>4 DEF StreamLease, ProcessLease
  <2>12. StreamBudget(s)'
    <3>1. CapacitiesOK /\ CapacitiesOK' /\ ThreadsOK /\ ThreadsOK'
      BY <2>7, <2>10, <1>capacities DEF PipelineInv
    <3>2. /\ StreamBytes(s) \in Nat
          /\ StreamBytes(s)' = StreamBytes(s) + (StreamLease(s, p)' - StreamLease(s, p))
      BY Zenon, <2>3, <2>11, <3>1, <1>bytes
    <3>3. Clamp(sb, image[s]) \in Nat
      <4>1. Clamp(sb, image[s]) \in 1..sb.capacity BY Zenon, <2>2, <2>3, ClampFacts
      <4> QED BY <4>1
    <3>4. a.used = StreamBytes(s)'
      BY <2>2, <2>6, <2>11, <3>2, <3>3 DEF AcquireEffect
    <3>5. a.line = IF turn = "waiting" THEN <<p>> ELSE <<>>
      <4>1. a.line \in Seq(Pages) /\ Injective(a.line)
        BY <2>6 DEF AcquireEffect, Budgets
      <4>2. \A c : In(a.line, c) <=> c = p /\ turn = "waiting"
        BY Zenon, <2>4, <2>6 DEF AcquireEffect
      <4>3. /\ (\A c : ~In(a.line, c)) => a.line = <<>>
            /\ (\A c : In(a.line, c) <=> c = p) => a.line = <<p>>
        BY Zenon, <4>1, ShortLines
      <4> QED BY Zenon, <4>2, <4>3
    <3>6. started'[s] + 1 = p BY Zenon, <2>0, <2>1
    <3> QED BY Zenon, <2>6, <2>7, <2>8, <3>4, <3>5, <3>6 DEF StreamBudget, AcquireEffect
  <2>13. \A t \in Streams \ {s} : Settled(t)
    BY Zenon, <2>1, <2>7, UntouchedSettled DEF Untouched
  <2>14. \A t \in Streams \ {s} : StreamBudget(t)' /\ JobsAreQueued(t)'
    BY Zenon, <2>13, StreamSettled DEF Settled, ByteInv
  <2>15. JobsAreQueued(s)'
    <3>1. reader'[s] # "done" BY <2>7, <2>8
    <3> QED BY Zenon, <2>1, <2>2, <3>1 DEF JobsAreQueued, Busy
  <2>16. BufferStill
    <3>1. \A t \in Streams, q \in Pages : ProcessLease(t, q)' = ProcessLease(t, q)
      BY Zenon, <2>11, <2>13 DEF Settled, KeepsLeases
    <3>2. \A t \in Streams : reader'[t] = "process_wait" <=> reader[t] = "process_wait"
      BY <2>7, <2>8
    <3> QED BY Zenon, <2>1, <3>1, <3>2 DEF BufferStill
  <2>17. ProcessBudget'
    <3>1. \A t \in Streams : ProcessBytes(t)' = ProcessBytes(t)
      BY Zenon, <2>16 DEF ProcessBytes, BufferStill
    <3> QED BY Zenon, <2>1, <2>16, <3>1 DEF ByteInv, ProcessBudget, BufferStill
  <2> QED BY Zenon, <2>7, <2>12, <2>14, <2>15, <2>16, <2>17 DEF ByteInv
<1>process. ASSUME PipelineInv, PipelineInv', ByteInv, NEW s \in Streams, AcquireProcess(s),
                   NEW me, me = PageId(s, started[s] + 1),
                   NEW e, e = IF reader[s] = "process_line" THEN Enter(buffered_bytes, me)
                              ELSE buffered_bytes
            PROVE  /\ ByteInv'
                   /\ PageTurn(s, started[s] + 1, Clamp(buffered_bytes, image[s]),
                               TurnOf(e, me, Clamp(e, image[s]), halt[s]))
  <2> USE <1>process
  <2>0. PICK p \in Pages : p = started[s] + 1
    <3>1. ReaderPlace(s) /\ started[s] \in 0..MaxPages
      BY Zenon DEF PipelineInv, StreamInv, ThreadsOK, TypesAt
    <3> QED BY <3>1, SizesAssumption DEF AcquireProcess, ReaderPlace, Pages
  <2>id. me \in 1..(NStreams * MaxPages) /\ me = PageId(s, p)
    BY Zenon, <2>0, PageIds
  <2> DEFINE S == 1..(NStreams * MaxPages)
             bb == buffered_bytes
             sb == stream_bytes[s]
             m == Clamp(sb, image[s])
             a == AfterTurn(e, me, Clamp(e, image[s]), halt[s])
             turn == TurnOf(e, me, Clamp(e, image[s]), halt[s])
             place == CASE turn = "holding" -> "announce" [] turn = "idle" -> "leave"
                        [] OTHER -> "process_wait"
  <2>1. /\ reader[s] \in {"process_line", "process_wait"}
        /\ buffered_bytes' = a
        /\ stream_bytes' = IF turn = "idle" THEN [stream_bytes EXCEPT ![s] = Release(sb, m)]
                           ELSE stream_bytes
        /\ reader' = [reader EXCEPT ![s] = place]
        /\ UNCHANGED <<image, started, workerVars, jobs>>
    BY Zenon, <2>0, <2>id DEF AcquireProcess
  <2>2. /\ bb \in Budgets(S) /\ bb.used <= bb.capacity /\ Injective(bb.line)
        /\ bb.used = SumFunction([t \in Streams |-> ProcessBytes(t)])
        /\ In(bb.line, me) <=> reader[s] = "process_wait"
        /\ sb \in Budgets(Pages) /\ sb.used <= sb.capacity /\ sb.used = StreamBytes(s)
        /\ sb.line = IF reader[s] = "stream_wait" THEN <<p>> ELSE <<>>
        /\ JobsAreQueued(s)
    BY Zenon, <2>0, <2>id DEF ByteInv, ProcessBudget, StreamBudget
  <2>3. image[s] \in Nat /\ halt[s] \in BOOLEAN BY Zenon DEF PipelineInv, ThreadsOK
  <2>4. \/ e = Enter(bb, me) /\ ~In(bb.line, me)
        \/ e = bb /\ In(bb.line, me)
    BY <2>1, <2>2
  <2>5. AcquireEffect(S, bb, me, Clamp(bb, image[s]), a, turn)
    <3> HIDE DEF bb, S
    <3>1. me \in S BY <2>id DEF S
    <3> QED BY Zenon, <2>2, <2>3, <2>4, <3>1, AcquireFacts
  <2>6. m \in Nat /\ Clamp(bb, image[s]) \in Nat
    <3>1. m \in 1..sb.capacity /\ Clamp(bb, image[s]) \in 1..bb.capacity
      BY Zenon, <2>2, <2>3, ClampFacts
    <3> QED BY <3>1
  <2> HIDE DEF a, turn, m
  <2>7. /\ reader'[s] = place
        /\ stream_bytes'[s] = IF turn = "idle" THEN Release(sb, m) ELSE sb
        /\ \A t \in Streams \ {s} : reader'[t] = reader[t] /\ stream_bytes'[t] = stream_bytes[t]
    <3>1. reader \in [Streams -> ReaderStates] /\ stream_bytes \in [Streams -> Budgets(Pages)]
      BY Zenon DEF PipelineInv, ThreadsOK, ByteInv
    <3> QED BY Zenon, <2>1, <3>1
  <2>8. /\ place \in HasStreamLease <=> turn # "idle"
        /\ place \in HasBothLeases <=> turn = "holding"
        /\ place = "process_wait" <=> turn = "waiting"
        /\ place \notin {"enqueue", "stream_wait", "done"}
        /\ reader[s] \in HasStreamLease
        /\ reader[s] \notin HasBothLeases \cup {"enqueue", "stream_wait"}
    BY <2>1, <2>5 DEF HasStreamLease, HasBothLeases, AcquireEffect
  <2> HIDE DEF place
  <2>9. /\ \A R : \A q \in Pages : Leased(s, q, R) <=> Leased(s, q, {}) \/ (reader[s] \in R /\ q = p)
        /\ \A R : \A q \in Pages : Leased(s, q, R)' <=> Leased(s, q, {}) \/ (reader'[s] \in R /\ q = p)
        /\ \A q \in Pages : PageBytes(s, q)' = PageBytes(s, q)
        /\ ~Leased(s, p, {}) /\ PageBytes(s, p) = image[s]
    <3>1. reader[s] # "enqueue" /\ reader'[s] # "enqueue" BY <2>7, <2>8
    <3>2. HandOnly(s, p) BY Zenon, <2>0, <2>1, <3>1, <1>inHand
    <3> QED BY Zenon, <3>2 DEF HandOnly
  <2>10. /\ \A t \in Streams : stream_bytes'[t].capacity = stream_bytes[t].capacity
         /\ a.capacity = bb.capacity
    <3>1. Release(sb, m).capacity = sb.capacity BY Zenon, <2>2, <2>6, ReleaseFacts
    <3> QED BY Zenon, <2>5, <2>7, <3>1 DEF AcquireEffect
  <2>11. /\ \A q \in Pages \ {p} : StreamLease(s, q)' = StreamLease(s, q)
         /\ \A q \in Pages \ {p} : ProcessLease(s, q)' = ProcessLease(s, q)
         /\ StreamLease(s, p) = m /\ StreamLease(s, p)' = IF turn = "idle" THEN 0 ELSE m
         /\ ProcessLease(s, p) = 0
         /\ ProcessLease(s, p)' = IF turn = "holding" THEN Clamp(bb, image[s]) ELSE 0
    <3>1. /\ \A x : Clamp(stream_bytes'[s], x) = Clamp(sb, x)
          /\ \A x : Clamp(buffered_bytes', x) = Clamp(bb, x)
      BY Zenon, <2>1, <2>10 DEF Clamp
    <3>2. \A R : \A q \in Pages \ {p} : Leased(s, q, R)' <=> Leased(s, q, R) BY Zenon, <2>9
    <3>3. /\ Leased(s, p, HasStreamLease) /\ ~Leased(s, p, HasBothLeases)
          /\ Leased(s, p, HasStreamLease)' <=> turn # "idle"
          /\ Leased(s, p, HasBothLeases)' <=> turn = "holding"
      BY <2>7, <2>8, <2>9
    <3> QED BY Zenon, <2>9, <3>1, <3>2, <3>3 DEF StreamLease, ProcessLease, m
  <2>ok. CapacitiesOK /\ CapacitiesOK' /\ ThreadsOK /\ ThreadsOK'
    BY Zenon, <2>1, <2>10, <1>capacities DEF PipelineInv
  <2>12. StreamBudget(s)' /\ stream_bytes'[s] \in Budgets(Pages)
    <3>1. /\ StreamBytes(s) \in Nat /\ StreamBytes(s)' \in Nat
          /\ StreamBytes(s)' = StreamBytes(s) + (StreamLease(s, p)' - StreamLease(s, p))
      BY Zenon, <2>11, <2>ok, <1>bytes
    <3>2. CASE turn = "idle"
      <4>1. StreamBytes(s)' = sb.used - m /\ m <= sb.used
        BY <2>2, <2>6, <2>11, <3>1, <3>2
      <4>2. /\ Release(sb, m) \in Budgets(Pages) /\ Release(sb, m).used = sb.used - m
            /\ Release(sb, m).capacity = sb.capacity /\ Release(sb, m).line = sb.line
        BY Zenon, <2>2, <2>6, <4>1, ReleaseFacts
      <4>3. sb.used - m <= sb.capacity
        BY <2>2, <2>6, <3>1 DEF Budgets
      <4>4. sb.line = <<>> /\ reader'[s] # "stream_wait" BY <2>2, <2>7, <2>8
      <4> QED BY Zenon, <2>7, <3>2, <4>1, <4>2, <4>3, <4>4 DEF StreamBudget
    <3>3. CASE turn # "idle"
      <4>1. StreamBytes(s)' = sb.used
        BY <2>2, <2>6, <2>11, <3>1, <3>3
      <4>2. sb.line = <<>> /\ reader'[s] # "stream_wait" BY <2>2, <2>7, <2>8
      <4> QED BY Zenon, <2>2, <2>7, <3>3, <4>1, <4>2 DEF StreamBudget
    <3> QED BY Zenon, <3>2, <3>3
  <2>13. \A t \in Streams \ {s} : Settled(t)
    BY Zenon, <2>1, <2>7, <2>10, UntouchedSettled DEF Untouched
  <2>14. \A t \in Streams \ {s} : StreamBudget(t)' /\ JobsAreQueued(t)'
    BY Zenon, <2>13, StreamSettled DEF Settled, ByteInv
  <2>15. JobsAreQueued(s)'
    <3>1. reader'[s] # "done" BY <2>7, <2>8
    <3> QED BY Zenon, <2>1, <2>2, <3>1 DEF JobsAreQueued, Busy
  <2>16. stream_bytes' \in [Streams -> Budgets(Pages)]
    <3>1. stream_bytes \in [Streams -> Budgets(Pages)] BY Zenon DEF ByteInv
    <3> QED BY Zenon, <2>1, <2>7, <2>12, <3>1
  <2>17. ProcessBudget'
    <3> DEFINE total == SumFunction([t \in Streams |-> ProcessBytes(t)])
    <3>1. \A t \in Streams, q \in Pages : t # s \/ q # p => ProcessLease(t, q)' = ProcessLease(t, q)
      BY Zenon, <2>11, <2>13 DEF Settled, KeepsLeases
    <3>2. /\ total \in Nat /\ total' \in Nat
          /\ total' = total + (ProcessLease(s, p)' - ProcessLease(s, p))
      BY Zenon, <3>1, <2>ok, <1>total
    <3> HIDE DEF total
    <3>3. a.used = total'
      <4>1. bb.used = total BY Zenon, <2>2 DEF total
      <4> QED BY <2>5, <2>6, <2>11, <3>2, <4>1 DEF AcquireEffect
    <3>4. ASSUME NEW t \in Streams, NEW q \in Pages
          PROVE  In(a.line, PageId(t, q)) <=> reader'[t] = "process_wait" /\ q = started'[t] + 1
      <4>1. PageId(t, q) = me <=> t = s /\ q = p
        <5>1. PageId(t, q) = PageId(s, p) => t = s /\ q = p BY Zenon, PageIds
        <5> QED BY Zenon, <2>id, <5>1
      <4>2. In(bb.line, PageId(t, q)) <=> reader[t] = "process_wait" /\ q = started[t] + 1
        BY Zenon DEF ByteInv, ProcessBudget
      <4>3. In(a.line, PageId(t, q)) <=> IF PageId(t, q) = me THEN turn = "waiting"
                                         ELSE In(bb.line, PageId(t, q))
        BY Zenon, <2>5 DEF AcquireEffect
      <4>4. CASE t = s BY Zenon, <4>1, <4>2, <4>3, <4>4, <2>0, <2>1, <2>7, <2>8
      <4>5. CASE t # s BY Zenon, <4>1, <4>2, <4>3, <4>5, <2>1, <2>7
      <4> QED BY Zenon, <4>4, <4>5
    <3> QED BY Zenon, <2>1, <2>5, <3>3, <3>4 DEF ProcessBudget, AcquireEffect, total
  <2>18. PageTurn(s, p, Clamp(bb, image[s]), turn)
    <3>1. \A t \in Streams, q \in Pages : t # s \/ q # p => ProcessLease(t, q)' = ProcessLease(t, q)
      BY Zenon, <2>11, <2>13 DEF Settled, KeepsLeases
    <3>2. turn \in {"holding", "idle", "waiting"} BY Zenon, <2>5 DEF AcquireEffect
    <3>3. buffered_bytes'.capacity = bb.capacity BY Zenon, <2>1, <2>5 DEF AcquireEffect
    <3> QED BY Zenon, <2>0, <2>7, <2>8, <2>11, <3>1, <3>2, <3>3 DEF PageTurn
  <2>19. ByteInv' BY Zenon, <2>12, <2>14, <2>15, <2>16, <2>17 DEF ByteInv
  <2> QED BY Zenon, <2>0, <2>18, <2>19 DEF turn
<1>dropped. ASSUME PipelineInv, ByteInv, NEW s \in Streams, NEW w \in Workers, DropJob(s, w),
                   NEW p, p = job[s][w].page
            PROVE  OnlyPageDropped(s, p, job[s][w].bytes)
  <2> USE <1>dropped
  <2>0. worker[s] \in [Workers -> WorkerStates] /\ job[s] \in [Workers -> Jobs]
    BY Zenon DEF PipelineInv, ThreadsOK
  <2>1. /\ worker[s][w] = "drop_job" /\ UNCHANGED <<reader, started, image, jobs>>
        /\ worker'[s] = [worker[s] EXCEPT ![w] = "pop"]
        /\ job'[s] = [job[s] EXCEPT ![w] = NoJob]
    BY Zenon DEF DropJob, PipelineInv, ThreadsOK
  <2>2. Busy(s, w) /\ ~Busy(s, w)' BY <2>0, <2>1 DEF Busy
  <2>3. \A v \in Workers \ {w} : (Busy(s, v)' <=> Busy(s, v)) /\ job'[s][v] = job[s][v]
    BY Zenon, <2>0, <2>1 DEF Busy
  <2>4. p \in 1..jobs[s].taken /\ p <= Len(jobs[s].log) /\ p \in Pages
    <3>1. p \in 1..jobs[s].taken BY Zenon, <2>2, PagesBehind
    <3>2. started[s] \in 0..MaxPages BY Zenon DEF PipelineInv, ThreadsOK
    <3> QED BY <3>1, <3>2, PagesBehind, SizesAssumption DEF Pages
  <2>5. PageBytes(s, p) = job[s][w].bytes
    BY Zenon, <2>2, <2>4 DEF PageBytes, ByteInv, JobsAreQueued
  <2>6. \A q \in Pages : PageBytes(s, q)' = PageBytes(s, q) BY Zenon, <2>1 DEF PageBytes
  <2>7. \A R : \A q \in Pages \ {p} : Leased(s, q, R)' <=> Leased(s, q, R)
    BY Zenon, <2>1, <2>2, <2>3 DEF Leased, PageInHand
  <2>8. \A R : Leased(s, p, R) BY Zenon, <2>2 DEF Leased
  <2>9. ASSUME NEW R, R \subseteq HasStreamLease PROVE ~Leased(s, p, R)'
    <3>1. \A v \in Workers \ {w} : Busy(s, v) => job[s][v].page # p
      BY Zenon, <2>2 DEF PipelineInv, StreamInv, JobPlace
    <3>2. p \notin (jobs[s].taken + 1)..Len(jobs[s].log) BY <2>4, PagesBehind
    <3>3. p # PageInHand(s) BY <2>4, PagesBehind DEF PageInHand
    <3>4. PageInHand(s)' = PageInHand(s) BY Zenon, <2>1 DEF PageInHand
    <3> QED BY Zenon, <2>1, <2>2, <2>3, <3>1, <3>2, <3>3, <3>4 DEF Leased
  <2> QED BY Zenon, <2>4, <2>5, <2>6, <2>7, <2>8, <2>9 DEF OnlyPageDropped
<1>drop. ASSUME PipelineInv, PipelineInv', ByteInv, NEW s \in Streams, NEW w \in Workers, DropJob(s, w),
                NEW p, p = job[s][w].page
         PROVE  ByteInv' /\ PageReset(s, p, Clamp(buffered_bytes, job[s][w].bytes))
  <2> USE <1>drop
  <2> DEFINE n == job[s][w].bytes
             S == 1..(NStreams * MaxPages)
             bb == buffered_bytes
             sb == stream_bytes[s]
             m == Clamp(sb, n)
             k == Clamp(bb, n)
  <2>1. /\ worker[s][w] = "drop_job" /\ UNCHANGED <<reader, started, image, jobs>>
        /\ worker'[s] = [worker[s] EXCEPT ![w] = "pop"]
        /\ job'[s] = [job[s] EXCEPT ![w] = NoJob]
    <3>1. worker \in [Streams -> [Workers -> WorkerStates]] /\ job \in [Streams -> [Workers -> Jobs]]
      BY Zenon DEF PipelineInv, ThreadsOK
    <3> QED BY Zenon, <3>1 DEF DropJob
  <2>t. \A t \in Streams \ {s} : worker'[t] = worker[t] /\ job'[t] = job[t]
    <3>1. worker \in [Streams -> [Workers -> WorkerStates]] /\ job \in [Streams -> [Workers -> Jobs]]
      BY Zenon DEF PipelineInv, ThreadsOK
    <3>2. worker' = [worker EXCEPT ![s][w] = "pop"] /\ job' = [job EXCEPT ![s][w] = NoJob]
      BY Zenon DEF DropJob
    <3> QED BY Zenon, <3>1, <3>2
  <2>b. /\ buffered_bytes' = Release(bb, k)
        /\ stream_bytes' = [stream_bytes EXCEPT ![s] = Release(sb, m)]
    BY Zenon DEF DropJob
  <2>2. /\ bb \in Budgets(S) /\ bb.used <= bb.capacity
        /\ bb.used = SumFunction([t \in Streams |-> ProcessBytes(t)])
        /\ sb \in Budgets(Pages) /\ sb.used <= sb.capacity /\ sb.used = StreamBytes(s)
        /\ sb.line = IF reader[s] = "stream_wait" THEN <<started[s] + 1>> ELSE <<>>
        /\ JobsAreQueued(s)
    BY Zenon DEF ByteInv, ProcessBudget, StreamBudget
  <2>3. worker[s] \in [Workers -> WorkerStates] /\ job[s] \in [Workers -> Jobs]
    BY Zenon DEF PipelineInv, ThreadsOK
  <2>4. n \in Nat /\ m \in Nat /\ k \in Nat
    <3>1. n \in Nat BY <2>3 DEF Jobs
    <3> HIDE DEF n
    <3>2. m \in 1..sb.capacity /\ k \in 1..bb.capacity BY Zenon, <2>2, <3>1, ClampFacts
    <3> QED BY <3>1, <3>2
  <2>5. OnlyPageDropped(s, p, n) BY Zenon, <1>dropped
  <2>6. /\ stream_bytes'[s] = Release(sb, m)
        /\ \A t \in Streams \ {s} : stream_bytes'[t] = stream_bytes[t]
    BY Zenon, <2>b DEF ByteInv
  <2> HIDE DEF n, m, k
  <2>7. /\ Release(sb, m).capacity = sb.capacity /\ Release(sb, m).used = sb.used - m
        /\ Release(sb, m).line = sb.line /\ (m <= sb.used => Release(sb, m) \in Budgets(Pages))
    BY Zenon, <2>2, <2>4, ReleaseFacts
  <2>8. /\ Release(bb, k).capacity = bb.capacity /\ Release(bb, k).used = bb.used - k
        /\ Release(bb, k).line = bb.line /\ (k <= bb.used => Release(bb, k) \in Budgets(S))
    BY Zenon, <2>2, <2>4, ReleaseFacts
  <2>9. /\ \A q \in Pages \ {p} : StreamLease(s, q)' = StreamLease(s, q)
        /\ \A q \in Pages \ {p} : ProcessLease(s, q)' = ProcessLease(s, q)
        /\ StreamLease(s, p) = m /\ StreamLease(s, p)' = 0
        /\ ProcessLease(s, p) = k /\ ProcessLease(s, p)' = 0
    <3>1. /\ \A x : Clamp(stream_bytes'[s], x) = Clamp(sb, x)
          /\ \A x : Clamp(buffered_bytes', x) = Clamp(bb, x)
      BY Zenon, <2>b, <2>6, <2>7, <2>8 DEF Clamp
    <3>2. HasBothLeases \subseteq HasStreamLease BY DEF HasBothLeases, HasStreamLease
    <3> QED BY Zenon, <2>5, <3>1, <3>2 DEF StreamLease, ProcessLease, m, k, OnlyPageDropped
  <2>ok. CapacitiesOK /\ CapacitiesOK' /\ ThreadsOK /\ ThreadsOK'
    BY Zenon, <2>b, <2>6, <2>7, <2>8, <1>capacities DEF PipelineInv
  <2>10. StreamBudget(s)' /\ stream_bytes'[s] \in Budgets(Pages)
    <3>1. /\ StreamBytes(s) \in Nat /\ StreamBytes(s)' \in Nat
          /\ StreamBytes(s)' = StreamBytes(s) + (StreamLease(s, p)' - StreamLease(s, p))
      BY Zenon, <2>5, <2>9, <2>ok, <1>bytes DEF OnlyPageDropped
    <3>2. StreamBytes(s)' = sb.used - m /\ m <= sb.used
      BY <2>2, <2>4, <2>9, <3>1
    <3>3. sb.used - m <= sb.capacity
      BY <2>2, <2>4, <3>1 DEF Budgets
    <3>4. reader'[s] = reader[s] /\ started'[s] = started[s] BY Zenon, <2>1
    <3>5. stream_bytes'[s].used <= stream_bytes'[s].capacity BY Zenon, <2>6, <2>7, <3>3
    <3>6. stream_bytes'[s].used = StreamBytes(s)' BY Zenon, <2>6, <2>7, <3>2
    <3>7. stream_bytes'[s].line =
            IF reader'[s] = "stream_wait" THEN <<started'[s] + 1>> ELSE <<>>
      BY Zenon, <2>2, <2>6, <2>7, <3>4
    <3> QED BY Zenon, <2>6, <2>7, <3>2, <3>5, <3>6, <3>7 DEF StreamBudget
  <2>11. \A t \in Streams \ {s} : Settled(t)
    BY Zenon, <2>1, <2>t, <2>b, <2>6, <2>8, UntouchedSettled DEF Untouched
  <2>12. \A t \in Streams \ {s} : StreamBudget(t)' /\ JobsAreQueued(t)'
    BY Zenon, <2>11, StreamSettled DEF Settled, ByteInv
  <2>13. JobsAreQueued(s)'
    <3>1. \A v \in Workers : Busy(s, v)' => Busy(s, v) /\ job'[s][v] = job[s][v]
      <4>1. ~Busy(s, w)' BY <2>1, <2>3 DEF Busy
      <4> QED BY Zenon, <2>1, <2>3, <4>1 DEF Busy
    <3> QED BY Zenon, <2>1, <2>2, <3>1 DEF JobsAreQueued
  <2>14. stream_bytes' \in [Streams -> Budgets(Pages)]
    <3>1. stream_bytes \in [Streams -> Budgets(Pages)] BY Zenon DEF ByteInv
    <3> QED BY Zenon, <2>b, <2>6, <2>10, <3>1
  <2>15. ProcessBudget'
    <3> DEFINE total == SumFunction([t \in Streams |-> ProcessBytes(t)])
    <3>1. \A t \in Streams, q \in Pages : t # s \/ q # p => ProcessLease(t, q)' = ProcessLease(t, q)
      BY Zenon, <2>9, <2>11 DEF Settled, KeepsLeases
    <3>2. /\ total \in Nat /\ total' \in Nat
          /\ total' = total + (ProcessLease(s, p)' - ProcessLease(s, p))
      BY Zenon, <3>1, <2>5, <2>ok, <1>total DEF OnlyPageDropped
    <3>3. bb.used = total BY Zenon, <2>2
    <3> HIDE DEF total
    <3>4. total' = bb.used - k /\ k <= bb.used BY <2>4, <2>9, <3>2, <3>3
    <3>5. bb.used - k <= bb.capacity BY <2>2, <2>4, <3>2, <3>3 DEF Budgets
    <3>6. /\ buffered_bytes' \in Budgets(S) /\ buffered_bytes'.line = bb.line
          /\ buffered_bytes'.used <= buffered_bytes'.capacity /\ buffered_bytes'.used = total'
      BY Zenon, <2>b, <2>8, <3>4, <3>5
    <3>7. /\ Injective(bb.line)
          /\ \A t \in Streams, q \in Pages : In(bb.line, PageId(t, q)) <=>
                reader'[t] = "process_wait" /\ q = started'[t] + 1
      BY Zenon, <2>1 DEF ByteInv, ProcessBudget
    <3> QED BY Zenon, <3>6, <3>7 DEF ProcessBudget, total
  <2>16. PageReset(s, p, k)
    <3>1. \A t \in Streams, q \in Pages : t # s \/ q # p => ProcessLease(t, q)' = ProcessLease(t, q)
      BY Zenon, <2>9, <2>11 DEF Settled, KeepsLeases
    <3>2. buffered_bytes'.capacity = bb.capacity BY Zenon, <2>b, <2>8
    <3> QED BY Zenon, <2>1, <2>b, <2>5, <2>9, <3>1, <3>2 DEF PageReset, OnlyPageDropped
  <2>17. ByteInv' BY Zenon, <2>10, <2>12, <2>13, <2>14, <2>15 DEF ByteInv
  <2> QED BY Zenon, <2>16, <2>17 DEF k, n
<1> QED BY Zenon, <1>stream, <1>process, <1>drop DEF PageTurns, PageResets

-----------------------------------------------------------------------------
(* The slots.                                                              *)

LEMMA SlotHolders ==
  /\ AtSlot = {x \in Streams \X Workers : HoldsSlot(worker[x[1]][x[2]])}
  /\ AtSlot' = {x \in Streams \X Workers : HoldsSlot(worker'[x[1]][x[2]])}
  /\ IsFiniteSet(AtSlot) /\ IsFiniteSet(AtSlot') /\ Cardinality(AtSlot) \in Nat
<1>1. /\ AtSlot = {x \in Streams \X Workers : HoldsSlot(worker[x[1]][x[2]])}
      /\ AtSlot' = {x \in Streams \X Workers : HoldsSlot(worker'[x[1]][x[2]])}
  BY Zenon DEF AtSlot, HoldsSlot
<1>2. IsFiniteSet(Streams \X Workers) BY Zenon, Finite, FS_Product
<1>3. AtSlot \subseteq Streams \X Workers /\ AtSlot' \subseteq Streams \X Workers
  BY Zenon, <1>1
<1> QED BY Zenon, <1>1, <1>2, <1>3, FS_Subset, FS_CardinalityType

(* No worker takes a slot, gives one back, joins the line or leaves it. *)
SlotsStill ==
    /\ vlm_slots' = vlm_slots
    /\ \A s \in Streams, w \in Workers :
          /\ HoldsSlot(worker'[s][w]) <=> HoldsSlot(worker[s][w])
          /\ worker'[s][w] = "slot_wait" <=> worker[s][w] = "slot_wait"

(* One worker moves. *)
OnlyMoves(s, w, place) ==
  /\ worker'[s][w] = place
  /\ \A t \in Streams, v \in Workers : t # s \/ v # w => worker'[t][v] = worker[t][v]

LEMMA OneWorkerMoves ==
  ASSUME PipelineInv, NEW s \in Streams, NEW w \in Workers, NEW place,
         worker' = [worker EXCEPT ![s][w] = place]
  PROVE  OnlyMoves(s, w, place)
<1>1. worker \in [Streams -> [Workers -> WorkerStates]] BY Zenon DEF PipelineInv, ThreadsOK
<1>2. worker'[s] = [worker[s] EXCEPT ![w] = place] /\ worker[s] \in [Workers -> WorkerStates]
      /\ \A t \in Streams \ {s} : worker'[t] = worker[t]
  BY Zenon, <1>1
<1> QED BY Zenon, <1>2 DEF OnlyMoves

SlotChanges(s, w, place) ==
  /\ HoldsSlot(place) => AtSlot' = AtSlot \cup {<<s, w>>}
  /\ ~HoldsSlot(place) => AtSlot' = AtSlot \ {<<s, w>>}
  /\ <<s, w>> \in AtSlot <=> HoldsSlot(worker[s][w])

(* What a step may do to vlm_slots_. *)
LEMMA SlotSteps ==
  ASSUME PipelineInv, [Next]_vars
  PROVE  SlotsStill \/ \E s \in Streams, w \in Workers : AcquireSlot(s, w) \/ DropSlot(s, w)
<1>moves. ASSUME NEW s \in Streams, NEW w \in Workers, NEW place,
                 worker' = [worker EXCEPT ![s][w] = place], vlm_slots' = vlm_slots,
                 HoldsSlot(place) <=> HoldsSlot(worker[s][w]),
                 place # "slot_wait", worker[s][w] # "slot_wait"
          PROVE  SlotsStill
  <2> USE <1>moves
  <2>0. OnlyMoves(s, w, place) BY Zenon, OneWorkerMoves
  <2>1. \A t \in Streams, v \in Workers :
           /\ HoldsSlot(worker'[t][v]) <=> HoldsSlot(worker[t][v])
           /\ worker'[t][v] = "slot_wait" <=> worker[t][v] = "slot_wait"
    <3> SUFFICES ASSUME NEW t \in Streams, NEW v \in Workers
                 PROVE  /\ HoldsSlot(worker'[t][v]) <=> HoldsSlot(worker[t][v])
                        /\ worker'[t][v] = "slot_wait" <=> worker[t][v] = "slot_wait"
      OBVIOUS
    <3>1. CASE t = s /\ v = w BY Zenon, <3>1, <2>0 DEF OnlyMoves
    <3>2. CASE t # s \/ v # w BY Zenon, <3>2, <2>0 DEF OnlyMoves
    <3> QED BY Zenon, <3>1, <3>2
  <2> QED BY Zenon, <2>1 DEF SlotsStill
<1>quiet. ASSUME NEW s \in Streams, NEW w \in Workers,
                 \/ PopJob(s, w) \/ ExitWorker(s, w) \/ SkipOrGoOn(s, w) \/ CutCall(s, w)
                 \/ Abort(s, w) \/ DropJob(s, w) \/ EndpointStep(s, w)
          PROVE  SlotsStill
  <2> USE <1>quiet
  <2>0. vlm_slots' = vlm_slots
    BY Zenon DEF PopJob, ExitWorker, SkipOrGoOn, CutCall, Abort, DropJob, EndpointStep, Answer
  <2>1. /\ ~HoldsSlot("pop") /\ ~HoldsSlot("exited") /\ ~HoldsSlot("check") /\ ~HoldsSlot("drop_job")
        /\ ~HoldsSlot("slot_line")
        /\ HoldsSlot("call") /\ HoldsSlot("abort") /\ HoldsSlot("drop_slot")
        /\ "slot_wait" \notin {"pop", "exited", "check", "drop_job", "slot_line", "call", "abort", "drop_slot"}
    BY DEF HoldsSlot
  <2>2. CASE PopJob(s, w)
    <3>1. worker' = [worker EXCEPT ![s][w] = "check"] /\ worker[s][w] = "pop" BY Zenon, <2>2 DEF PopJob
    <3> QED BY Zenon, <2>0, <2>1, <3>1, <1>moves
  <2>3. CASE ExitWorker(s, w)
    <3>1. worker' = [worker EXCEPT ![s][w] = "exited"] /\ worker[s][w] = "pop" BY Zenon, <2>3 DEF ExitWorker
    <3> QED BY Zenon, <2>0, <2>1, <3>1, <1>moves
  <2>4. CASE SkipOrGoOn(s, w)
    <3> DEFINE place == IF halt[s] THEN "drop_job" ELSE "slot_line"
    <3>1. worker' = [worker EXCEPT ![s][w] = place] /\ worker[s][w] = "check" BY Zenon, <2>4 DEF SkipOrGoOn
    <3>2. ~HoldsSlot(place) /\ place # "slot_wait" BY Zenon, <2>1
    <3> HIDE DEF place
    <3> QED BY Zenon, <2>0, <2>1, <3>1, <3>2, <1>moves
  <2>5. CASE CutCall(s, w)
    <3>1. worker' = [worker EXCEPT ![s][w] = "drop_slot"] /\ worker[s][w] = "call" BY Zenon, <2>5 DEF CutCall
    <3> QED BY Zenon, <2>0, <2>1, <3>1, <1>moves
  <2>6. CASE Abort(s, w)
    <3>1. worker' = [worker EXCEPT ![s][w] = "drop_slot"] /\ worker[s][w] = "abort" BY Zenon, <2>6 DEF Abort
    <3> QED BY Zenon, <2>0, <2>1, <3>1, <1>moves
  <2>7. CASE DropJob(s, w)
    <3>1. worker' = [worker EXCEPT ![s][w] = "pop"] /\ worker[s][w] = "drop_job" BY Zenon, <2>7 DEF DropJob
    <3> QED BY Zenon, <2>0, <2>1, <3>1, <1>moves
  <2>8. CASE EndpointStep(s, w)
    <3>0. PICK kind : Answer(s, w, kind) BY Zenon, <2>8 DEF EndpointStep
    <3> DEFINE place == AfterAnswer(s, kind)
    <3>1. worker' = [worker EXCEPT ![s][w] = place] /\ worker[s][w] = "call" BY Zenon, <3>0 DEF Answer
    <3>2. HoldsSlot(place) /\ place # "slot_wait" BY Zenon, <2>1 DEF AfterAnswer
    <3> HIDE DEF place
    <3> QED BY Zenon, <2>0, <2>1, <3>1, <3>2, <1>moves
  <2> QED BY Zenon, <2>2, <2>3, <2>4, <2>5, <2>6, <2>7, <2>8
(* Opening a stream starts its workers at "pop"; the other steps move none. *)
<1>others. ASSUME NEW s \in Streams,
                  ReaderStep(s) \/ ClientStep(s) \/ WriterTurn(s) \/ TransportStep(s)
           PROVE  SlotsStill
  <2> USE <1>others
  <2>0. vlm_slots' = vlm_slots
    BY Zenon DEF ReaderStep, ClientStep, TransportStep, TestHalted, AcquireStream, AcquireProcess,
       Announce, Enqueue, CloseJobs, CloseEvents, Finish, RefuseOptions, Open, Cancel, ReadEnd,
       ReadMessage, WriterTurn, WriteEvent, WriteFails, WriteTrailer
  <2>1. worker' = worker \/ \E request \in Requests : Open(s, request)
    BY Zenon DEF ReaderStep, ClientStep, TransportStep, TestHalted, AcquireStream, AcquireProcess,
       Announce, Enqueue, CloseJobs, CloseEvents, Finish, RefuseOptions, Cancel, ReadEnd,
       ReadMessage, WriterTurn, WriteEvent, WriteFails, WriteTrailer
  <2>2. CASE worker' = worker BY Zenon, <2>0, <2>2 DEF SlotsStill
  <2>3. ASSUME NEW request \in Requests, Open(s, request) PROVE SlotsStill
    <3>1. /\ reader[s] = "idle"
          /\ worker' = [worker EXCEPT ![s] =
                [w \in Workers |->
                   IF w <= EffectiveConcurrency(request.concurrency) THEN "pop" ELSE "exited"]]
      BY Zenon, <2>3 DEF Open
    <3>2. worker \in [Streams -> [Workers -> WorkerStates]] /\ WorkersGone(s)
      BY Zenon, <3>1 DEF PipelineInv, ThreadsOK, StreamInv, Unopened
    <3>3. \A w \in Workers : worker'[s][w] \in {"pop", "exited"} /\ worker[s][w] = "exited"
      BY Zenon, <3>1, <3>2 DEF WorkersGone
    <3>4. \A t \in Streams \ {s} : worker'[t] = worker[t] BY Zenon, <3>1, <3>2
    <3>5. ~HoldsSlot("pop") /\ ~HoldsSlot("exited") /\ "slot_wait" \notin {"pop", "exited"}
      BY DEF HoldsSlot
    <3>6. \A t \in Streams, v \in Workers :
             /\ HoldsSlot(worker'[t][v]) <=> HoldsSlot(worker[t][v])
             /\ worker'[t][v] = "slot_wait" <=> worker[t][v] = "slot_wait"
      BY Zenon, <3>3, <3>4, <3>5
    <3> QED BY Zenon, <2>0, <3>6 DEF SlotsStill
  <2> QED BY Zenon, <2>1, <2>2, <2>3
<1>1. CASE UNCHANGED vars BY Zenon, <1>1 DEF vars, SlotsStill
<1>2. ASSUME NEW s \in Streams, NEW w \in Workers, WorkerStep(s, w) \/ EndpointStep(s, w)
      PROVE  SlotsStill \/ AcquireSlot(s, w) \/ DropSlot(s, w)
  BY Zenon, <1>2, <1>quiet DEF WorkerStep
<1> QED BY Zenon, <1>1, <1>2, <1>others DEF Next, AllDone

-----------------------------------------------------------------------------
(* LeaseInv is inductive, given PipelineInv.                               *)

(* A stream with no page in hand, none queued and no busy worker. *)
LEMMA NothingLeased ==
  ASSUME PipelineInv, NEW s \in Streams, reader[s] \in {"idle", "done"}, Empty(jobs[s]),
         WorkersGone(s)
  PROVE  /\ StreamBytes(s) = 0 /\ ProcessBytes(s) = 0
         /\ \A p \in Pages : ProcessLease(s, p) = 0
<1>1. ASSUME NEW p \in Pages PROVE StreamLease(s, p) = 0 /\ ProcessLease(s, p) = 0
  <2>1. reader[s] \notin HasStreamLease /\ reader[s] \notin HasBothLeases
    BY DEF HasStreamLease, HasBothLeases
  <2>2. \A w \in Workers : ~Busy(s, w) BY Zenon DEF WorkersGone, Busy
  <2>3. p \notin (jobs[s].taken + 1)..Len(jobs[s].log)
    <3>1. jobs[s] \in Channels(Jobs) BY Zenon DEF PipelineInv, ThreadsOK
    <3> QED BY <3>1 DEF Empty, Channels, Pages
  <2>4. ~Leased(s, p, HasStreamLease) /\ ~Leased(s, p, HasBothLeases)
    BY Zenon, <2>1, <2>2, <2>3 DEF Leased
  <2> QED BY Zenon, <2>4 DEF StreamLease, ProcessLease
<1> DEFINE f == [p \in Pages |-> StreamLease(s, p)]
           g == [p \in Pages |-> ProcessLease(s, p)]
<1>2. /\ DOMAIN f = Pages /\ \A p \in Pages : f[p] = 0
      /\ DOMAIN g = Pages /\ \A p \in Pages : g[p] = 0
  BY Zenon, <1>1
<1>3. SumFunction(f) = 0 /\ SumFunction(g) = 0
  <2> HIDE DEF f, g
  <2> QED BY Zenon, <1>2, Finite, Totals
<1> QED BY Zenon, <1>1, <1>3 DEF StreamBytes, ProcessBytes

LEMMA InitLeaseInv ==
  ASSUME Init, PipelineInv
  PROVE  LeaseInv
<1>0. /\ StreamBufferBytes \in Nat /\ BufferBytes \in Nat /\ MaxInflight \in Nat /\ MaxPageBytes \in Nat
  BY SizesAssumption
<1>1. \A s \in Streams :
         /\ reader[s] = "idle" /\ WorkersGone(s) /\ jobs[s] = NewChannel /\ image[s] = 0
         /\ stream_bytes[s] = NewBudget(StreamBufferBytes)
  BY Zenon DEF Init, WorkersGone
<1>2. stream_bytes = [s \in Streams |-> NewBudget(StreamBufferBytes)]
      /\ buffered_bytes = NewBudget(BufferBytes) /\ vlm_slots = NewBudget(MaxInflight)
  BY Zenon DEF Init
<1>e. Empty(NewChannel) BY DEF Empty, NewChannel
<1>3. \A s \in Streams : StreamBytes(s) = 0 /\ ProcessBytes(s) = 0
  BY Zenon, <1>1, <1>e, NothingLeased
<1>4. ASSUME NEW s \in Streams PROVE JobsAreQueued(s) /\ StreamBudget(s)
  <2>1. \A w \in Workers : ~Busy(s, w) BY Zenon, <1>1 DEF WorkersGone, Busy
  <2>2. image[s] <= MaxPageBytes BY <1>0, <1>1
  <2>3. "idle" # "done" /\ "idle" # "stream_wait" OBVIOUS
  <2>4. JobsAreQueued(s) BY Zenon, <1>1, <2>1, <2>2, <2>3 DEF JobsAreQueued
  <2>5. /\ stream_bytes[s].used = 0 /\ stream_bytes[s].line = <<>>
        /\ stream_bytes[s].used <= stream_bytes[s].capacity
    BY Zenon, <1>0, <1>1, NewBudgetFacts
  <2> QED BY Zenon, <1>1, <1>3, <2>3, <2>4, <2>5 DEF StreamBudget
<1>5. stream_bytes \in [Streams -> Budgets(Pages)]
  <2>1. NewBudget(StreamBufferBytes) \in Budgets(Pages) BY Zenon, <1>0, NewBudgetFacts
  <2> QED BY Zenon, <1>2, <2>1
<1>6. ProcessBudget
  <2> DEFINE f == [s \in Streams |-> ProcessBytes(s)]
  <2>1. DOMAIN f = Streams /\ \A s \in Streams : f[s] = 0 BY Zenon, <1>3
  <2>2. SumFunction(f) = 0
    <3> HIDE DEF f
    <3> QED BY Zenon, <2>1, Finite, Totals
  <2>3. /\ buffered_bytes \in Budgets(1..(NStreams * MaxPages)) /\ buffered_bytes.used = 0
        /\ buffered_bytes.used <= buffered_bytes.capacity
        /\ Injective(buffered_bytes.line) /\ \A c : ~In(buffered_bytes.line, c)
    BY Zenon, <1>0, <1>2, NewBudgetFacts
  <2>4. "idle" # "process_wait" OBVIOUS
  <2> QED BY Zenon, <1>1, <2>2, <2>3, <2>4 DEF ProcessBudget
<1>7. SlotBudget
  <2>1. /\ vlm_slots \in Budgets(1..(NStreams * Concurrency)) /\ vlm_slots.used = 0
        /\ vlm_slots.used <= vlm_slots.capacity
        /\ Injective(vlm_slots.line) /\ \A c : ~In(vlm_slots.line, c)
    BY Zenon, <1>0, <1>2, NewBudgetFacts
  <2>2. \A s \in Streams, w \in Workers : worker[s][w] = "exited" BY Zenon, <1>1 DEF WorkersGone
  <2>3. ~HoldsSlot("exited") /\ "exited" # "slot_wait" BY DEF HoldsSlot
  <2>4. \A x \in Streams \X Workers : x[1] \in Streams /\ x[2] \in Workers OBVIOUS
  <2>5. AtSlot = {} BY Zenon, <2>2, <2>3, <2>4, SlotHolders
  <2>6. Cardinality(AtSlot) = 0 BY Zenon, <2>5, FS_EmptySet
  <2> QED BY Zenon, <2>1, <2>2, <2>3, <2>6 DEF SlotBudget
<1> QED BY Zenon, <1>4, <1>5, <1>6, <1>7 DEF LeaseInv, ByteInv

(* What a step may do to the byte budgets. *)
LEMMA ByteSteps ==
  PipelineInv /\ ByteInv /\ [Next]_vars =>
    \/ BytesStill
    \/ \E s \in Streams : AcquireStream(s) \/ AcquireProcess(s)
    \/ \E s \in Streams, w \in Workers : DropJob(s, w)
(* jobs.push: the page goes from the reader's hand to the queue. *)
<1>enqueued. ASSUME PipelineInv, NEW s \in Streams, Enqueue(s)
             PROVE  KeepsLeases(s)
  <2> USE <1>enqueued
  <2> DEFINE n == Len(jobs[s].log)
  <2>1. /\ reader[s] = "enqueue" /\ reader'[s] = "top" /\ jobs[s] \in Channels(Jobs)
        /\ jobs'[s] = Push(jobs[s], [page |-> started[s], bytes |-> image[s]])
        /\ KeepsCapacities(s) /\ worker' = worker /\ job' = job
    BY Zenon DEF Enqueue, PipelineInv, ThreadsOK, KeepsCapacities
  <2>2. [page |-> started[s], bytes |-> image[s]] \in Jobs
    BY PagesBehind DEF Jobs
  <2>3. /\ jobs'[s].log = Append(jobs[s].log, [page |-> started[s], bytes |-> image[s]])
        /\ jobs'[s].taken = jobs[s].taken
    BY <2>1, <2>2 DEF Push, Channels
  <2>4. /\ Len(jobs'[s].log) = n + 1 /\ n \in Nat
        /\ \A i \in 1..n : jobs'[s].log[i] = jobs[s].log[i]
        /\ jobs'[s].log[n + 1] = [page |-> started[s], bytes |-> image[s]]
    <3>1. PICK log \in Seq(Jobs) : log = jobs[s].log BY <2>1 DEF Channels
    <3>2. PICK j \in Jobs : j = [page |-> started[s], bytes |-> image[s]] BY Zenon, <2>2
    <3>3. /\ Len(Append(log, j)) = Len(log) + 1 /\ Len(log) \in Nat
          /\ \A i \in 1..Len(log) : Append(log, j)[i] = log[i]
          /\ Append(log, j)[Len(log) + 1] = j
      OBVIOUS
    <3> QED BY Zenon, <2>3, <3>1, <3>2, <3>3
  <2>5. n = started[s] - 1 /\ jobs[s].taken <= n /\ jobs[s].taken \in Nat /\ started[s] \in Nat
    BY <2>1, PagesBehind
  <2> SUFFICES ASSUME NEW p \in Pages
               PROVE  StreamLease(s, p)' = StreamLease(s, p) /\ ProcessLease(s, p)' = ProcessLease(s, p)
    BY DEF KeepsLeases
  <2>6. ASSUME NEW R, R = HasStreamLease \/ R = HasBothLeases
        PROVE  Leased(s, p, R)' <=> Leased(s, p, R)
    <3>1. "enqueue" \in R /\ "top" \notin R BY <2>6 DEF HasStreamLease, HasBothLeases
    <3>2. p \in (jobs'[s].taken + 1)..Len(jobs'[s].log) <=>
             p \in (jobs[s].taken + 1)..Len(jobs[s].log) \/ p = started[s]
      BY <2>3, <2>4, <2>5 DEF Pages
    <3>3. (\E w \in Workers : Busy(s, w) /\ job[s][w].page = p)' <=>
             \E w \in Workers : Busy(s, w) /\ job[s][w].page = p
      BY Zenon, <2>1 DEF Busy
    <3> QED BY Zenon, <2>1, <3>1, <3>2, <3>3 DEF Leased, PageInHand
  <2>7. ASSUME NEW R, R = HasStreamLease \/ R = HasBothLeases, Leased(s, p, R)
        PROVE  PageBytes(s, p)' = PageBytes(s, p)
    <3>1. p <= n \/ p = n + 1
      BY <2>1, <2>4, <2>5, <2>7, PagesBehind DEF Leased, PageInHand, Pages
    <3> QED BY <2>4, <3>1 DEF PageBytes, Pages
  <2> QED BY Zenon, <2>1, <2>6, <2>7 DEF StreamLease, ProcessLease, Clamp, KeepsCapacities
(* jobs.pop: from the queue to a worker. *)
<1>popped. ASSUME PipelineInv, NEW s \in Streams, NEW w \in Workers, PopJob(s, w)
           PROVE  KeepsLeases(s)
  <2> USE <1>popped
  <2>1. /\ worker[s][w] = "pop" /\ ~Empty(jobs[s]) /\ jobs[s] \in Channels(Jobs)
        /\ worker'[s] = [worker[s] EXCEPT ![w] = "check"]
        /\ job'[s] = [job[s] EXCEPT ![w] = NextValue(jobs[s])]
        /\ jobs'[s] = Pop(jobs[s])
        /\ KeepsCapacities(s) /\ reader' = reader /\ started' = started /\ image' = image
    BY Zenon DEF PopJob, PipelineInv, ThreadsOK, KeepsCapacities
  <2>2. jobs'[s].log = jobs[s].log /\ jobs'[s].taken = jobs[s].taken + 1
    BY <2>1 DEF Pop, Channels
  <2>3. worker[s] \in [Workers -> WorkerStates] /\ job[s] \in [Workers -> Jobs]
    BY Zenon DEF PipelineInv, ThreadsOK
  <2>4. NextValue(jobs[s]).page = jobs[s].taken + 1
    <3>1. jobs[s].taken + 1 \in DOMAIN jobs[s].log
      BY <2>1, PagesBehind DEF Empty, Channels
    <3> QED BY <3>1 DEF PipelineInv, StreamInv, JobPlace, NextValue
  <2> SUFFICES ASSUME NEW p \in Pages
               PROVE  StreamLease(s, p)' = StreamLease(s, p) /\ ProcessLease(s, p)' = ProcessLease(s, p)
    BY DEF KeepsLeases
  <2>5. (\E v \in Workers : Busy(s, v) /\ job[s][v].page = p)' <=>
           (\E v \in Workers : Busy(s, v) /\ job[s][v].page = p) \/ p = jobs[s].taken + 1
    <3>1. \A v \in Workers \ {w} : (Busy(s, v)' <=> Busy(s, v)) /\ job'[s][v] = job[s][v]
      BY Zenon, <2>1, <2>3 DEF Busy
    <3>2. Busy(s, w)' /\ ~Busy(s, w) /\ job'[s][w].page = jobs[s].taken + 1
      BY <2>1, <2>3, <2>4 DEF Busy
    <3> QED BY Zenon, <3>1, <3>2
  <2>6. p \in (jobs[s].taken + 1)..Len(jobs[s].log) <=>
           p \in (jobs'[s].taken + 1)..Len(jobs'[s].log) \/ p = jobs[s].taken + 1
    BY <2>1, <2>2, PagesBehind DEF Empty, Pages
  <2>7. \A R : Leased(s, p, R)' <=> Leased(s, p, R)
    BY Zenon, <2>1, <2>5, <2>6 DEF Leased, PageInHand
  <2>8. PageBytes(s, p)' = PageBytes(s, p)
    BY Zenon, <2>1, <2>2 DEF PageBytes
  <2> QED BY Zenon, <2>1, <2>7, <2>8 DEF StreamLease, ProcessLease, Clamp, KeepsCapacities
<1>calmed. ASSUME PipelineInv, ByteInv, NEW s \in Streams, Calm(s), buffered_bytes' = buffered_bytes
           PROVE  Settled(s)
  <2> USE <1>calmed
  <2>1. KeepsCapacities(s) BY Zenon DEF KeepsCapacities, Calm
  <2>2. \/ reader'[s] = reader[s] /\ started'[s] = started[s] /\ image'[s] = image[s]
        \/ /\ reader[s] \notin HasStreamLease /\ reader'[s] \notin HasStreamLease
           /\ reader[s] \notin HasBothLeases /\ reader'[s] \notin HasBothLeases
           /\ reader[s] \notin {"stream_wait", "process_wait"}
           /\ reader'[s] \notin {"stream_wait", "process_wait"}
           /\ image'[s] <= MaxPageBytes
           /\ reader'[s] = "done" => Empty(jobs'[s])
    BY DEF Calm, HasStreamLease, HasBothLeases
  <2>3. reader[s] \in HasStreamLease => PageInHand(s)' = PageInHand(s) /\ image'[s] = image[s]
    BY Zenon, <2>2 DEF PageInHand
  <2>4. KeepsLeases(s) BY Zenon, <2>1, <2>2, <2>3, QuietLeases DEF Calm
  <2>5. JobsAreQueued(s)'
    <3>1. JobsAreQueued(s) BY Zenon DEF ByteInv
    <3>2. reader'[s] = "done" => Empty(jobs'[s]) BY Zenon, <2>2, <3>1 DEF JobsAreQueued, Empty, Calm
    <3>3. image'[s] <= MaxPageBytes BY Zenon, <2>2, <3>1 DEF JobsAreQueued
    <3> QED BY Zenon, <3>1, <3>2, <3>3 DEF JobsAreQueued, Calm
  <2>6. KeepsLines(s) BY Zenon, <2>2 DEF KeepsLines
  <2> QED BY Zenon, <2>4, <2>5, <2>6 DEF Settled, Calm
(* From one stream to all of them. *)
<1>calm. ASSUME PipelineInv, ByteInv, NEW s \in Streams, Calm(s),
                \A t \in Streams \ {s} : Untouched(t),
                buffered_bytes' = buffered_bytes, stream_bytes' = stream_bytes
         PROVE  BytesStill
  <2> USE <1>calm
  <2>1. \A t \in Streams : Settled(t) BY Zenon, <1>calmed, UntouchedSettled
  <2> QED BY Zenon, <2>1 DEF BytesStill
(* The reader's place changes, neither place one where it has a page. *)
<1>moves. ASSUME PipelineInv, ByteInv, NEW s \in Streams, NEW place,
                 UNCHANGED <<workerVars, budgetVars, jobs, started>>,
                 image' = image, reader' = [reader EXCEPT ![s] = place],
                 {reader[s], place} \cap (HasStreamLease \cup {"stream_wait"}) = {},
                 place = "done" => Empty(jobs[s])
          PROVE  BytesStill
  <2> USE <1>moves
  <2>1. reader'[s] = place /\ \A t \in Streams \ {s} : reader'[t] = reader[t]
    BY Zenon DEF PipelineInv, ThreadsOK
  <2>2. image[s] <= MaxPageBytes BY Zenon DEF ByteInv, JobsAreQueued
  <2>3. Calm(s) BY Zenon, <2>1, <2>2 DEF Calm, Busy, Empty
  <2> QED BY Zenon, <2>1, <2>3, <1>calm DEF Untouched
<1>readers. ASSUME PipelineInv, ByteInv, NEW s \in Streams,
                   \/ TestHalted(s) \/ CloseEvents(s) \/ Finish(s) \/ WriteTrailer(s) \/ ReadEnd(s)
                   \/ \E code \in OptionErrors : RefuseOptions(s, code)
            PROVE  BytesStill
  <2> USE <1>readers
  <2>1. {"top", "leave", "reading", "join", "drain", "trailer", "done", "idle"}
           \cap (HasStreamLease \cup {"stream_wait"}) = {}
    BY DEF HasStreamLease
  <2>e. reader[s] \in {"drain", "trailer", "idle"} => Empty(jobs[s])
    <3>1. /\ Drained(s) /\ ReaderPlace(s) /\ Unopened(s) BY Zenon DEF PipelineInv, StreamInv
    <3>2. 1 \in Workers BY SizesAssumption DEF Workers
    <3>3. reader[s] \in {"drain", "trailer"} => Empty(jobs[s])
      BY Zenon, <3>1, <3>2 DEF Drained, ReaderPlace, WorkersGone
    <3>4. reader[s] = "idle" => jobs[s].log = <<>> /\ jobs[s].taken = 0
      BY Zenon, <3>1 DEF Unopened
    <3>5. Len(<<>>) = 0 OBVIOUS
    <3> QED BY Zenon, <3>3, <3>4, <3>5 DEF Empty
  <2>2. CASE TestHalted(s)
    <3> DEFINE place == IF halt[s] THEN "leave" ELSE "reading"
    <3>1. reader[s] = "top" /\ reader' = [reader EXCEPT ![s] = place] BY Zenon, <2>2 DEF TestHalted
    <3>2. {reader[s], place} \cap (HasStreamLease \cup {"stream_wait"}) = {} /\ place # "done"
      BY <2>1, <3>1
    <3> HIDE DEF place
    <3> QED BY Zenon, <3>1, <3>2, <2>2, <1>moves DEF TestHalted
  <2>3. CASE CloseEvents(s)
    <3>1. reader[s] = "join" /\ reader' = [reader EXCEPT ![s] = "drain"] BY Zenon, <2>3 DEF CloseEvents
    <3>2. {reader[s], "drain"} \cap (HasStreamLease \cup {"stream_wait"}) = {} /\ "drain" # "done"
      BY <2>1, <3>1
    <3> QED BY Zenon, <3>1, <3>2, <2>3, <1>moves DEF CloseEvents
  <2>4. CASE Finish(s)
    <3> DEFINE place == IF FinalStatus(s) = "OK" THEN "trailer" ELSE "done"
    <3>1. reader[s] = "drain" /\ reader' = [reader EXCEPT ![s] = place] BY Zenon, <2>4 DEF Finish
    <3>2. {reader[s], place} \cap (HasStreamLease \cup {"stream_wait"}) = {}
      BY <2>1, <3>1
    <3> HIDE DEF place
    <3> QED BY Zenon, <3>1, <3>2, <2>4, <2>e, <1>moves DEF Finish
  <2>5. CASE WriteTrailer(s)
    <3>1. reader[s] = "trailer" /\ reader' = [reader EXCEPT ![s] = "done"] BY Zenon, <2>5 DEF WriteTrailer
    <3>2. {reader[s], "done"} \cap (HasStreamLease \cup {"stream_wait"}) = {}
      BY <2>1, <3>1
    <3> QED BY Zenon, <3>1, <3>2, <2>5, <2>e, <1>moves DEF WriteTrailer
  <2>6. CASE ReadEnd(s)
    <3>1. reader[s] = "reading" /\ reader' = [reader EXCEPT ![s] = "leave"] BY Zenon, <2>6 DEF ReadEnd
    <3>2. {reader[s], "leave"} \cap (HasStreamLease \cup {"stream_wait"}) = {} /\ "leave" # "done"
      BY <2>1, <3>1
    <3> QED BY Zenon, <3>1, <3>2, <2>6, <1>moves DEF ReadEnd
  <2>7. ASSUME NEW code \in OptionErrors, RefuseOptions(s, code) PROVE BytesStill
    <3>1. reader[s] = "idle" /\ reader' = [reader EXCEPT ![s] = "done"] BY Zenon, <2>7 DEF RefuseOptions
    <3>2. {reader[s], "done"} \cap (HasStreamLease \cup {"stream_wait"}) = {}
      BY <2>1, <3>1
    <3> QED BY Zenon, <3>1, <3>2, <2>7, <2>e, <1>moves DEF RefuseOptions
  <2> QED BY Zenon, <2>2, <2>3, <2>4, <2>5, <2>6, <2>7
<1>open. ASSUME PipelineInv, ByteInv, NEW s \in Streams, NEW request \in Requests, Open(s, request)
         PROVE  BytesStill
  <2> USE <1>open
  <2>1. /\ reader[s] = "idle" /\ reader'[s] = "top"
        /\ \A t \in Streams \ {s} : reader'[t] = reader[t] /\ worker'[t] = worker[t]
        /\ \A w \in Workers : worker'[s][w] \in {"pop", "exited"}
        /\ UNCHANGED <<image, started, job, budgetVars, jobs>>
    <3>1. reader \in [Streams -> ReaderStates] /\ worker \in [Streams -> [Workers -> WorkerStates]]
      BY Zenon DEF PipelineInv, ThreadsOK
    <3> QED BY <3>1 DEF Open
  <2>2. {reader[s], reader'[s]} \cap (HasStreamLease \cup {"stream_wait"}) = {} /\ reader'[s] # "done"
    BY <2>1 DEF HasStreamLease
  <2>3. \A w \in Workers : ~Busy(s, w) /\ ~Busy(s, w)'
    BY Zenon, <2>1 DEF Busy, PipelineInv, StreamInv, Unopened, WorkersGone
  <2>4. image[s] <= MaxPageBytes BY Zenon DEF ByteInv, JobsAreQueued
  <2>5. Calm(s) BY Zenon, <2>1, <2>2, <2>3, <2>4 DEF Calm
  <2> QED BY Zenon, <2>1, <2>5, <1>calm DEF Untouched
<1>read. ASSUME PipelineInv, ByteInv, NEW s \in Streams, NEW m \in Messages, ReadMessage(s, m)
         PROVE  BytesStill
  <2> USE <1>read
  <2>1. reader \in [Streams -> ReaderStates] /\ image \in [Streams -> Nat]
    BY Zenon DEF PipelineInv, ThreadsOK
  <2>2. /\ reader[s] = "reading" /\ reader'[s] \in {"top", "leave", "stream_line"}
        /\ \A t \in Streams \ {s} : reader'[t] = reader[t] /\ image'[t] = image[t]
        /\ UNCHANGED <<started, workerVars, budgetVars, jobs>>
    BY <2>1 DEF ReadMessage
  <2>3. image'[s] <= MaxPageBytes
    <3>1. CASE Verdict(m, started[s]) = "admit"
      <4>1. m.bytes \in Nat /\ ~(m.bytes > MaxPageBytes)
        BY <3>1, MessagesAssumption DEF Verdict, MessageSpace
      <4>2. image'[s] = m.bytes BY <3>1, <2>1 DEF ReadMessage, ReadErrors
      <4> QED BY <4>1, <4>2, SizesAssumption
    <3>2. CASE Verdict(m, started[s]) # "admit"
      <4>1. image' = image BY Zenon, <3>2 DEF ReadMessage
      <4> QED BY Zenon, <4>1 DEF ByteInv, JobsAreQueued
    <3> QED BY Zenon, <3>1, <3>2
  <2>4. {reader[s], reader'[s]} \cap (HasStreamLease \cup {"stream_wait"}) = {} /\ reader'[s] # "done"
    BY <2>2 DEF HasStreamLease
  <2>5. Calm(s) BY Zenon, <2>2, <2>3, <2>4 DEF Calm, Busy
  <2> QED BY Zenon, <2>2, <2>5, <1>calm DEF Untouched
(* Steps that leave the reader and every job where they are. *)
<1>idle. ASSUME PipelineInv, ByteInv, NEW s \in Streams,
                UNCHANGED <<reader, image, started, job, jobs, stream_bytes, buffered_bytes>>,
                \A t \in Streams \ {s} : worker'[t] = worker[t],
                \A w \in Workers : Busy(s, w)' <=> Busy(s, w)
         PROVE  BytesStill
  <2> USE <1>idle
  <2>1. Calm(s) BY Zenon DEF Calm
  <2> QED BY Zenon, <2>1, <1>calm DEF Untouched
<1>workers. ASSUME PipelineInv, ByteInv, NEW s \in Streams, NEW w \in Workers,
                   \/ ExitWorker(s, w) \/ SkipOrGoOn(s, w) \/ AcquireSlot(s, w) \/ CutCall(s, w)
                   \/ Abort(s, w) \/ DropSlot(s, w) \/ EndpointStep(s, w)
            PROVE  BytesStill
  <2> USE <1>workers
  <2>0. worker \in [Streams -> [Workers -> WorkerStates]] BY Zenon DEF PipelineInv, ThreadsOK
  <2>1. UNCHANGED <<reader, image, started, job, jobs, stream_bytes, buffered_bytes>>
    BY Zenon DEF ExitWorker, SkipOrGoOn, AcquireSlot, CutCall, Abort, DropSlot, EndpointStep, Answer
  <2>2. \E place : /\ worker' = [worker EXCEPT ![s][w] = place]
                   /\ place \in {"pop", "exited"} <=> worker[s][w] \in {"pop", "exited"}
    <3>1. CASE ExitWorker(s, w) BY Zenon, <3>1 DEF ExitWorker
    <3>2. CASE SkipOrGoOn(s, w)
      <4> DEFINE place == IF halt[s] THEN "drop_job" ELSE "slot_line"
      <4>1. worker' = [worker EXCEPT ![s][w] = place] /\ worker[s][w] \in {"check"}
        BY Zenon, <3>2 DEF SkipOrGoOn
      <4>2. place \notin {"pop", "exited"} /\ worker[s][w] \notin {"pop", "exited"} BY <4>1
      <4> HIDE DEF place
      <4> QED BY Zenon, <4>1, <4>2
    <3>3. CASE AcquireSlot(s, w)
      <4> DEFINE me == WorkerId(s, w)
                 b == IF worker[s][w] = "slot_line" THEN Enter(vlm_slots, me) ELSE vlm_slots
                 turn == TurnOf(b, me, Clamp(b, 1), halt[s])
                 place == CASE turn = "holding" -> "call" [] turn = "idle" -> "drop_job"
                            [] OTHER -> "slot_wait"
      <4>1. worker' = [worker EXCEPT ![s][w] = place] /\ worker[s][w] \in {"slot_line", "slot_wait"}
        BY Zenon, <3>3 DEF AcquireSlot
      <4> HIDE DEF turn
      <4>2. place \notin {"pop", "exited"} /\ worker[s][w] \notin {"pop", "exited"} BY <4>1
      <4> HIDE DEF place
      <4> QED BY Zenon, <4>1, <4>2
    <3>4. CASE CutCall(s, w) \/ Abort(s, w) \/ DropSlot(s, w) BY <3>4 DEF CutCall, Abort, DropSlot
    <3>5. CASE EndpointStep(s, w)
      <4>1. PICK kind : Answer(s, w, kind) BY Zenon, <3>5 DEF EndpointStep
      <4> DEFINE place == AfterAnswer(s, kind)
      <4>2. worker' = [worker EXCEPT ![s][w] = place] /\ worker[s][w] = "call"
        BY Zenon, <4>1 DEF Answer
      <4>3. place \notin {"pop", "exited"} /\ worker[s][w] \notin {"pop", "exited"}
        BY <4>2 DEF AfterAnswer
      <4> HIDE DEF place
      <4> QED BY Zenon, <4>2, <4>3
    <3> QED BY Zenon, <3>1, <3>2, <3>3, <3>4, <3>5
  <2>3. /\ \A t \in Streams \ {s} : worker'[t] = worker[t]
        /\ \A v \in Workers : Busy(s, v)' <=> Busy(s, v)
    BY <2>0, <2>2 DEF Busy
  <2> QED BY Zenon, <2>1, <2>3, <1>idle
<1>close. ASSUME PipelineInv, ByteInv, NEW s \in Streams, CloseJobs(s)
          PROVE  BytesStill
  <2> USE <1>close
  <2>1. /\ reader[s] = "leave" /\ reader'[s] = "join" /\ jobs'[s] = Close(jobs[s])
        /\ jobs[s] \in Channels(Jobs)
        /\ \A t \in Streams \ {s} : reader'[t] = reader[t] /\ jobs'[t] = jobs[t]
        /\ UNCHANGED <<image, started, workerVars, budgetVars>>
    BY Zenon DEF CloseJobs, PipelineInv, ThreadsOK
  <2>2. jobs'[s].log = jobs[s].log /\ jobs'[s].taken = jobs[s].taken BY <2>1 DEF Close, Channels
  <2>3. {reader[s], reader'[s]} \cap (HasStreamLease \cup {"stream_wait"}) = {} /\ reader'[s] # "done"
    BY <2>1 DEF HasStreamLease
  <2>4. image[s] <= MaxPageBytes BY Zenon DEF ByteInv, JobsAreQueued
  <2>5. Calm(s) BY Zenon, <2>1, <2>2, <2>3, <2>4 DEF Calm, Busy
  <2> QED BY Zenon, <2>1, <2>5, <1>calm DEF Untouched
(* Stream s settles by a step of its own, the others are untouched. *)
<1>settled. ASSUME PipelineInv, ByteInv, NEW s \in Streams, Settled(s),
                   \A t \in Streams \ {s} : Untouched(t), UNCHANGED budgetVars
            PROVE  BytesStill
  <2> USE <1>settled
  <2>1. \A t \in Streams : Settled(t) BY Zenon, UntouchedSettled
  <2> QED BY Zenon, <2>1 DEF BytesStill
<1>announce. ASSUME PipelineInv, ByteInv, NEW s \in Streams, Announce(s)
             PROVE  BytesStill
  <2> USE <1>announce
  <2>1. /\ reader[s] = "announce" /\ reader'[s] = "enqueue" /\ started'[s] = started[s] + 1
        /\ \A t \in Streams \ {s} : reader'[t] = reader[t] /\ started'[t] = started[t]
        /\ UNCHANGED <<image, workerVars, budgetVars, jobs>>
    BY Zenon DEF Announce, PipelineInv, ThreadsOK
  <2>2. PageInHand(s)' = PageInHand(s) BY <2>1 DEF PageInHand
  <2>3. KeepsCapacities(s) BY Zenon, <2>1 DEF KeepsCapacities
  <2>4. /\ {"announce", "enqueue"} \subseteq HasStreamLease
        /\ {"announce", "enqueue"} \subseteq HasBothLeases
    BY DEF HasStreamLease, HasBothLeases
  <2>5. \A w \in Workers : Busy(s, w)' <=> Busy(s, w) BY Zenon, <2>1 DEF Busy
  <2>6. KeepsLeases(s) BY Zenon, <2>1, <2>2, <2>3, <2>4, <2>5, QuietLeases
  <2>7. JobsAreQueued(s)' BY Zenon, <2>1, <2>5 DEF ByteInv, JobsAreQueued
  <2>8. KeepsLines(s) BY <2>1 DEF KeepsLines
  <2> QED BY Zenon, <2>1, <2>6, <2>7, <2>8, <1>settled DEF Settled, Untouched
<1>enqueue. ASSUME PipelineInv, ByteInv, NEW s \in Streams, Enqueue(s)
            PROVE  BytesStill
  <2> USE <1>enqueue
  <2> DEFINE new == [page |-> started[s], bytes |-> image[s]]
  <2>1. /\ reader[s] = "enqueue" /\ reader'[s] = "top"
        /\ jobs'[s] = Push(jobs[s], new) /\ jobs[s] \in Channels(Jobs)
        /\ \A t \in Streams \ {s} : reader'[t] = reader[t] /\ jobs'[t] = jobs[t]
        /\ UNCHANGED <<image, started, workerVars, budgetVars>>
    BY Zenon DEF Enqueue, PipelineInv, ThreadsOK
  <2>2. new \in Jobs BY PagesBehind DEF Jobs
  <2> HIDE DEF new
  <2>3. jobs'[s].log = Append(jobs[s].log, new) BY <2>1, <2>2 DEF Push, Channels
  <2>4. \A i \in 1..Len(jobs[s].log) : jobs'[s].log[i] = jobs[s].log[i]
    BY <2>1, <2>2, <2>3 DEF Channels
  <2>5. JobsAreQueued(s)'
    <3>1. \A w \in Workers : (Busy(s, w)' <=> Busy(s, w)) /\ job'[s][w] = job[s][w]
      BY Zenon, <2>1 DEF Busy
    <3>2. \A w \in Workers : Busy(s, w) => job[s][w].page \in 1..Len(jobs[s].log)
      BY PagesBehind
    <3>3. "top" # "done" OBVIOUS
    <3> QED BY Zenon, <2>1, <2>4, <3>1, <3>2, <3>3 DEF ByteInv, JobsAreQueued
  <2>6. KeepsLines(s) BY <2>1 DEF KeepsLines
  <2> QED BY Zenon, <2>1, <2>5, <2>6, <1>enqueued, <1>settled DEF Settled, Untouched
<1>pop. ASSUME PipelineInv, ByteInv, NEW s \in Streams, NEW w \in Workers, PopJob(s, w)
        PROVE  BytesStill
  <2> USE <1>pop
  <2>1. /\ worker[s][w] = "pop" /\ ~Empty(jobs[s]) /\ jobs[s] \in Channels(Jobs)
        /\ worker'[s] = [worker[s] EXCEPT ![w] = "check"]
        /\ job'[s] = [job[s] EXCEPT ![w] = NextValue(jobs[s])]
        /\ jobs'[s] = Pop(jobs[s])
        /\ \A t \in Streams \ {s} : worker'[t] = worker[t] /\ job'[t] = job[t] /\ jobs'[t] = jobs[t]
        /\ UNCHANGED <<reader, started, image, budgetVars>>
    BY Zenon DEF PopJob, PipelineInv, ThreadsOK
  <2>2. jobs'[s].log = jobs[s].log BY <2>1 DEF Pop, Channels
  <2>3. worker[s] \in [Workers -> WorkerStates] /\ job[s] \in [Workers -> Jobs]
    BY Zenon DEF PipelineInv, ThreadsOK
  <2>4. NextValue(jobs[s]) = jobs[s].log[NextValue(jobs[s]).page]
    <3>1. jobs[s].taken + 1 \in DOMAIN jobs[s].log
      BY <2>1, PagesBehind DEF Empty, Channels
    <3> QED BY Zenon, <3>1 DEF PipelineInv, StreamInv, JobPlace, NextValue
  <2>5. JobsAreQueued(s)'
    <3>1. \A v \in Workers \ {w} : (Busy(s, v)' <=> Busy(s, v)) /\ job'[s][v] = job[s][v]
      BY Zenon, <2>1, <2>3 DEF Busy
    <3>2. job'[s][w] = NextValue(jobs[s]) BY Zenon, <2>1, <2>3
    <3>3. reader[s] # "done"
      BY <2>1 DEF PipelineInv, StreamInv, ReaderPlace, WorkersGone
    <3>4. JobsAreQueued(s) BY Zenon DEF ByteInv
    <3>5. ASSUME NEW v \in Workers, Busy(s, v)'
          PROVE  job'[s][v] = jobs'[s].log[job'[s][v].page]
      <4>1. CASE v = w BY Zenon, <4>1, <2>2, <2>4, <3>2
      <4>2. CASE v # w BY Zenon, <4>2, <2>2, <3>1, <3>4, <3>5 DEF JobsAreQueued
      <4> QED BY Zenon, <4>1, <4>2
    <3> QED BY Zenon, <2>1, <3>3, <3>4, <3>5 DEF JobsAreQueued
  <2>6. KeepsLines(s) BY Zenon, <2>1 DEF KeepsLines
  <2> QED BY Zenon, <2>1, <2>5, <2>6, <1>popped, <1>settled DEF Settled, Untouched
<1>untouched. ASSUME PipelineInv, ByteInv,
                     UNCHANGED <<reader, image, started, workerVars, jobs, budgetVars>>
              PROVE  BytesStill
  <2> USE <1>untouched
  <2>1. \A t \in Streams : Settled(t) BY Zenon, UntouchedSettled DEF Untouched
  <2> QED BY Zenon, <2>1 DEF BytesStill
<1> SUFFICES ASSUME PipelineInv, ByteInv, [Next]_vars
             PROVE  \/ BytesStill
                    \/ \E s \in Streams : AcquireStream(s) \/ AcquireProcess(s)
                    \/ \E s \in Streams, w \in Workers : DropJob(s, w)
  OBVIOUS
<1>1. CASE UNCHANGED vars BY Zenon, <1>1, <1>untouched DEF vars
<1>2. ASSUME NEW s \in Streams, ReaderStep(s)
      PROVE  BytesStill \/ AcquireStream(s) \/ AcquireProcess(s)
  BY Zenon, <1>2, <1>readers, <1>announce, <1>enqueue, <1>close DEF ReaderStep
<1>3. ASSUME NEW s \in Streams, ClientStep(s) PROVE BytesStill
  <2>1. CASE Cancel(s) BY Zenon, <2>1, <1>untouched DEF Cancel
  <2> QED BY Zenon, <1>3, <2>1, <1>readers, <1>open, <1>read DEF ClientStep
<1>4. ASSUME NEW s \in Streams, TransportStep(s) \/ WriterTurn(s) PROVE BytesStill
  <2>1. CASE WriterTurn(s) BY Zenon, <2>1, <1>untouched DEF WriterTurn
  <2>2. CASE WriteEvent(s) BY Zenon, <2>2, <1>untouched DEF WriteEvent
  <2>3. CASE WriteFails(s) BY Zenon, <2>3, <1>untouched DEF WriteFails
  <2> QED BY Zenon, <1>4, <2>1, <2>2, <2>3, <1>readers DEF TransportStep
<1>5. ASSUME NEW s \in Streams, NEW w \in Workers, WorkerStep(s, w) \/ EndpointStep(s, w)
      PROVE  BytesStill \/ DropJob(s, w)
  BY Zenon, <1>5, <1>workers, <1>pop DEF WorkerStep
<1> QED BY Zenon, <1>1, <1>2, <1>3, <1>4, <1>5 DEF Next, AllDone

(* The byte budgets of both kinds, over a step. *)
LEMMA NextByteInv ==
  ASSUME PipelineInv, PipelineInv', ByteInv, [Next]_vars
  PROVE  ByteInv'
  BY Zenon, ByteSteps, BytesQuiet, BytesKept

(* The slots, over a step. *)
LEMMA NextSlotBudget ==
  PipelineInv /\ SlotBudget /\ [Next]_vars => SlotBudget'
<1>quiet. ASSUME SlotBudget, SlotsStill
          PROVE  SlotBudget'
  <2> USE <1>quiet
  <2>1. AtSlot' = AtSlot
    <3>1. \A x \in Streams \X Workers : x[1] \in Streams /\ x[2] \in Workers OBVIOUS
    <3>2. \A x \in Streams \X Workers : HoldsSlot(worker'[x[1]][x[2]]) <=> HoldsSlot(worker[x[1]][x[2]])
      BY Zenon, <3>1 DEF SlotsStill
    <3> QED BY Zenon, <3>2, SlotHolders
  <2> QED BY Zenon, <2>1 DEF SlotBudget, SlotsStill
<1>moves. ASSUME PipelineInv, NEW s \in Streams, NEW w \in Workers, NEW place,
                 worker' = [worker EXCEPT ![s][w] = place]
          PROVE  SlotChanges(s, w, place)
  <2> USE <1>moves
  <2>1. OnlyMoves(s, w, place) BY Zenon, OneWorkerMoves
  <2>2. /\ worker'[s][w] = place
        /\ \A t \in Streams, v \in Workers : t # s \/ v # w => worker'[t][v] = worker[t][v]
    BY Zenon, <2>1 DEF OnlyMoves
  <2>x. PICK x0 : x0 = <<s, w>> OBVIOUS
  <2>3. \A x \in Streams \X Workers :
           /\ x \in AtSlot' <=> HoldsSlot(worker'[x[1]][x[2]])
           /\ x \in AtSlot <=> HoldsSlot(worker[x[1]][x[2]])
    BY Zenon, SlotHolders
  <2>4. x0 \in Streams \X Workers /\ x0[1] = s /\ x0[2] = w BY <2>x
  <2>5. \A x \in Streams \X Workers : x # x0 => worker'[x[1]][x[2]] = worker[x[1]][x[2]]
    <3>1. \A x \in Streams \X Workers :
             x[1] \in Streams /\ x[2] \in Workers /\ (x # x0 => x[1] # s \/ x[2] # w)
      BY <2>x
    <3> QED BY Zenon, <2>2, <3>1
  <2>6. \A x \in Streams \X Workers : x # x0 => (x \in AtSlot' <=> x \in AtSlot)
    BY Zenon, <2>3, <2>5
  <2>7. (x0 \in AtSlot' <=> HoldsSlot(place)) /\ (x0 \in AtSlot <=> HoldsSlot(worker[s][w]))
    <3>1. worker'[x0[1]][x0[2]] = place /\ worker[x0[1]][x0[2]] = worker[s][w] BY <2>2, <2>4
    <3> QED BY Zenon, <2>3, <2>4, <3>1
  <2>8. AtSlot \subseteq Streams \X Workers /\ AtSlot' \subseteq Streams \X Workers
    BY Zenon, SlotHolders
  <2>9. /\ HoldsSlot(place) => AtSlot' = AtSlot \cup {x0}
        /\ ~HoldsSlot(place) => AtSlot' = AtSlot \ {x0}
    BY Zenon, <2>4, <2>6, <2>7, <2>8
  <2> QED BY Zenon, <2>x, <2>7, <2>9 DEF SlotChanges
<1>acquire. ASSUME PipelineInv, SlotBudget, NEW s \in Streams, NEW w \in Workers, AcquireSlot(s, w)
            PROVE  SlotBudget'
  <2> USE <1>acquire
  <2> DEFINE S == 1..(NStreams * Concurrency)
  <2>1. PICK me : me = WorkerId(s, w) OBVIOUS
  <2>2. me \in S BY Zenon, <2>1, WorkerIds
  <2>3. PICK e : e = IF worker[s][w] = "slot_line" THEN Enter(vlm_slots, me) ELSE vlm_slots OBVIOUS
  <2>4. /\ vlm_slots \in Budgets(S) /\ vlm_slots.used <= vlm_slots.capacity /\ Injective(vlm_slots.line)
        /\ vlm_slots.used = Cardinality(AtSlot)
        /\ \A t \in Streams, v \in Workers :
              In(vlm_slots.line, WorkerId(t, v)) <=> worker[t][v] = "slot_wait"
    BY Zenon DEF SlotBudget
  <2>5. worker[s][w] \in {"slot_line", "slot_wait"} BY Zenon DEF AcquireSlot
  <2>6. \/ e = Enter(vlm_slots, me) /\ ~In(vlm_slots.line, me)
        \/ e = vlm_slots /\ In(vlm_slots.line, me)
    <3>1. "slot_line" # "slot_wait" OBVIOUS
    <3>2. In(vlm_slots.line, me) <=> worker[s][w] = "slot_wait" BY Zenon, <2>1, <2>4
    <3> QED BY Zenon, <2>3, <2>5, <3>1, <3>2
  <2> DEFINE turn == TurnOf(e, me, Clamp(e, 1), halt[s])
             a == AfterTurn(e, me, Clamp(e, 1), halt[s])
             place == CASE turn = "holding" -> "call" [] turn = "idle" -> "drop_job"
                        [] OTHER -> "slot_wait"
  <2>7. AcquireEffect(S, vlm_slots, me, Clamp(vlm_slots, 1), a, turn)
    <3>1. halt[s] \in BOOLEAN BY Zenon DEF PipelineInv, ThreadsOK
    <3>2. 1 \in Nat OBVIOUS
    <3> QED BY Zenon, <2>2, <2>4, <2>6, <3>1, <3>2, AcquireFacts
  <2>8. vlm_slots' = a /\ worker' = [worker EXCEPT ![s][w] = place]
    BY Zenon, <2>1, <2>3 DEF AcquireSlot
  <2>9. Clamp(vlm_slots, 1) = 1 BY <2>4 DEF Clamp, Budgets
  <2> HIDE DEF turn, a
  <2>10. /\ turn \in {"holding", "idle", "waiting"} /\ a \in Budgets(S) /\ a.used <= a.capacity
         /\ Injective(a.line) /\ a.used = IF turn = "holding" THEN vlm_slots.used + 1 ELSE vlm_slots.used
         /\ \A c : In(a.line, c) <=> IF c = me THEN turn = "waiting" ELSE In(vlm_slots.line, c)
    BY Zenon, <2>7, <2>9 DEF AcquireEffect
  <2>11. /\ turn = "holding" => place = "call"
         /\ turn = "idle" => place = "drop_job"
         /\ turn = "waiting" => place = "slot_wait"
    BY <2>10
  <2>12. /\ HoldsSlot(place) <=> turn = "holding"
         /\ place = "slot_wait" <=> turn = "waiting"
         /\ ~HoldsSlot(worker[s][w])
    BY <2>5, <2>10, <2>11 DEF HoldsSlot
  <2> HIDE DEF place
  <2>13. SlotChanges(s, w, place) /\ OnlyMoves(s, w, place)
    BY Zenon, <2>8, <1>moves, OneWorkerMoves
  <2>14. a.used = Cardinality(AtSlot')
    <3>0. IsFiniteSet(AtSlot) /\ <<s, w>> \notin AtSlot
      BY Zenon, <2>12, <2>13, SlotHolders DEF SlotChanges
    <3>1. CASE turn = "holding"
      <4>1. AtSlot' = AtSlot \cup {<<s, w>>} BY Zenon, <3>1, <2>12, <2>13 DEF SlotChanges
      <4>2. Cardinality(AtSlot \cup {<<s, w>>}) = Cardinality(AtSlot) + 1
        BY Zenon, <3>0, FS_AddElement
      <4> QED BY Zenon, <3>1, <4>1, <4>2, <2>4, <2>10
    <3>2. CASE turn # "holding"
      <4>1. AtSlot' = AtSlot \ {<<s, w>>} BY Zenon, <3>2, <2>12, <2>13 DEF SlotChanges
      <4>2. AtSlot' = AtSlot BY Zenon, <4>1, <3>0
      <4> QED BY Zenon, <3>2, <4>2, <2>4, <2>10
    <3> QED BY Zenon, <3>1, <3>2
  <2>15. ASSUME NEW t \in Streams, NEW v \in Workers
         PROVE  In(a.line, WorkerId(t, v)) <=> worker'[t][v] = "slot_wait"
    <3>1. CASE t = s /\ v = w BY Zenon, <3>1, <2>1, <2>10, <2>12, <2>13 DEF OnlyMoves
    <3>2. CASE t # s \/ v # w
      <4>1. WorkerId(t, v) # me BY Zenon, <3>2, <2>1, WorkerIds
      <4>2. In(a.line, WorkerId(t, v)) <=> In(vlm_slots.line, WorkerId(t, v)) BY Zenon, <4>1, <2>10
      <4>3. worker'[t][v] = worker[t][v] BY Zenon, <3>2, <2>13 DEF OnlyMoves
      <4> QED BY Zenon, <4>2, <4>3, <2>4
    <3> QED BY Zenon, <3>1, <3>2
  <2> QED BY Zenon, <2>8, <2>10, <2>14, <2>15 DEF SlotBudget
<1>drop. ASSUME PipelineInv, SlotBudget, NEW s \in Streams, NEW w \in Workers, DropSlot(s, w)
         PROVE  SlotBudget'
  <2> USE <1>drop
  <2> DEFINE S == 1..(NStreams * Concurrency)
  <2>1. /\ worker[s][w] = "drop_slot" /\ worker' = [worker EXCEPT ![s][w] = "drop_job"]
        /\ vlm_slots' = Release(vlm_slots, Clamp(vlm_slots, 1))
    BY Zenon DEF DropSlot
  <2>2. /\ vlm_slots \in Budgets(S) /\ vlm_slots.used <= vlm_slots.capacity /\ Injective(vlm_slots.line)
        /\ vlm_slots.used = Cardinality(AtSlot)
        /\ \A t \in Streams, v \in Workers :
              In(vlm_slots.line, WorkerId(t, v)) <=> worker[t][v] = "slot_wait"
    BY Zenon DEF SlotBudget
  <2>3. Clamp(vlm_slots, 1) = 1 BY <2>2 DEF Clamp, Budgets
  <2>4. SlotChanges(s, w, "drop_job") /\ OnlyMoves(s, w, "drop_job")
    BY Zenon, <2>1, <1>moves, OneWorkerMoves
  <2>5. HoldsSlot(worker[s][w]) /\ ~HoldsSlot("drop_job") BY <2>1 DEF HoldsSlot
  <2>6. /\ IsFiniteSet(AtSlot) /\ <<s, w>> \in AtSlot /\ AtSlot' = AtSlot \ {<<s, w>>}
    BY Zenon, <2>4, <2>5, SlotHolders DEF SlotChanges
  <2>7. /\ Cardinality(AtSlot') = Cardinality(AtSlot) - 1
        /\ Cardinality(AtSlot) \in Nat /\ Cardinality(AtSlot') \in Nat
    <3>1. Cardinality(AtSlot \ {<<s, w>>}) = Cardinality(AtSlot) - 1
      BY Zenon, <2>6, FS_RemoveElement
    <3> QED BY Zenon, <2>6, <3>1, SlotHolders, FS_CardinalityType
  <2>8. 1 <= vlm_slots.used /\ vlm_slots.used - 1 = Cardinality(AtSlot')
        /\ vlm_slots.used - 1 <= vlm_slots.capacity
    <3>1. vlm_slots.capacity \in Nat /\ vlm_slots.used \in Nat BY <2>2 DEF Budgets
    <3> QED BY <2>2, <2>7, <3>1
  <2>9. /\ vlm_slots'.capacity = vlm_slots.capacity /\ vlm_slots'.line = vlm_slots.line
        /\ vlm_slots'.used = vlm_slots.used - 1 /\ vlm_slots' \in Budgets(S)
    <3>1. PICK b : b = vlm_slots OBVIOUS
    <3>2. b \in Budgets(S) /\ 1 \in Nat /\ 1 <= b.used BY Zenon, <3>1, <2>2, <2>8
    <3>3. /\ Release(b, 1).capacity = b.capacity /\ Release(b, 1).line = b.line
          /\ Release(b, 1).used = b.used - 1 /\ Release(b, 1) \in Budgets(S)
      BY <3>2, ReleaseFacts
    <3> QED BY Zenon, <2>1, <2>3, <3>1, <3>3
  <2>10. ASSUME NEW t \in Streams, NEW v \in Workers
         PROVE  worker'[t][v] = "slot_wait" <=> worker[t][v] = "slot_wait"
    <3>0. "drop_job" # "slot_wait" /\ "drop_slot" # "slot_wait" OBVIOUS
    <3>1. CASE t = s /\ v = w BY Zenon, <3>0, <3>1, <2>1, <2>4 DEF OnlyMoves
    <3>2. CASE t # s \/ v # w BY Zenon, <3>2, <2>4 DEF OnlyMoves
    <3> QED BY Zenon, <3>1, <3>2
  <2> QED BY Zenon, <2>2, <2>8, <2>9, <2>10 DEF SlotBudget
<1> QED BY Zenon, SlotSteps, <1>quiet, <1>acquire, <1>drop

LEMMA NextLeaseInv ==
  ASSUME PipelineInv, PipelineInv', LeaseInv, [Next]_vars
  PROVE  LeaseInv'
  BY Zenon, NextByteInv, NextSlotBudget DEF LeaseInv

-----------------------------------------------------------------------------
(* The budgets' view of the pipelines: every step is one of BudgetClients. *)

(* The numbers of the callers name the workers. *)
LEMMA SlotCallerIds ==
  /\ \A c \in SlotCallers : /\ CallerStream(c) \in Streams /\ CallerWorker(c) \in Workers
                            /\ WorkerId(CallerStream(c), CallerWorker(c)) = c
  /\ \A s \in Streams, w \in Workers :
        /\ WorkerId(s, w) \in SlotCallers
        /\ CallerStream(WorkerId(s, w)) = s /\ CallerWorker(WorkerId(s, w)) = w
<1>1. ASSUME NEW c \in SlotCallers
      PROVE  /\ CallerStream(c) \in Streams /\ CallerWorker(c) \in Workers
             /\ WorkerId(CallerStream(c), CallerWorker(c)) = c
  <2> DEFINE s == ((c - 1) \div Concurrency) + 1
  <2>1. s \in 1..NStreams /\ c - (s - 1) * Concurrency \in 1..Concurrency
    BY IdInverse, SizesAssumption DEF SlotCallers
  <2>2. s = CallerStream(c) BY DEF CallerStream
  <2> HIDE DEF s
  <2>3. CallerWorker(c) = c - (s - 1) * Concurrency
    BY <2>1, <2>2, SizesAssumption DEF CallerWorker, WorkerId
  <2> QED BY <2>1, <2>2, <2>3, SizesAssumption DEF Streams, Workers, WorkerId, SlotCallers
<1>2. ASSUME NEW s \in Streams, NEW w \in Workers
      PROVE  /\ WorkerId(s, w) \in SlotCallers
             /\ CallerStream(WorkerId(s, w)) = s /\ CallerWorker(WorkerId(s, w)) = w
  <2>1. WorkerId(s, w) \in SlotCallers BY Zenon, WorkerIds DEF SlotCallers
  <2>2. PICK c \in SlotCallers : c = WorkerId(s, w) BY Zenon, <2>1
  <2>3. WorkerId(CallerStream(c), CallerWorker(c)) = WorkerId(s, w) BY Zenon, <1>1, <2>2
  <2>4. PICK t \in Streams, v \in Workers : t = CallerStream(c) /\ v = CallerWorker(c)
    BY Zenon, <1>1
  <2>5. WorkerId(t, v) = WorkerId(s, w) BY Zenon, <2>3, <2>4
  <2>6. t = s /\ v = w BY <2>5, WorkerIds
  <2> QED BY Zenon, <2>1, <2>2, <2>4, <2>6
<1> QED BY Zenon, <1>1, <1>2

(* The probes h of the callers S become g: the callers of one stream may   *)
(* all be halted.                                                          *)
Halting(S, h, g) ==
    \/ g = h
    \/ \E stopped \in SUBSET S :
          /\ \E c \in stopped : ~h[c]
          /\ g = [c \in S |-> h[c] \/ c \in stopped]

LEMMA HaltSeen ==
  ASSUME PipelineInv, HaltStep, NEW S, NEW owner \in [S -> Streams],
         \A s \in Streams : \E c \in S : owner[c] = s,
         NEW h, h = [c \in S |-> halt[owner[c]]], NEW g, g = [c \in S |-> halt'[owner[c]]]
  PROVE  Halting(S, h, g)
<1>0. halt \in [Streams -> BOOLEAN] BY Zenon DEF PipelineInv, ThreadsOK
<1>1. CASE halt' = halt BY Zenon, <1>1 DEF Halting
<1>2. ASSUME NEW s \in Streams, ~halt[s], halt' = [halt EXCEPT ![s] = TRUE]
      PROVE  Halting(S, h, g)
  <2>1. PICK stopped : stopped = {c \in S : owner[c] = s} OBVIOUS
  <2>2. \A c \in S : h[c] = halt[owner[c]] BY Zenon
  <2>3. \E c \in stopped : ~h[c] BY Zenon, <2>1, <2>2, <1>2
  <2>4. \A c \in S : halt'[owner[c]] = (h[c] \/ c \in stopped)
    <3> SUFFICES ASSUME NEW c \in S PROVE halt'[owner[c]] = (h[c] \/ c \in stopped)
      OBVIOUS
    <3>1. PICK t \in Streams : t = owner[c] BY Zenon
    <3>2. c \in stopped <=> t = s BY Zenon, <3>1, <2>1
    <3>3. h[c] = halt[t] BY Zenon, <3>1, <2>2
    <3>4. halt'[t] = (halt[t] \/ t = s) BY <1>0, <1>2
    <3> QED BY Zenon, <3>1, <3>2, <3>3, <3>4
  <2>5. g = [c \in S |-> h[c] \/ c \in stopped] BY Zenon, <2>4
  <2>6. stopped \in SUBSET S BY Zenon, <2>1
  <2> QED BY Zenon, <2>3, <2>5, <2>6 DEF Halting
<1> QED BY Zenon, <1>1, <1>2 DEF HaltStep

(* What vlm_slots sees of a worker that moves. *)
SlotMoved(s, w, c, turn) ==
    /\ c \in SlotCallers /\ SlotStates[c] = SlotState(s, w) /\ SlotHalts[c] = halt[s]
    /\ SlotAmounts[c] = IF SlotState(s, w) = "idle" THEN 0 ELSE 1
    /\ SlotStates' = [SlotStates EXCEPT ![c] = turn]
    /\ SlotAmounts' = [SlotAmounts EXCEPT ![c] = IF turn = "idle" THEN 0 ELSE 1]

(* A turn of acquire() by caller c, seen by a budget that becomes a: st    *)
(* and am are the places and the amounts of the callers.                   *)
TurnSeen(c, e, n, stop, a, st, st2, am, am2) ==
    LET turn == TurnOf(e, c, n, stop) IN
    /\ a = AfterTurn(e, c, n, stop)
    /\ st2 = [st EXCEPT ![c] = turn]
    /\ am2 = [am EXCEPT ![c] = IF turn = "idle" THEN 0 ELSE n]

(* A lease of n given back by caller c. *)
ResetSeen(c, n, b, a, st, st2, am, am2) ==
    /\ st[c] = "holding" /\ am[c] = n /\ a = Release(b, n)
    /\ st2 = [st EXCEPT ![c] = "idle"] /\ am2 = [am EXCEPT ![c] = 0]

(* A step of a budget that becomes a, with callers S that want amounts of  *)
(* it: none is at the budget, one takes a turn, or one gives its lease     *)
(* back.  Their places, amounts and probes are st, am and h, and then st2, *)
(* am2 and g.                                                              *)
CallersStep(S, amounts, b, a, st, st2, am, am2, h, g) ==
    \/ a = b /\ st2 = st /\ am2 = am /\ Halting(S, h, g)
    \/ \E c \in S, m \in amounts : \E e :
          /\ \/ st[c] = "idle" /\ e = Enter(b, c)
             \/ st[c] = "waiting" /\ e = b /\ am[c] = Clamp(b, m)
          /\ TurnSeen(c, e, Clamp(b, m), h[c], a, st, st2, am, am2) /\ g = h
    \/ \E c \in S : \E n : ResetSeen(c, n, b, a, st, st2, am, am2) /\ g = h

(* Each step of the pipelines, seen from vlm_slots. *)
LEMMA SlotsSeen ==
  PipelineInv /\ SlotBudget /\ HaltStep /\ [Next]_vars =>
    CallersStep(SlotCallers, {1}, vlm_slots, vlm_slots', SlotStates, SlotStates',
                SlotAmounts, SlotAmounts', SlotHalts, SlotHalts')
(* What vlm_slots sees of a step that leaves it alone. *)
<1>nothing. ASSUME SlotsStill
            PROVE  SlotStates' = SlotStates /\ SlotAmounts' = SlotAmounts
  <2> USE <1>nothing
  <2>1. \A s \in Streams, w \in Workers : SlotState(s, w)' = SlotState(s, w)
    BY Zenon DEF SlotsStill, SlotState
  <2>2. \A c \in SlotCallers : SlotState(CallerStream(c), CallerWorker(c))'
                               = SlotState(CallerStream(c), CallerWorker(c))
    BY Zenon, <2>1, SlotCallerIds
  <2>3. SlotStates' = SlotStates BY Zenon, <2>2 DEF SlotStates
  <2> QED BY Zenon, <2>3 DEF SlotAmounts
<1>halt. ASSUME PipelineInv, HaltStep
         PROVE  Halting(SlotCallers, SlotHalts, SlotHalts')
  <2> USE <1>halt
  <2>1. PICK owner : owner = [c \in SlotCallers |-> CallerStream(c)] OBVIOUS
  <2>2. owner \in [SlotCallers -> Streams] BY Zenon, <2>1, SlotCallerIds
  <2>3. 1 \in Workers BY SizesAssumption DEF Workers
  <2>4. \A s \in Streams : \E c \in SlotCallers : owner[c] = s BY Zenon, <2>1, <2>3, SlotCallerIds
  <2>5. /\ SlotHalts = [c \in SlotCallers |-> halt[owner[c]]]
        /\ SlotHalts' = [c \in SlotCallers |-> halt'[owner[c]]]
    BY Zenon, <2>1 DEF SlotHalts, SlotCallers, CallerStream
  <2> QED BY Zenon, <2>2, <2>4, <2>5, HaltSeen
<1>move. ASSUME NEW s \in Streams, NEW w \in Workers, NEW place, OnlyMoves(s, w, place),
                NEW c, c = WorkerId(s, w), NEW turn, turn = SlotState(s, w)'
         PROVE  SlotMoved(s, w, c, turn)
  <2> USE <1>move
  <2>1. c \in SlotCallers /\ CallerStream(c) = s /\ CallerWorker(c) = w BY Zenon, SlotCallerIds
  <2>2. SlotStates[c] = SlotState(s, w) /\ SlotHalts[c] = halt[s]
    BY Zenon, <2>1 DEF SlotStates, SlotHalts
  <2>3. SlotAmounts[c] = IF SlotState(s, w) = "idle" THEN 0 ELSE 1
    BY Zenon, <2>1, <2>2 DEF SlotAmounts
  <2>4. \A d \in SlotCallers :
           SlotState(CallerStream(d), CallerWorker(d))'
           = IF d = c THEN turn ELSE SlotState(CallerStream(d), CallerWorker(d))
    <3> SUFFICES ASSUME NEW d \in SlotCallers
                 PROVE  SlotState(CallerStream(d), CallerWorker(d))'
                        = IF d = c THEN turn ELSE SlotState(CallerStream(d), CallerWorker(d))
      OBVIOUS
    <3>1. PICK t \in Streams, v \in Workers : t = CallerStream(d) /\ v = CallerWorker(d)
      BY Zenon, SlotCallerIds
    <3>2. d = WorkerId(t, v) BY Zenon, <3>1, SlotCallerIds
    <3>3. SlotState(CallerStream(d), CallerWorker(d)) = SlotState(t, v)
          /\ SlotState(CallerStream(d), CallerWorker(d))' = SlotState(t, v)'
      BY Zenon, <3>1 DEF SlotState, CallerStream, CallerWorker, WorkerId
    <3>4. CASE d = c
      <4>1. t = s /\ v = w BY Zenon, <3>1, <3>4, <2>1
      <4> QED BY Zenon, <3>3, <3>4, <4>1
    <3>5. CASE d # c
      <4>1. t # s \/ v # w BY Zenon, <3>2, <3>5
      <4>2. worker'[t][v] = worker[t][v] BY Zenon, <4>1 DEF OnlyMoves
      <4>3. SlotState(t, v)' = SlotState(t, v) BY Zenon, <4>2 DEF SlotState
      <4> QED BY Zenon, <3>3, <3>5, <4>3
    <3> QED BY Zenon, <3>4, <3>5
  <2>5. SlotStates' = [SlotStates EXCEPT ![c] = turn]
    <3>1. SlotStates' = [d \in SlotCallers |-> SlotState(CallerStream(d), CallerWorker(d))']
      BY Zenon DEF SlotStates, SlotCallers, CallerStream, CallerWorker, WorkerId
    <3>2. \A d \in SlotCallers : SlotStates[d] = SlotState(CallerStream(d), CallerWorker(d))
      BY Zenon DEF SlotStates
    <3>3. SlotStates = [d \in SlotCallers |-> SlotStates[d]] BY Zenon DEF SlotStates
    <3> QED BY Zenon, <2>1, <2>4, <3>1, <3>2, <3>3
  <2>6. SlotAmounts' = [SlotAmounts EXCEPT ![c] = IF turn = "idle" THEN 0 ELSE 1]
    <3>1. SlotAmounts' = [d \in SlotCallers |-> IF SlotStates'[d] = "idle" THEN 0 ELSE 1]
          /\ SlotAmounts = [d \in SlotCallers |-> IF SlotStates[d] = "idle" THEN 0 ELSE 1]
      BY Zenon DEF SlotAmounts, SlotCallers
    <3>2. \A d \in SlotCallers : SlotStates'[d] = IF d = c THEN turn ELSE SlotStates[d]
      <4>1. SlotStates = [d \in SlotCallers |-> SlotStates[d]] BY Zenon DEF SlotStates
      <4> QED BY Zenon, <2>5, <4>1
    <3> QED BY Zenon, <2>1, <3>1, <3>2
  <2> QED BY Zenon, <2>1, <2>2, <2>3, <2>5, <2>6 DEF SlotMoved
<1>acquire. ASSUME PipelineInv, SlotBudget, NEW s \in Streams, NEW w \in Workers, AcquireSlot(s, w),
                   NEW c, c = WorkerId(s, w)
            PROVE  /\ c \in SlotCallers /\ SlotHalts' = SlotHalts /\ Clamp(vlm_slots, 1) = 1
                   /\ \E e :
                        /\ \/ SlotStates[c] = "idle" /\ e = Enter(vlm_slots, c)
                           \/ SlotStates[c] = "waiting" /\ e = vlm_slots /\ SlotAmounts[c] = 1
                        /\ TurnSeen(c, e, 1, SlotHalts[c], vlm_slots', SlotStates, SlotStates',
                                    SlotAmounts, SlotAmounts')
  <2> USE <1>acquire
  <2>1. PICK e : e = IF worker[s][w] = "slot_line" THEN Enter(vlm_slots, c) ELSE vlm_slots OBVIOUS
  <2>2. vlm_slots.capacity \in Nat \ {0} BY DEF SlotBudget, Budgets
  <2>3. Clamp(vlm_slots, 1) = 1 /\ Clamp(e, 1) = 1
    <3>1. PICK b : b = vlm_slots OBVIOUS
    <3>2. e.capacity = b.capacity
      <4>1. b \in [capacity : Nat \ {0}, used : Nat, line : Seq(1..(NStreams * Concurrency))]
        BY Zenon, <3>1 DEF SlotBudget, Budgets
      <4>2. Enter(b, c).capacity = b.capacity BY <4>1 DEF Enter
      <4> QED BY Zenon, <4>2, <3>1, <2>1
    <3> QED BY <3>1, <3>2, <2>2 DEF Clamp
  <2> DEFINE turn == TurnOf(e, c, 1, halt[s])
             place == CASE turn = "holding" -> "call" [] turn = "idle" -> "drop_job"
                        [] OTHER -> "slot_wait"
  <2>4. /\ worker[s][w] \in {"slot_line", "slot_wait"} /\ vlm_slots' = AfterTurn(e, c, 1, halt[s])
        /\ worker' = [worker EXCEPT ![s][w] = place] /\ halt' = halt
    BY Zenon, <2>1, <2>3 DEF AcquireSlot
  <2>5. turn \in {"holding", "idle", "waiting"} BY Zenon DEF TurnOf
  <2> HIDE DEF turn
  <2>6. /\ turn = "holding" => place = "call"
        /\ turn = "idle" => place = "drop_job"
        /\ turn = "waiting" => place = "slot_wait"
    BY <2>5
  <2> HIDE DEF place
  <2>7. OnlyMoves(s, w, place) BY Zenon, <2>4, OneWorkerMoves
  <2>8. worker'[s][w] = place BY Zenon, <2>7 DEF OnlyMoves
  <2>9. SlotState(s, w)' = turn
    <3>1. SlotState(s, w)' = IF place = "slot_wait" THEN "waiting"
                             ELSE IF HoldsSlot(place) THEN "holding" ELSE "idle"
      BY Zenon, <2>8 DEF SlotState, HoldsSlot
    <3> QED BY <3>1, <2>5, <2>6 DEF HoldsSlot
  <2>10. \/ worker[s][w] = "slot_line" /\ SlotState(s, w) = "idle" /\ e = Enter(vlm_slots, c)
         \/ worker[s][w] = "slot_wait" /\ SlotState(s, w) = "waiting" /\ e = vlm_slots
    BY <2>1, <2>4 DEF SlotState, HoldsSlot
  <2>11. PICK n : n = SlotState(s, w)' OBVIOUS
  <2>12. /\ c \in SlotCallers /\ SlotStates[c] = SlotState(s, w) /\ SlotHalts[c] = halt[s]
         /\ SlotAmounts[c] = IF SlotState(s, w) = "idle" THEN 0 ELSE 1
         /\ SlotStates' = [SlotStates EXCEPT ![c] = n]
         /\ SlotAmounts' = [SlotAmounts EXCEPT ![c] = IF n = "idle" THEN 0 ELSE 1]
    <3>1. SlotMoved(s, w, c, n) BY Zenon, <2>7, <2>11, <1>move
    <3> QED BY Zenon, <3>1 DEF SlotMoved
  <2>13. TurnSeen(c, e, 1, SlotHalts[c], vlm_slots', SlotStates, SlotStates', SlotAmounts, SlotAmounts')
    BY Zenon, <2>4, <2>9, <2>11, <2>12 DEF TurnSeen, turn
  <2>14. SlotHalts' = SlotHalts BY Zenon, <2>4 DEF SlotHalts
  <2>15. \/ SlotStates[c] = "idle" /\ e = Enter(vlm_slots, c)
         \/ SlotStates[c] = "waiting" /\ e = vlm_slots /\ SlotAmounts[c] = 1
    <3>1. "waiting" # "idle" OBVIOUS
    <3> QED BY Zenon, <3>1, <2>10, <2>12
  <2> QED BY Zenon, <2>3, <2>12, <2>13, <2>14, <2>15
<1>reset. ASSUME PipelineInv, SlotBudget, NEW s \in Streams, NEW w \in Workers, DropSlot(s, w),
                 NEW c, c = WorkerId(s, w)
          PROVE  /\ c \in SlotCallers /\ SlotHalts' = SlotHalts
                 /\ ResetSeen(c, 1, vlm_slots, vlm_slots', SlotStates, SlotStates', SlotAmounts, SlotAmounts')
  <2> USE <1>reset
  <2>1. /\ worker[s][w] = "drop_slot" /\ worker' = [worker EXCEPT ![s][w] = "drop_job"]
        /\ vlm_slots' = Release(vlm_slots, Clamp(vlm_slots, 1)) /\ halt' = halt
    BY Zenon DEF DropSlot
  <2>2. Clamp(vlm_slots, 1) = 1 BY DEF Clamp, Budgets, SlotBudget
  <2>3. OnlyMoves(s, w, "drop_job") BY Zenon, <2>1, OneWorkerMoves
  <2>4. worker'[s][w] = "drop_job" BY Zenon, <2>3 DEF OnlyMoves
  <2>5. "idle" = SlotState(s, w)' BY <2>4 DEF SlotState, HoldsSlot
  <2>6. SlotState(s, w) = "holding" BY <2>1 DEF SlotState, HoldsSlot
  <2>7. /\ c \in SlotCallers /\ SlotStates[c] = "holding"
        /\ SlotAmounts[c] = IF "holding" = "idle" THEN 0 ELSE 1
        /\ SlotStates' = [SlotStates EXCEPT ![c] = "idle"]
        /\ SlotAmounts' = [SlotAmounts EXCEPT ![c] = IF "idle" = "idle" THEN 0 ELSE 1]
    <3>1. SlotMoved(s, w, c, "idle") BY Zenon, <2>3, <2>5, <1>move
    <3> QED BY Zenon, <2>6, <3>1 DEF SlotMoved
  <2>8. (IF "holding" = "idle" THEN 0 ELSE 1) = 1 /\ (IF "idle" = "idle" THEN 0 ELSE 1) = 0
    OBVIOUS
  <2>9. SlotHalts' = SlotHalts BY Zenon, <2>1 DEF SlotHalts
  <2> QED BY Zenon, <2>1, <2>2, <2>7, <2>8, <2>9 DEF ResetSeen
<1> SUFFICES ASSUME PipelineInv, SlotBudget, HaltStep, [Next]_vars
             PROVE  CallersStep(SlotCallers, {1}, vlm_slots, vlm_slots', SlotStates, SlotStates',
                                SlotAmounts, SlotAmounts', SlotHalts, SlotHalts')
  OBVIOUS
<1>1. CASE SlotsStill
  BY Zenon, <1>1, <1>nothing, <1>halt DEF SlotsStill, CallersStep
<1>2. ASSUME NEW s \in Streams, NEW w \in Workers, AcquireSlot(s, w)
      PROVE  CallersStep(SlotCallers, {1}, vlm_slots, vlm_slots', SlotStates, SlotStates',
                         SlotAmounts, SlotAmounts', SlotHalts, SlotHalts')
  <2>1. 1 \in {1} OBVIOUS
  <2> QED BY Zenon, <1>2, <2>1, <1>acquire DEF CallersStep
<1>3. ASSUME NEW s \in Streams, NEW w \in Workers, DropSlot(s, w)
      PROVE  CallersStep(SlotCallers, {1}, vlm_slots, vlm_slots', SlotStates, SlotStates',
                         SlotAmounts, SlotAmounts', SlotHalts, SlotHalts')
  BY Zenon, <1>3, <1>reset DEF CallersStep
<1> QED BY Zenon, <1>1, <1>2, <1>3, SlotSteps

(* The same of buffered_bytes and the pages. *)
LEMMA PageCallerIds ==
  /\ \A c \in PageCallers : /\ CallerOwner(c) \in Streams /\ CallerPage(c) \in Pages
                            /\ PageId(CallerOwner(c), CallerPage(c)) = c
  /\ \A s \in Streams, w \in Pages :
        /\ PageId(s, w) \in PageCallers
        /\ CallerOwner(PageId(s, w)) = s /\ CallerPage(PageId(s, w)) = w
<1>1. ASSUME NEW c \in PageCallers
      PROVE  /\ CallerOwner(c) \in Streams /\ CallerPage(c) \in Pages
             /\ PageId(CallerOwner(c), CallerPage(c)) = c
  <2> DEFINE s == ((c - 1) \div MaxPages) + 1
  <2>1. s \in 1..NStreams /\ c - (s - 1) * MaxPages \in 1..MaxPages
    BY IdInverse, SizesAssumption DEF PageCallers
  <2>2. s = CallerOwner(c) BY DEF CallerOwner
  <2> HIDE DEF s
  <2>3. CallerPage(c) = c - (s - 1) * MaxPages
    BY <2>1, <2>2, SizesAssumption DEF CallerPage, PageId
  <2> QED BY <2>1, <2>2, <2>3, SizesAssumption DEF Streams, Pages, PageId, PageCallers
<1>2. ASSUME NEW s \in Streams, NEW w \in Pages
      PROVE  /\ PageId(s, w) \in PageCallers
             /\ CallerOwner(PageId(s, w)) = s /\ CallerPage(PageId(s, w)) = w
  <2>1. PageId(s, w) \in PageCallers BY Zenon, PageIds DEF PageCallers
  <2>2. PICK c \in PageCallers : c = PageId(s, w) BY Zenon, <2>1
  <2>3. PageId(CallerOwner(c), CallerPage(c)) = PageId(s, w) BY Zenon, <1>1, <2>2
  <2>4. PICK t \in Streams, v \in Pages : t = CallerOwner(c) /\ v = CallerPage(c)
    BY Zenon, <1>1
  <2>5. PageId(t, v) = PageId(s, w) BY Zenon, <2>3, <2>4
  <2>6. t = s /\ v = w BY <2>5, PageIds
  <2> QED BY Zenon, <2>1, <2>2, <2>4, <2>6
<1> QED BY Zenon, <1>1, <1>2

(* Page p of s stands where it stood, for as much. *)
PageStays(s, p) == PageState(s, p)' = PageState(s, p) /\ PageAmount(s, p)' = PageAmount(s, p)

LEMMA BytesStillBuffer == BytesStill => BufferStill
<1>1. ASSUME BytesStill, NEW t \in Streams
      PROVE  /\ \A p \in Pages : ProcessLease(t, p)' = ProcessLease(t, p)
             /\ reader'[t] = "process_wait" <=> reader[t] = "process_wait"
             /\ reader[t] = "process_wait" => started'[t] = started[t] /\ image'[t] = image[t]
  BY Zenon, <1>1 DEF BytesStill, Settled, KeepsLeases, KeepsLines
<1> QED BY Zenon, <1>1 DEF BufferStill, BytesStill

(* What buffered_bytes sees of one page that moves. *)
PageMoved(s, p, c, turn, n) ==
    /\ c \in PageCallers /\ PageStates[c] = PageState(s, p) /\ PageHalts[c] = halt[s]
    /\ PageAmounts[c] = PageAmount(s, p)
    /\ PageStates' = [PageStates EXCEPT ![c] = turn]
    /\ PageAmounts' = [PageAmounts EXCEPT ![c] = n]

(* Each step of the pipelines, seen from buffered_bytes. *)
LEMMA PagesSeen ==
  PipelineInv /\ PipelineInv' /\ ByteInv /\ HaltStep /\ [Next]_vars =>
    CallersStep(PageCallers, 0..MaxPageBytes, buffered_bytes, buffered_bytes',
                PageStates, PageStates', PageAmounts, PageAmounts', PageHalts, PageHalts')
<1>halt. ASSUME PipelineInv, HaltStep
         PROVE  Halting(PageCallers, PageHalts, PageHalts')
  <2> USE <1>halt
  <2>1. PICK owner : owner = [c \in PageCallers |-> CallerOwner(c)] OBVIOUS
  <2>2. owner \in [PageCallers -> Streams] BY Zenon, <2>1, PageCallerIds
  <2>3. 1 \in Pages BY SizesAssumption DEF Pages
  <2>4. \A s \in Streams : \E c \in PageCallers : owner[c] = s BY Zenon, <2>1, <2>3, PageCallerIds
  <2>5. /\ PageHalts = [c \in PageCallers |-> halt[owner[c]]]
        /\ PageHalts' = [c \in PageCallers |-> halt'[owner[c]]]
    BY Zenon, <2>1 DEF PageHalts, PageCallers, CallerOwner
  <2> QED BY Zenon, <2>2, <2>4, <2>5, HaltSeen
<1>nothing. ASSUME \A s \in Streams, p \in Pages : PageStays(s, p)
            PROVE  PageStates' = PageStates /\ PageAmounts' = PageAmounts
  <2> USE <1>nothing
  <2>1. \A c \in PageCallers :
           /\ PageState(CallerOwner(c), CallerPage(c))' = PageState(CallerOwner(c), CallerPage(c))
           /\ PageAmount(CallerOwner(c), CallerPage(c))' = PageAmount(CallerOwner(c), CallerPage(c))
    BY Zenon, PageCallerIds DEF PageStays
  <2> QED BY Zenon, <2>1 DEF PageStates, PageAmounts
<1>stays. ASSUME BufferStill, NEW s \in Streams, NEW p \in Pages
          PROVE  PageStays(s, p)
  <2> USE <1>stays
  <2>1. ProcessLease(s, p)' = ProcessLease(s, p) BY Zenon DEF BufferStill
  <2>2. /\ PageWaits(s, p)' <=> PageWaits(s, p)
        /\ PageWaits(s, p) => image'[s] = image[s]
    BY Zenon DEF BufferStill, PageWaits
  <2>3. PageState(s, p)' = PageState(s, p) BY Zenon, <2>1, <2>2 DEF PageState
  <2>4. PageAmount(s, p)' = PageAmount(s, p) BY Zenon, <2>1, <2>2 DEF PageAmount, BufferStill
  <2> QED BY Zenon, <2>3, <2>4 DEF PageStays
<1>move. ASSUME NEW s \in Streams, NEW p \in Pages,
                \A t \in Streams, q \in Pages : t # s \/ q # p => PageStays(t, q),
                NEW c, c = PageId(s, p), NEW turn, turn = PageState(s, p)', NEW n, n = PageAmount(s, p)'
         PROVE  PageMoved(s, p, c, turn, n)
  <2> USE <1>move
  <2>1. c \in PageCallers /\ CallerOwner(c) = s /\ CallerPage(c) = p BY Zenon, PageCallerIds
  <2>2. PageStates[c] = PageState(s, p) /\ PageHalts[c] = halt[s] /\ PageAmounts[c] = PageAmount(s, p)
    BY Zenon, <2>1 DEF PageStates, PageHalts, PageAmounts
  <2>3. \A d \in PageCallers :
           /\ PageState(CallerOwner(d), CallerPage(d))' = IF d = c THEN turn ELSE PageStates[d]
           /\ PageAmount(CallerOwner(d), CallerPage(d))' = IF d = c THEN n ELSE PageAmounts[d]
    <3> SUFFICES ASSUME NEW d \in PageCallers
                 PROVE  /\ PageState(CallerOwner(d), CallerPage(d))' = IF d = c THEN turn ELSE PageStates[d]
                        /\ PageAmount(CallerOwner(d), CallerPage(d))' = IF d = c THEN n ELSE PageAmounts[d]
      OBVIOUS
    <3>1. PICK t \in Streams, q \in Pages : t = CallerOwner(d) /\ q = CallerPage(d)
      BY Zenon, PageCallerIds
    <3>2. d = PageId(t, q) BY Zenon, <3>1, PageCallerIds
    <3>3. PageStates[d] = PageState(t, q) /\ PageAmounts[d] = PageAmount(t, q)
      BY Zenon, <3>1 DEF PageStates, PageAmounts
    <3>4. /\ PageState(CallerOwner(d), CallerPage(d))' = PageState(t, q)'
          /\ PageAmount(CallerOwner(d), CallerPage(d))' = PageAmount(t, q)'
      BY Zenon, <3>1 DEF CallerOwner, CallerPage, PageId
    <3>5. CASE d = c
      <4>1. t = s /\ q = p BY Zenon, <3>1, <3>5, <2>1
      <4> QED BY Zenon, <3>4, <3>5, <4>1
    <3>6. CASE d # c
      <4>1. t # s \/ q # p BY Zenon, <3>2, <3>6
      <4> QED BY Zenon, <3>3, <3>4, <3>6, <4>1 DEF PageStays
    <3> QED BY Zenon, <3>5, <3>6
  <2>4. /\ PageStates' = [d \in PageCallers |-> PageState(CallerOwner(d), CallerPage(d))']
        /\ PageAmounts' = [d \in PageCallers |-> PageAmount(CallerOwner(d), CallerPage(d))']
    BY Zenon DEF PageStates, PageAmounts, PageCallers, CallerOwner, CallerPage, PageId
  <2>5. /\ PageStates = [d \in PageCallers |-> PageStates[d]]
        /\ PageAmounts = [d \in PageCallers |-> PageAmounts[d]]
    BY Zenon DEF PageStates, PageAmounts
  <2>6. PageStates' = [PageStates EXCEPT ![c] = turn] BY Zenon, <2>1, <2>3, <2>4, <2>5
  <2>7. PageAmounts' = [PageAmounts EXCEPT ![c] = n] BY Zenon, <2>1, <2>3, <2>4, <2>5
  <2> QED BY Zenon, <2>1, <2>2, <2>6, <2>7 DEF PageMoved
<1>acquire. ASSUME PipelineInv, PipelineInv', ByteInv, NEW s \in Streams, AcquireProcess(s),
                   NEW c, c = PageId(s, started[s] + 1)
            PROVE  /\ c \in PageCallers /\ PageHalts' = PageHalts /\ image[s] \in 0..MaxPageBytes
                   /\ \E e, n :
                        /\ n = Clamp(buffered_bytes, image[s])
                        /\ \/ PageStates[c] = "idle" /\ e = Enter(buffered_bytes, c)
                           \/ PageStates[c] = "waiting" /\ e = buffered_bytes /\ PageAmounts[c] = n
                        /\ TurnSeen(c, e, n, PageHalts[c], buffered_bytes', PageStates, PageStates',
                                    PageAmounts, PageAmounts')
  <2> USE <1>acquire
  <2>1. PICK e : e = IF reader[s] = "process_line" THEN Enter(buffered_bytes, c) ELSE buffered_bytes
    OBVIOUS
  <2>2. PICK p : p = started[s] + 1 OBVIOUS
  <2>3. PICK n : n = Clamp(buffered_bytes, image[s]) OBVIOUS
  <2>4. buffered_bytes \in Budgets(PageCallers) /\ image[s] \in Nat /\ image[s] <= MaxPageBytes
    BY Zenon, PagesBehind DEF ByteInv, ProcessBudget, JobsAreQueued, PageCallers
  <2>5. n \in Nat /\ n > 0
    <3>1. n \in 1..buffered_bytes.capacity BY Zenon, <2>3, <2>4, ClampFacts
    <3> QED BY <3>1, <2>4 DEF Budgets
  <2>6. Clamp(e, image[s]) = n
    <3>1. PICK b \in Budgets(PageCallers) : b = buffered_bytes BY Zenon, <2>4
    <3>2. Enter(b, c).capacity = b.capacity BY DEF Enter, Budgets
    <3>3. e.capacity = b.capacity BY Zenon, <3>1, <3>2, <2>1
    <3> QED BY Zenon, <3>1, <3>3, <2>3 DEF Clamp
  <2>7. PICK turn : turn = TurnOf(e, c, n, halt[s]) OBVIOUS
  <2>8. PageTurn(s, p, n, turn)
    <3>1. PageTurn(s, started[s] + 1, Clamp(buffered_bytes, image[s]),
                   TurnOf(e, c, Clamp(e, image[s]), halt[s]))
      BY Zenon, <2>1, BytesKept DEF PageTurns
    <3> QED BY Zenon, <3>1, <2>2, <2>3, <2>6, <2>7
  <2>9. /\ reader[s] \in {"process_line", "process_wait"}
        /\ buffered_bytes' = AfterTurn(e, c, n, halt[s])
        /\ halt' = halt /\ started' = started /\ image' = image
    BY Zenon, <2>1, <2>6 DEF AcquireProcess
  <2>10. \A x : Clamp(buffered_bytes', x) = Clamp(buffered_bytes, x) BY Zenon, <2>8 DEF Clamp, PageTurn
  <2>11. ASSUME NEW t \in Streams, NEW q \in Pages, t # s \/ q # p PROVE PageStays(t, q)
    <3>1. ProcessLease(t, q)' = ProcessLease(t, q) BY Zenon, <2>8, <2>11 DEF PageTurn
    <3>2. PageWaits(t, q)' <=> PageWaits(t, q)
      <4>1. CASE t # s BY Zenon, <4>1, <2>8, <2>9 DEF PageWaits, PageTurn
      <4>2. CASE t = s
        <5>1. ~PageWaits(t, q) BY Zenon, <4>2, <2>2, <2>11 DEF PageWaits
        <5>2. ~PageWaits(t, q)' BY Zenon, <4>2, <2>2, <2>9, <2>11 DEF PageWaits
        <5> QED BY Zenon, <5>1, <5>2
      <4> QED BY Zenon, <4>1, <4>2
    <3>3. PageState(t, q)' = PageState(t, q) BY Zenon, <3>1, <3>2 DEF PageState
    <3>4. PageAmount(t, q)' = PageAmount(t, q) BY Zenon, <3>1, <3>2, <2>9, <2>10 DEF PageAmount
    <3> QED BY Zenon, <3>3, <3>4 DEF PageStays
  <2>12. /\ p \in Pages /\ turn \in {"holding", "idle", "waiting"} /\ ProcessLease(s, p) = 0
         /\ ProcessLease(s, p)' = IF turn = "holding" THEN n ELSE 0
         /\ PageWaits(s, p)' <=> turn = "waiting"
         /\ PageWaits(s, p) <=> reader[s] = "process_wait"
    BY Zenon, <2>2, <2>8, <2>9 DEF PageTurn, PageWaits
  <2>13. turn = PageState(s, p)'
    <3>1. PageState(s, p)' = IF turn = "waiting" THEN "waiting"
                             ELSE IF (IF turn = "holding" THEN n ELSE 0) > 0 THEN "holding" ELSE "idle"
      BY Zenon, <2>12 DEF PageState
    <3> QED BY <3>1, <2>5, <2>12
  <2>14. (IF turn = "idle" THEN 0 ELSE n) = PageAmount(s, p)'
    <3>1. PageAmount(s, p)' = IF turn = "waiting" THEN n ELSE IF turn = "holding" THEN n ELSE 0
      BY Zenon, <2>3, <2>9, <2>10, <2>12 DEF PageAmount
    <3> QED BY <3>1, <2>12
  <2>15. PageMoved(s, p, c, turn, IF turn = "idle" THEN 0 ELSE n)
    <3>1. c = PageId(s, p) BY Zenon, <2>2
    <3> QED BY Zenon, <3>1, <2>11, <2>12, <2>13, <2>14, <1>move
  <2>16. /\ c \in PageCallers /\ PageStates[c] = PageState(s, p) /\ PageHalts[c] = halt[s]
         /\ PageAmounts[c] = PageAmount(s, p)
         /\ PageStates' = [PageStates EXCEPT ![c] = turn]
         /\ PageAmounts' = [PageAmounts EXCEPT ![c] = IF turn = "idle" THEN 0 ELSE n]
    BY Zenon, <2>15 DEF PageMoved
  <2>17. TurnSeen(c, e, n, PageHalts[c], buffered_bytes', PageStates, PageStates', PageAmounts, PageAmounts')
    BY Zenon, <2>7, <2>9, <2>16 DEF TurnSeen
  <2>18. \/ PageStates[c] = "idle" /\ e = Enter(buffered_bytes, c)
         \/ PageStates[c] = "waiting" /\ e = buffered_bytes /\ PageAmounts[c] = n
    <3>1. CASE reader[s] = "process_line"
      <4>1. ~PageWaits(s, p) BY <3>1, <2>12
      <4>2. PageState(s, p) = "idle" BY <4>1, <2>12 DEF PageState
      <4> QED BY Zenon, <3>1, <4>2, <2>1, <2>16
    <3>2. CASE reader[s] = "process_wait"
      <4>1. PageState(s, p) = "waiting" /\ PageAmount(s, p) = n
        BY Zenon, <3>2, <2>3, <2>12 DEF PageState, PageAmount
      <4>2. "process_line" # "process_wait" OBVIOUS
      <4> QED BY Zenon, <3>2, <4>1, <4>2, <2>1, <2>16
    <3> QED BY Zenon, <2>9, <3>1, <3>2
  <2>19. PageHalts' = PageHalts BY Zenon, <2>9 DEF PageHalts
  <2>20. image[s] \in 0..MaxPageBytes BY <2>4, SizesAssumption
  <2> QED BY Zenon, <2>3, <2>16, <2>17, <2>18, <2>19, <2>20
<1>reset. ASSUME PipelineInv, PipelineInv', ByteInv, NEW s \in Streams, NEW w \in Workers, DropJob(s, w),
                 NEW c, c = PageId(s, job[s][w].page)
          PROVE  /\ c \in PageCallers /\ PageHalts' = PageHalts
                 /\ \E n : ResetSeen(c, n, buffered_bytes, buffered_bytes', PageStates, PageStates',
                                     PageAmounts, PageAmounts')
  <2> USE <1>reset
  <2>1. PICK p : p = job[s][w].page OBVIOUS
  <2>2. PICK n : n = Clamp(buffered_bytes, job[s][w].bytes) OBVIOUS
  <2>3. PageReset(s, p, n) BY Zenon, <2>1, <2>2, BytesKept DEF PageResets
  <2>4. n \in Nat /\ n > 0
    <3>1. buffered_bytes \in Budgets(PageCallers) BY Zenon DEF ByteInv, ProcessBudget, PageCallers
    <3>2. job \in [Streams -> [Workers -> Jobs]] BY Zenon DEF PipelineInv, ThreadsOK
    <3>3. PICK m \in Nat : m = job[s][w].bytes
      <4>1. job[s][w] \in Jobs BY Zenon, <3>2
      <4> QED BY <4>1 DEF Jobs
    <3>4. n \in 1..buffered_bytes.capacity BY Zenon, <2>2, <3>1, <3>3, ClampFacts
    <3> QED BY <3>1, <3>4 DEF Budgets
  <2>5. halt' = halt /\ worker[s][w] = "drop_job" BY Zenon DEF DropJob
  <2>6. p # started[s] + 1
    <3>1. Busy(s, w) BY <2>5 DEF Busy
    <3>2. p \in 1..jobs[s].taken BY Zenon, <2>1, <3>1, PagesBehind
    <3> QED BY <3>2, PagesBehind
  <2>7. \A x : Clamp(buffered_bytes', x) = Clamp(buffered_bytes, x) BY Zenon, <2>3 DEF Clamp, PageReset
  <2>8. \A t \in Streams, q \in Pages : PageWaits(t, q)' <=> PageWaits(t, q)
    BY Zenon, <2>3 DEF PageWaits, PageReset
  <2>9. ASSUME NEW t \in Streams, NEW q \in Pages, t # s \/ q # p PROVE PageStays(t, q)
    <3>1. ProcessLease(t, q)' = ProcessLease(t, q) BY Zenon, <2>3, <2>9 DEF PageReset
    <3>2. PageState(t, q)' = PageState(t, q) BY Zenon, <3>1, <2>8 DEF PageState
    <3>3. image' = image BY Zenon, <2>3 DEF PageReset
    <3>4. PageAmount(t, q)' = PageAmount(t, q) BY Zenon, <3>1, <3>3, <2>7, <2>8 DEF PageAmount
    <3> QED BY Zenon, <3>2, <3>4 DEF PageStays
  <2>10. /\ p \in Pages /\ ~PageWaits(s, p) /\ ~PageWaits(s, p)'
         /\ ProcessLease(s, p) = n /\ ProcessLease(s, p)' = 0
         /\ buffered_bytes' = Release(buffered_bytes, n)
    <3>1. ~PageWaits(s, p) BY Zenon, <2>6 DEF PageWaits
    <3> QED BY Zenon, <2>3, <2>8, <3>1 DEF PageReset
  <2>11. PageState(s, p) = "holding" /\ PageAmount(s, p) = n
    <3>1. PageState(s, p) = IF n > 0 THEN "holding" ELSE "idle" BY Zenon, <2>10 DEF PageState
    <3> QED BY <3>1, <2>4, <2>10 DEF PageAmount
  <2>12. "idle" = PageState(s, p)' /\ 0 = PageAmount(s, p)'
    <3>1. PageState(s, p)' = IF 0 > 0 THEN "holding" ELSE "idle" BY Zenon, <2>10 DEF PageState
    <3>2. PageAmount(s, p)' = 0 BY Zenon, <2>10 DEF PageAmount
    <3> QED BY <3>1, <3>2
  <2>13. PageMoved(s, p, c, "idle", 0)
    <3>1. c = PageId(s, p) BY Zenon, <2>1
    <3> QED BY Zenon, <3>1, <2>9, <2>10, <2>12, <1>move
  <2>14. PageHalts' = PageHalts BY Zenon, <2>5 DEF PageHalts
  <2> QED BY Zenon, <2>10, <2>11, <2>13, <2>14 DEF PageMoved, ResetSeen
<1> SUFFICES ASSUME PipelineInv, PipelineInv', ByteInv, HaltStep, [Next]_vars
             PROVE  CallersStep(PageCallers, 0..MaxPageBytes, buffered_bytes, buffered_bytes',
                                PageStates, PageStates', PageAmounts, PageAmounts',
                                PageHalts, PageHalts')
  OBVIOUS
<1>1. ASSUME BufferStill
      PROVE  CallersStep(PageCallers, 0..MaxPageBytes, buffered_bytes, buffered_bytes',
                         PageStates, PageStates', PageAmounts, PageAmounts', PageHalts, PageHalts')
  <2>1. PageStates' = PageStates /\ PageAmounts' = PageAmounts
    BY Zenon, <1>1, <1>stays, <1>nothing
  <2>2. Halting(PageCallers, PageHalts, PageHalts') BY Zenon, <1>halt
  <2> QED BY Zenon, <1>1, <2>1, <2>2 DEF BufferStill, CallersStep
<1>2. ASSUME NEW s \in Streams, AcquireProcess(s)
      PROVE  CallersStep(PageCallers, 0..MaxPageBytes, buffered_bytes, buffered_bytes',
                         PageStates, PageStates', PageAmounts, PageAmounts', PageHalts, PageHalts')
  <2>1. PICK c, m : c = PageId(s, started[s] + 1) /\ m = image[s] OBVIOUS
  <2>2. /\ c \in PageCallers /\ PageHalts' = PageHalts /\ m \in 0..MaxPageBytes
        /\ \E e :
             /\ \/ PageStates[c] = "idle" /\ e = Enter(buffered_bytes, c)
                \/ /\ PageStates[c] = "waiting" /\ e = buffered_bytes
                   /\ PageAmounts[c] = Clamp(buffered_bytes, m)
             /\ TurnSeen(c, e, Clamp(buffered_bytes, m), PageHalts[c], buffered_bytes',
                         PageStates, PageStates', PageAmounts, PageAmounts')
    BY Zenon, <1>2, <2>1, <1>acquire
  <2> QED BY Zenon, <2>2 DEF CallersStep
<1>3. ASSUME NEW s \in Streams, NEW w \in Workers, DropJob(s, w)
      PROVE  CallersStep(PageCallers, 0..MaxPageBytes, buffered_bytes, buffered_bytes',
                         PageStates, PageStates', PageAmounts, PageAmounts', PageHalts, PageHalts')
  BY Zenon, <1>3, <1>reset DEF CallersStep
<1> QED BY Zenon, <1>1, <1>2, <1>3, ByteSteps, BytesStillBuffer, BytesKept

LEMMA CallersAtStart ==
  ASSUME Init, PipelineInv
  PROVE  /\ SlotStates = [c \in SlotCallers |-> "idle"] /\ SlotAmounts = [c \in SlotCallers |-> 0]
         /\ SlotHalts = [c \in SlotCallers |-> FALSE]
         /\ PageStates = [c \in PageCallers |-> "idle"] /\ PageAmounts = [c \in PageCallers |-> 0]
         /\ PageHalts = [c \in PageCallers |-> FALSE]
<1>1. \A s \in Streams : reader[s] = "idle" /\ WorkersGone(s) /\ jobs[s] = NewChannel /\ halt[s] = FALSE
  BY Zenon DEF Init, WorkersGone
<1>2. \A s \in Streams, w \in Workers : SlotState(s, w) = "idle"
  <2>1. \A s \in Streams, w \in Workers : worker[s][w] = "exited" BY Zenon, <1>1 DEF WorkersGone
  <2>2. ~HoldsSlot("exited") /\ "exited" # "slot_wait" BY DEF HoldsSlot
  <2> QED BY Zenon, <2>1, <2>2 DEF SlotState
<1>3. \A s \in Streams, p \in Pages : PageState(s, p) = "idle" /\ PageAmount(s, p) = 0
  <2>1. Empty(NewChannel) BY DEF Empty, NewChannel
  <2>2. \A s \in Streams, p \in Pages : ProcessLease(s, p) = 0 BY Zenon, <1>1, <2>1, NothingLeased
  <2>3. ~(0 > 0) /\ "idle" # "process_wait" OBVIOUS
  <2>4. \A s \in Streams, p \in Pages : ~PageWaits(s, p) BY Zenon, <1>1, <2>3 DEF PageWaits
  <2> QED BY Zenon, <2>2, <2>3, <2>4 DEF PageState, PageAmount
<1>4. SlotStates = [c \in SlotCallers |-> "idle"] BY Zenon, <1>2, SlotCallerIds DEF SlotStates
<1>5. SlotAmounts = [c \in SlotCallers |-> 0] BY Zenon, <1>4 DEF SlotAmounts
<1>6. PageStates = [c \in PageCallers |-> "idle"] /\ PageAmounts = [c \in PageCallers |-> 0]
  BY Zenon, <1>3, PageCallerIds DEF PageStates, PageAmounts
<1>7. SlotHalts = [c \in SlotCallers |-> FALSE] /\ PageHalts = [c \in PageCallers |-> FALSE]
  BY Zenon, <1>1, SlotCallerIds, PageCallerIds DEF SlotHalts, PageHalts
<1> QED BY Zenon, <1>4, <1>5, <1>6, <1>7
=============================================================================
