# TLA+ verification of grpc-vlm-convert

The service converts page images to documents: a client streams PNG pages over
gRPC (or posts them over HTTP), the service asks an OpenAI-compatible VLM
endpoint to read each page, maps the answer to a `Document` fragment, and streams
one event per page back. This directory holds a model of it in TLA+, the TLC
configurations that check the model on small instances, and TLAPS proofs.

Paths such as `src/service/budget.h` are relative to the repository.

## 1. The system

State that outlives a function call, and who touches it:

| Part | State | Operations | Threads |
|---|---|---|---|
| `Budget`, `Lease` (`src/service/budget.h`) | `used_`, `line_` | `acquire`, `release` | every reader and worker of every stream |
| `Channel` (`src/service/vlm_convert_service.cpp:25`) | `queue_`, `closed_` | `push`, `pop`, `pop_for`, `close` | reader, workers, writer of one stream |
| `ConvertPagesCore` | `started`, `ok`, `page_failed`, `halt`, `client_gone`, the two channels, `stream_bytes` | the read loop, the worker loop, the writer loop, the end of the stream | 1 RPC thread, up to `concurrency` workers, 1 writer per stream |
| the service object | `buffered_bytes_`, `vlm_slots_`, six counters | | all streams |
| `generate`, `CallGuard` (`src/vlm_client.cpp`) | attempts, deadline, `tripped_`, the watched HTTP client | attempts, back-off, watchdog | the worker and a watchdog thread per call |
| HTTP gateway (`src/http_gateway.cpp`) | the body being parsed, the chunked response | `/convert`, `/convert/stream` | the HTTP library's pool |
| `main` (`src/main.cpp`) | the signal flag, two servers, two helper threads | start, shutdown | main, signal handler, shutdown, metrics |
| options, presets, configuration, endpoint parsing | none | decision tables | |
| mappers (`src/mapping/`) | per page: pending captions, lists, table grids, crop budget, warnings | text to document | the worker |

How they interact: the reader tests `halt`, reads a message, checks it, waits for
the page's bytes in the stream's budget and then in the process's, announces the
page on `events` and queues it on `jobs`. A worker pops a job, skips it when the
stream has halted, waits for one of the process's call slots, calls the endpoint
and maps the answer, counts it, queues the answer, and gives back the slot and
then the bytes. The writer takes events to the transport and is the only thread
that asks it whether the client is still there. Whoever finds out that nobody
wants the answers sets `halt`. When the read loop ends the reader closes `jobs`,
joins the workers, closes `events`, joins the writer, and decides the status.

## 2. Modules

| Module | Models |
|---|---|
| `Budget` | `Budget` and `Lease` as operators, one per critical section |
| `BudgetClients` | any number of threads sharing a `Budget`; what it promises |
| `BudgetLemmas`, `BudgetProofs` | facts about lines and totals; the theorems about `BudgetClients` |
| `Channel` | `Channel<T>` as operators on a log and a read position |
| `ConvertPages` | `ConvertPagesCore` for several streams at once |
| `ConvertBudgets` | what the leases of `ConvertPages` add up to, its invariant of the leases, and how a shared budget sees pages and workers |
| `ConvertRefinement` | `ConvertPages` implements `BudgetClients`, for both shared budgets |
| `ConvertInvariant` | the inductive invariant of `ConvertPages` without its budgets, and of its counters |
| `ConvertProofs` | each action keeps both, and the theorems that follow from the first |
| `ConvertLeaseProofs` | each action keeps the invariant of the leases, and what a budget sees of it |
| `ConvertTheorems` | the theorems about the counters and the leases, and the two refinements |
| `VlmPromise` | what `generate()` promises a worker |
| `VlmCall`, `VlmCallProofs` | `generate()` and `CallGuard`, caller and watchdog; the theorems about them |
| `Endpoint`, `ConvertOptions`, `Config` | endpoint parsing, the checks on a request's options, the environment, as operators |
| `HttpGateway` | the HTTP handlers |
| `Server`, `ServerProofs` | the process: `main()`, its threads and signals, with the gateway, configuration and option checks; the theorems about it |
| `Document`, `Tables`, `SpanCells`, `PageRaster` | the fragment being built, table algorithms, span placement, the crop budget |
| `DocTags`, `DocTagsProofs` | `map_doctags`, one action per kind of token; the theorems about it and about the caps of a table |
| `Layout`, `MarkupTree` | `LayoutWriter` and the markup parser's tree, as operators |
| `Chandra`, `Blocks`, `DeepSeek`, `DocLang` | the layout mappers (`Blocks`: dots.ocr, Nemotron Parse v2 and v3.5) |
| `Mapper` | `map_response`: every format, Markdown, HTML, OTSL and plain text included; the properties of a page |
| `MCBudget`, `MCBudgetHalted`, `MCConvert`, `MCVlmCall`, `MCServer`, `MCMapper` | the instances TLC checks |

### Budget

A waiter's list node is named by its caller, and a caller stands in a line at most
once. `Acquire` joins the line and takes the first turn of `acquire()`'s loop under
one lock; `Wake` is a later turn; `Halt` turns the probe of some callers true at
once. The condition variable is left out: `wait_for` also returns after
`kPollInterval`, so a waiter may look again at any time.

### ConvertPages

Program counters `reader[s]`, `worker[s][w]` and `writer[s]` say where a thread of
stream `s` is; the other variables carry the names of the code's. Each action is
one access to something another thread tests or waits for.

| Action | Code |
|---|---|
| `RefuseOptions`, `Open` | the checks on the first message; the threads start |
| `TestHalted`, `ReadEnd`, `ReadMessage` | the `while` test and the checks of the read loop, in their order (`Verdict`) |
| `AcquireStream`, `AcquireProcess` | admission; an empty lease ends the loop |
| `Announce`, `Enqueue` | `PageStarted` on `events`, then the job on `jobs` |
| `CloseJobs`, `CloseEvents`, `Finish`, `WriteTrailer` | the end of the stream |
| `PopJob`, `ExitWorker`, `SkipOrGoOn`, `AcquireSlot` | a worker up to its call |
| `Answer`, `CutCall`, `Abort`, `DropSlot`, `DropJob` | the answer, and the end of the iteration |
| `WriterTurn`, `WriteEvent`, `WriteFails` | the writer |
| `Cancel` | the client or its deadline |

A page is named by the order of its admission; its image is a number of bytes.
`generate()` and the mapper together answer with a document, fail with a
`PageRaw`, or are cut short once the stream has halted. Two merged steps:
counting a page and queueing its event (the counters are read only after the
workers are joined), and the release of both byte leases of a job.

A channel is its log of everything ever pushed and the number of values taken;
the queue is what lies between. The log is what the properties about lost,
doubled and reordered events compare with.

### VlmCall

`at` says where the caller is in `generate()`, `wd` where the watchdog is in
`watch()`; `mutex`, `woken`, `client`, `tripped`, `by_caller` and `done` are the
guard's members. `tripped()` is two steps, a look and a store, because the caller
calls it without the lock. `Register` and `Unregister` are `guard.watch(&client)`
and `guard.watch(nullptr)`, and the second also ends the client's scope. httplib is
external: `BeginConnect` takes the lock that `stop()` needs and holds it until the
connect ends; `Stop` waits for it and then shuts the socket, if there is one.

Time is a counter of ticks, and `Tick` is taken only when no thread has a step to
take now (`Busy`) and nothing is due. That is what lets a bound on time be stated
at all: the code's own latency counts as zero. `left_at` is the tick at which the
caller's probe turned true, `wakeAt`, `sleepUntil`, `connectEnd` and `attemptEnd`
are the ends of the waits.

`VlmPromise` is the call as `ConvertPages` uses it: one outcome, `cancelled` only
for a caller that left and `budget` only when the time is spent. The refinement
mapping reads `left` from the probe, `spent` from the clock, `outcome` from the
result once the guard is joined.

### Server

`Load`, `StartGrpc`, `StartHttp`, `StartThreads`, `WaitReturns`, `StopHttp`,
`JoinHttp`, `Wake`, `JoinShutdown` and `JoinMetrics` are `main()` in its order;
`Unwind` is the way out when the gateway cannot bind. `Signal` is the handler, which
writes a byte to `pipe`; `ReadPipe` and `ShutdownEnds` are the shutdown thread.
gRPC's server is external: after `Shutdown` it takes no call, and is down when none
runs. `Receive`, `PipelineWrites`, `PipelineReturns` and `HangUp` (module
`HttpGateway`) are a request from its bytes to its answer; `Receive` runs the checks
in the order of the code: token, path, size, body, then the options
(`OptionsVerdict`), whose checks are in the order of `ConvertPagesCore`.

An endpoint is a record of its parts and a host a sequence of labels, so that two
spellings of one endpoint are different values with the same origin and route.

### Mapper

A response is a sequence of tokens. DocTags, Markdown and HTML are read token by
token, with the pending element, caption and OTSL body as state, since what they do
depends on the order in which things are left unfinished. The layout formats parse
the whole response first; there `ReadChunk` adds one chunk of an alphabet to the
response, and one step maps what has been read so far (`Deliver`). So every response
of up to `tokens` chunks is mapped, the malformed ones too.

Text is a name for the place it was read at, which is how lost, doubled and moved
text is seen; a box is the number of its block, 0 for none. A table's cell carries
the length of its text where only the byte cap asks. A picture's crop has an area
and a URI length. `heard` collects the text a format has a place for and `sawTable`
whether a table with a row in it was read; no action tests them.

`ParseOtslGrid`, `ChandraTableCells`, `DeepSeekTableCells`, `LatexCells`,
`FillSpanTable`, `FillTableData`, `ParseMarkup`, `InlineRuns` and `Dispatch` are the
algorithms as functions. Those over markup trees are recursive, so the theorems are
about `map_doctags` only, whose module uses none of them: `DocTagsSpec` is its part of
`Mapper`'s specification.

## 3. What is checked

| Run | Instance | Properties |
|---|---|---|
| `budget` | 3 callers, capacity 3, amounts 0, 2, 4 | `Balanced`, `LineIsTheWaiters`, `NoOvertaking`, `EveryWaiterServed`, `HaltedWaiterLeaves` |
| `convert` | 1 stream, 2 workers, 2 pages, 3 messages of every kind | `AnsweredOnceAfterStart`, `OkAnswersEveryPage`, `TrailerTellsTheCounts`, `AbortedWasExplained`, `HaltHasACause`, `MetricsCountStreams`, `NoPushAfterClose`, and `PipelineInv` |
| `convert_stream` | 1 stream, 2 workers, 1 slot, pages of 1 and 2 bytes, 3 bytes of buffer | `LeasesMatchPages`, `NothingLeftBehind`, `UploadFirstEnds`, `SlotsAreABudget` |
| `convert_shared` | 2 streams with a page of 2 bytes, 3 bytes of shared buffer, one client that may cancel | `CapsHold`, `CancelledStreamEnds`, `EveryStreamEnds`, `BufferIsABudget` |
| `vlm_call` | 2 retries, a call without time and one of 5 ticks, connect timeout 3, slack 2 | `StopsLiveClient`, `NoAttemptOnceTripped`, `EndsPromptly`, `KeepsPromise` |
| `server` | 23 environments, 34 bodies, 4 paths, 1 request, 1 call, 2 signals | `NothingOutlivesMain`, `AcceptedIsAllowed`, `AnswerTellsTheOutcome`, `LargestPageFits`, `SignalEndsProcess` |
| `mapper` | responses of 3 to 6 tokens in 13 formats, tables of at most 4 by 3 and 8 cells, 2 crops | `TreeIsSound`, `TextKeptOnce`, `OrderKept`, `CropsAccounted`, `GridsAreSound`, `CutTablesTold`, `BlocksAreUnique`, `CaptionsBelong` |
| `budget_empty_lease` | 2 callers, and a history of who was halted before its amount fitted | finding 1 |
| `convert_failed_page` | 1 stream, 1 worker | finding 2 |
| `doclang_code_caption` | DocLang float groups, 3 chunks | finding 3 |
| `inline_block_twice` | dots.ocr, 2 blocks | finding 4 |
| `wide_cell_dropped` | HTML tables with a wide span, 3 chunks | finding 5 |

Why these bounds: capacity 3 with amounts 0, 2 and 4 has a floor, a ceiling, a
request that fits beside another and one that does not, and three callers are the
fewest for a waiter in the middle of a line. Two pages and two workers are the
fewest for a page taken twice, answered out of order, or left in the queue when
one worker leaves; three messages reach the page cap of two. Two streams whose
pages do not fit together wait for each other's bytes, and two workers with one slot
wait for each other's slot. A shared run with both kinds of wait has too many states:
that two streams use the slots as a budget is a theorem (`SlotsRefineBudget`), and that
a halted caller leaves a budget's line is checked in `budget`.
`MaxReads` bounds what a client sends; `Cancellers` says which clients may cancel: in
`convert_shared` one of the two, so that it can leave while the other stream, whose
client stays, keeps the bytes it waits for.

`vlm_call`: two retries are the fewest for a second back-off that is longer than the
first; five ticks hold three attempts, and a connect of three can begin in time and
end late. `Horizon` stops the clock after every timeout. `server`: each environment
and each body differs from a plain one in the fields one check reads, or in two that
a check relates, so that each check refuses something and lets something through;
two signals can meet at every place of `main()`. Conversions are independent of
each other in the gateway, so one request is enough; `MaxEvents` bounds what it
writes. `mapper`: the caps are small so that tables and crops cross each of them
(rows, columns, cells, grid bytes; crops, area, bytes) within a response; each
alphabet holds the tokens that one part of a mapper treats differently, and four
tokens let an element be opened, filled, left open and met again.

Fairness. `ServerFairness`: a thread that can go on does, which the scheduler, the
channels' condition variables and the budgets' polling give; and once the
transport is gone `read()` and `write()` return. Nothing else is assumed for
`CancelledStreamEnds`: the endpoint may never answer, no other client moves, and the
other stream may keep its leases for ever, so the reader ends only because `acquire`
polls `halted`. It and `EveryStreamEnds` are stated as what is true again and again:
a stream starts once, ends once and its client leaves once, so that is the same as
each stream's leads-to and cheaper to check.
`CallsEnd` (every call is bounded by `vlm_timeout_seconds`), `ClientSends` and
`ClientReads` are hypotheses of `EveryStreamEnds`; `UploadFirstEnds` replaces
`ClientReads` by a client that reads only after its upload.

In `VlmCall` a thread that can go on does, a wait that is due ends, and time passes;
strong fairness where the other thread can take the mutex again and again. Nothing is
assumed of the endpoint: it need not answer, accept, or close, and a connect ends
only by its own timeout. In `Server` threads go on, and once the gRPC server drains
its calls end: `Shutdown` cancels them at its deadline, and
`CancelledStreamEnds` is what a cancelled call does. A conversion behind the gateway
returns (`EveryStreamEnds`); no client is assumed to stay or to read. `Mapper` has
no fairness: the mappers are loops over a finite response, and what is checked
there is safety.

### Findings

1. `budget.h:27-31` says that `acquire` blocks until the amount fits and that when
   `halted` turns true first the returned lease is empty. The loop tests the fit
   first (line 104) and asks `halted` only then, so a waiter whose stream halted while
   its amount did not fit is granted it when a lease comes back before its next
   turn. Every caller copes with that (`LeasesMatchPages`).
2. `vlm_convert_service.cpp:443-444` says that a stream with a failed page under
   `abort_on_error` fails `ABORTED` "whatever happens to the rest". The final
   checks look at `status` first, so a message refused afterwards decides the
   status.
3. `docs/design.md:121` lists "float groups with caption and footnote satellites".
   For a group around code, `code_group` reads `<text>` and `<footnote>` only, and
   the text of a `<caption>` is lost (`doclang.cpp:840`).
4. `layout.h:262-263` says that `add_inline_text` is "False when the text holds no
   inline markup (the caller then adds plain text)". A stray closing tag makes it
   false after it has added an item, and the block is in the page twice
   (`chandra.cpp:799`).
5. `docs/design.md:167-170` says that whatever was cut is reported, "so a cut table
   never passes for a complete one". A cell whose span reaches past four times the
   column cap is dropped with the rest of its row before the table is measured
   (`layout.cpp:195`), and no warning follows.

Observations that are not runs. `docs/design.md:125` says that dots.ocr captions
link to the adjacent picture, table or code; `link_adjacent_captions` counts code as
a possible owner and then links nothing to it. In the gateway,
`serialize_failed && status.ok()` cannot be: a write that returned false halts the
stream. HTTP requests are not cancelled by a signal; the gateway waits for them.
And: `halt` is tested before `read()`, so a
reader already inside `read()` when its stream halts takes one more message and,
if it fits, admits it; `docs/design.md:375-376` says that nothing more is read.

## 4. What is proved

Every safety property of the runs about budgets, the pipeline, the VLM call and the
server is a theorem, for every value of the constants; of the mapper's, the ones about
crops and about reporting a cut table, for DocTags.

`BudgetProofs`, for every number of callers, capacity and set of amounts:
`TypeCorrect`, `Conservation`, `LineExact` and `FirstComeFirstServed`. The
inductive invariant `IInv` joins `TypeOK`, `LineIsTheWaiters` and `Balanced`:
`Balanced` needs the line, since a caller that joins must not be in it already.
`EraseLemma` says what taking a node out of the line does to membership, order and
uniqueness. `FirstComeFirstServed` follows: only the front may take, so whoever
still waits stands behind it. `Balanced` is about a sum over the callers, a fold of
the community modules. Its laws (a value changes, the sum changes by the
difference) are `Totals` in `BudgetLemmas`; in place of an induction, each is shown by
taking a smallest set for which it fails.

`ConvertProofs`, for every number of streams, workers, pages and messages and
every size of the budgets: `PipelineHolds` (the inductive invariant) and, from it,
`HaltIsCaused`, `AnswersFollowStarts`, `OkIsWhole`, `AbortIsExplained` and
`ClosedStaysClosed`. The assumptions are the ranges of the constants
(`SizesAssumption`, `MessagesAssumption`, `RequestsAssumption`). The budgets do not
occur in the invariant: these results hold whatever a budget grants.

`PipelineInv` (module `ConvertInvariant`, also an invariant of run `convert`) joins
the types of what the threads keep and, for each stream:

| Part | Needed because |
|---|---|
| `Unopened` | `Open` must find the state `Init` left |
| `ReaderPlace` | the reader's place tells which channels are closed and who has been joined: a push finds its channel open, and `Finish` may trust the counters |
| `JobPlace` | pages leave `jobs` in order and two workers never hold the same one |
| `Drained` | worker 1 always runs and leaves only once `jobs` is closed and empty, so an OK stream leaves no page behind |
| `LogOrder` | announced before answered, neither twice, and what a worker still owes is not in the log |
| `Accounted` | while the stream has not halted, a page taken from `jobs` is answered or owed |
| `Causes` | every setting of `halt` has a reason; a failed page is in the log |
| `WirePlace` | the writer's place relates what was popped and what was sent |
| `Ending` | what the checks after the joins established stays true |

There is a lemma for the steps of each thread (`ReaderKeeps`, `WorkerKeeps`,
`WriterKeeps`), with a step for each action. First it says, for one stream and in
terms of the action's effect only, that `StreamInv` is kept (`flat`, `moves`); then
that the action has that effect, keeps the types and leaves the other streams alone.
`OneStream` puts them together.

`CountsHold` (`ConvertTheorems`) adds `CountInv`: what `started`, `ok` and
`page_failed` count, on three threads, are the events of each kind in the log, and the
process's counters are cardinalities of sets of streams. `ConvertProofs` shows that
each step keeps it, given what one event more does to a count of events and one stream
more to a cardinality (`EventsCount`, `StreamsCount`); `ConvertTheorems` proves those
two facts of finite sets. `TrailerIsRight` and `StreamsAreCounted` follow.
That the trailer's numbers add up needs `PipelineInv` too: an OK stream has answered
each page once, so its answers are as many as its pages.

The rest of `ConvertTheorems` is about what the pages hold. `LeaseInv` (module `ConvertBudgets`)
is inductive together with `PipelineInv`:

| Part | Needed because |
|---|---|
| `JobsAreQueued` | the job a worker drops has the bytes that were admitted with it |
| `StreamBudget` | the stream's budget has lent what its pages in the pipeline hold, and only the reader stands in its line |
| `ProcessBudget` | the same for all streams together; a page is in the line exactly while its reader waits there |
| `SlotBudget` | as many slots are lent as workers are between `acquire` and `slot.reset()`; a worker is in the line exactly while it waits |

`NoLeaseLeaks`, `CapsAreKept`, `DoneLeavesNothing` and `TypesHold` follow. A step
either leaves every page's leases alone (`ByteSteps`; in `Enqueue` and `PopJob` a
lease moves to another thread with its page) or changes one page's (`BytesKept`), and
then `Totals` gives the sum of its stream and of all streams.

`SlotsRefineBudget` and `BufferRefinesBudget` prove that `ConvertPages` implements
`BudgetClients` twice. A caller of `vlm_slots` is a worker, a caller of
`buffered_bytes` a page; its state is read from the thread's place (`SlotState`,
`PageState`), its probe from `halt`. Each step of a stream is `Acquire`, `Wake`,
`Reset`, `Halt` or a stutter (`SlotsSeen`, `PagesSeen`); `LeaseInv` is needed because a lease must be given
back with the amount it was taken with, and a caller must be in the line when its
place says so. What is proved of every `Budget` (first come first served among
them) so holds for both.

`VlmCallProofs`, for every set of timeouts, number of retries, back-off, interval and
slack (`TimesAssumption`): `StopsLiveClientAlways`, `NoAttemptAlways`,
`EndsPromptlyAlways` and `KeepsPromiseSafely`, the safety half of the refinement.
The inductive invariant has, beside the types:

| Part | Needed because |
|---|---|
| `Locking` | a look under the lock is stored before anybody else looks under it |
| `Registered` | the client is registered exactly while its attempt runs, so `stop` finds it alive |
| `Honest` | a look is true when it is stored: "no" rules out an earlier leave, "budget" and "caller" stay true |
| `Timed` | the watchdog's next look is due by the deadline and within an interval of the caller's leaving |
| `Cut` | a wait of a tripped call is already being cut, and a finished call's watchdog has been told |
| `Reasoned` | the result was decided after the loop and its reason is true |

`NoAttemptAlways` then follows from the look under the lock; `EndsPromptlyAlways`
because `Tick` is refused while a thread is due, and `Timed` and `Cut` say that one
is.

`ServerProofs`, for every set of environments, bodies, paths and requests and any
bounds: `NothingOutlivesMainAlways`, `AcceptedIsAllowedAlways`,
`LargestPageFitsAlways` and `AnswersTellTheOutcome`. The invariant adds `Configured` (the configuration in use
is the one the loader let through) and `UpDown` (what is up, by where `main()` is)
to the second of these. That an accepted request is allowed is a fact about the
checks, `OptionsVerdict`, and needs the state only for the configuration. For the
answers, `AnswersTold` is added: while a conversion runs, its lines are events, as
many as `write()` returned true for, and a failed serialization has halted it. So an
OK conversion has its trailer written after every event, and the gateway's
`INTERNAL` never replaces an OK.

`DocTagsProofs`, for every response, set of caps and size of regions and data URIs:
`CropsAreAccounted`, `CutTablesAreTold` and `KeptShapeFits`. The assumptions are the
ranges of the constants (`TableCaps`, `CropCaps`, `PagesAssumption`,
`KidsAssumption`, `ShotsAssumption`); that one row of the widest table fits the cap on
cells is among them and true of the code's numbers. The inductive invariant
`MapperInv` is `PageInv` of the page being built, and that a mapped page's caps have
been warned of:

| Part of `PageInv` | Needed because |
|---|---|
| `DocInv` | an item keeps its place in its list, and so its ref, and its image and table data, while later items are added and items are given parents |
| `RasterInv` | the raster is within its budget; one that was not looked at was not decoded |
| `Accounted` | a picture that a cap left without an image is counted, and the byte cap that refused one is still closed, so that no later crop is attached |
| `ListTold` | every table or chart that was cut is warned of with its ref, and warnings are only added |

`PicturedKeeps` and `ListGrown` say what one more picture or table does to these parts;
`SameReport` is what every other step does: nothing that the parts look at, except
more warnings. The children of an `<inline>` group are a fold over a sequence. Since
the library's induction rules cannot be used, that a fold keeps `PageInv` is shown in
three steps, each by taking a smallest set of positions for which it fails: two
functions that satisfy the fold's recursion agree, one exists, and its values keep the
invariant (`EmittingAgree`, `EmittingExists`, `EmittingKeeps`). `KeptShapeFits` is
about `kept_table_shape` alone, which every table of every format goes through: the
kept part is within the three caps, is not empty unless the table is, and leaves out a
row or a column only because of a cap.

Only model-checked, because the provers cannot reach it:

- liveness (TLAPS does not do `ENABLED` or fairness): `EveryWaiterServed`,
  `HaltedWaiterLeaves`, `CancelledStreamEnds`, `UploadFirstEnds`,
  `EveryStreamEnds`, `SignalEndsProcess` and the liveness half of `KeepsPromise`;
- the mappers other than DocTags: their algorithms are recursive operators over trees
  and sequences, and what those compute would need induction over data;
- for DocTags, `TreeIsSound`, `TextKeptOnce`, `OrderKept`, `CaptionsBelong`,
  `GridsAreSound` and the other two parts of `CutTablesTold`: they are about what the
  token loop and `parse_otsl_grid` have built up over the whole response, and the last
  two about a fold over the tokens of a table.

## 5. Not modelled

Left out because they compute on characters or numbers and keep no state that a
property here could tell apart:

- the lexers below the token streams: `read_tag`, entities, comments and scripts of
  the markup parser, the tag scanner of `html.cpp`, JSON and its repair in
  `dots.cpp`, LaTeX cell syntax;
- the delimiter pass of `markdown_inline.cpp` (only `has_inline_html_tag`, which
  decides how a block goes on, is modelled);
- boxes: scaling to the page, resolution grids, clamping; list markers and levels of
  headings; chart and code language names; `orig` texts;
- usage and logprobs in a VLM answer (`vlm_client.cpp:487-569`), which are copied;
- presets' prompts and sampling numbers, error and log texts, the startup banner;
- settings that are only checked against their own range, and the constant-time
  comparison of secrets (`secret.h`);
- what `GetServiceInfo` says beyond response formats.

External: protocol buffers, gRPC, httplib, PNG coding. `serving/north-micro-vision`
is a separate server used as an endpoint; `proto/` has no behaviour.

The two models of a conversion are not one: `ConvertPages` takes the call and the
mapper as single steps, and `HttpGateway` takes the conversion as a source of events
and a status. `VlmPromise` is the interface of the first pair, the statuses of
`PipelineStatuses` that of the second; the product would be out of reach for TLC.
