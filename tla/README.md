# TraceBloom: TLA+ models and proofs

TraceBloom is an LLM observability system: SDKs export OpenTelemetry spans, a
Rust collector batches them into ClickHouse, a dashboard shows them (running
traces live), and an eval runner scores them out of band. This directory holds
models of the parts where order, concurrency and failure decide whether the
system is right. `PROJECT.json` lists every definition with the source lines it
stands for, every run with its properties, and for each property a plausible
bug (an operator of the module named for it) under which the property fails.

    tlc -config MCLiveShared.cfg MCLiveBroker      # model-check one run
    tlapm CollectorProofs.tla                      # check the proofs

Paths below are relative to the repository root; `lib/`, `app/` and `api/` (that
is `app/api/`) are those of `apps/dashboard`.

## The system

| component | state it keeps | operations | what is hard about it |
|---|---|---|---|
| Collector (`apps/collector`) | bounded mpsc channel, two row buffers, the `spans` and `span_events` tables | ingest handler, enqueue, writer loop (receive, tick, drain), flush, health, graceful shutdown | retries after lost answers, a full channel, one insert of two failing, crash with acknowledged rows in memory, order of shutdown |
| Live stream (`lib/live-broker.ts`, `live-deltas.ts`, `live.ts`, the SSE route, `useLiveTrace.ts`) | pollers per trace (head, boundary rows, quiet time, errors), subscribers, strikes, the tab's view and cursor | subscribe, catch-up, poll and broadcast, trim replays, end, breaker, reconnect, pause and resume | a late subscriber's catch-up racing the broadcast, inclusive millisecond cursors, capped reads, subscribers leaving during an await, deciding that a trace is over |
| Trace queries (`lib/clickhouse.ts`, `lib/traces.ts`) | none | list, filter, detail, span panel | caps, copies of retried rows, and three answers about one trace that have to agree |
| Eval runner (`apps/eval-runner`) | per-definition watermark, `eval_results`, `eval_regressions` | list definitions, scan window, skip scored, read content, reuse scores, judge, insert, save watermark, detect and raise regressions, promote SDK evaluations | late spans and late content, aborts between insert and watermark, edits during a run, page limit, two runners, a worker pool over awaits |
| Evaluators (`packages/eval`) | a process-wide Ajv instance | deterministic checks, LLM judge with timeout and retries | a late answer after a timeout, stored rules that do not compile |
| Eval editor (`lib/evals.ts`, `app/evals/actions.ts`) | `eval_definitions` | create, update config (read, then write version + 1), enable | two edits at once, edits during a run |
| Status and list caches (`api/status/route.ts`, `lib/live-list.ts`, `LiveTraceRail.tsx`) | one cached value or promise with a time; the tabs' polls | read through, poll, hide, show | overlapping refreshes, a failed refresh, aborted polls |
| Rate limiter (`lib/rate-limit.ts`) | token buckets, LRU order | take, evict | a clock set back, eviction at capacity |
| Sandbox (`lib/sandbox.ts`, `api/try-it`, `TryItButton.tsx`) | running count, daily count, the button | click, start a run, refuse, answer, poll, finish | a run that ends before its root, day roll-over, restart |
| Span tree (`lib/trace-tree.ts`) | none | build tree, cut cycles, roll up, flatten | missing, late and cyclic parents |
| Trace page (`TraceView.tsx`, `TraceViewer.tsx`, `SpanDetailPanel.tsx`) | replay and its timer, selection, the panel's fetch, scroll position and measured height | play, stop, select, retry, leave, scroll, collapse, resize | timers and answers that outlive what asked for them; rows mounted for a position that has moved on |
| TypeScript SDK (`packages/sdk-ts`) | the provider and its tracer; open spans per AI SDK operation | init, shutdown, wrapped calls, lifecycle events, recordEvaluation | calls awaited across a shutdown, events that never come |
| Python SDK (`packages/sdk-py`) | provider, instrumentors applied, wrappers left in libraries | init, shutdown, enrichment of ended spans, record_evaluation | process-wide instrumentors, undo that leaves or raises, content under many keys |
| Demo seeder (`apps/demo`) | rows of the corpus in both databases | seed, reset, verify, hero trace | no transaction: failures between statements, repetition |
| Schemas, deployment, other pages | | | no behaviour of their own |

How they meet: exporters POST to the collector; the collector's writer appends
to ClickHouse, spans first and their content events after; the live stream polls
`spans` and `eval_results`; the runner reads `spans` and `span_events` by
`start_time` and appends to `eval_results`, which the live stream picks up; the
editor and the runner share `eval_definitions` in Postgres. The sandbox is an
application of the TypeScript SDK inside the dashboard, behind the rate limiter.
There is no call from one process into another besides HTTP export and the
databases, so each model takes the tables it reads as environment with the
order their writer guarantees.

What makes each component right:

- Collector: a row is in exactly one place; nothing is inserted twice unless an
  answer was lost; memory is bounded; a graceful stop loses nothing and ends.
- Live stream: a tab's position never passes a row it does not have; what is
  trimmed as delivered was delivered; one loop per watched trace, true counts;
  every row arrives; pollers end.
- Eval runner: the watermark passes nothing that came in time; nothing is scored
  or judged twice; a version's results come from one configuration; every span
  in time is scored; a signal is raised once per window; a provider that hangs
  does not hang the pass; the application's own scores count once.
- Evaluators: an outcome is that of the last attempt; a broken rule fails closed;
  the same text gets the same verdict in every pass, once a pass has met its schemas.
- Caches: an outage shows within the TTL; tabs share queries, a list is not staler
  than the TTL, and a trace that leaves the rail is in the table.
- Rate limiter and sandbox: nobody exceeds the rate, who waits as told is let in;
  slots come back, the day's budget holds, a click ends in one of two ways.
- Span tree and trace page: each span once, sums exact; what is shown is what was
  asked for last; no row in view is blank; list, page and live page agree.
- SDKs: transparent to the application; spans well bracketed; content
  that the rule knows leaves the attributes; init and shutdown leave the process as they found it.
- Seeder: one whole corpus after a `reset`, whatever failed before.

## Modules

| module | models |
|---|---|
| `Ingest` | abstract: what the collector promises about rows (taken as a whole, each settled once) |
| `Collector` | `storage.rs`, `routes.rs`, `lib.rs` of the collector, with the exporter and ClickHouse as environment |
| `LiveBroker` | broker, pollers, delta reads, SSE connections and tabs |
| `EvalRunner` | one eval definition, its runners and editors |
| `BoundedMap` | abstract: what `mapWithConcurrency` promises about a list of items |
| `Scoring` | the worker pool and the judge's attempts; implements `BoundedMap` |
| `EvalRules` | validation of configs and the deterministic evaluator over passes and processes |
| `Feedback` | `recordEvaluation` and its promotion by the runner; a definition's scores and the comparison of its variants |
| `StatusCache` | the status route and its cached payload |
| `LiveRail` | the query of running traces, its cached promise, the tabs that poll it and the table they refresh |
| `TokenBucket` | the rate limiter |
| `TryIt` | button, route and sandbox |
| `SpanTree` | `buildSpanTree` and `flattenVisible` over the spans as they arrive |
| `Viewer` | replay, selection and detail panel of the trace page |
| `RowWindow` | which of its rows the trace page mounts |
| `TraceViews` | what the list, the loaded page, the page after deltas and the span panel say of one trace |
| `SdkRuntime` | `init`, `shutdown` and the wrapped calls of the TypeScript SDK |
| `Telemetry` | the AI SDK's lifecycle events turned into spans |
| `PyRuntime` | `init`, `shutdown` and the instrumentors of the Python SDK |
| `Enrichment` | the Python SDK's span processor |
| `DemoSeed`, `DemoCorpus` | the seeder over failures and repetitions; the layout of one trace |
| `CollectorProofs`, `LiveBrokerProofs`, `EvalRunnerProofs`, `SpanTreeProofs` | TLAPS proofs about the module of that name |
| `DashboardProofs` | about `StatusCache`, `TokenBucket`, `TryIt`, `RowWindow`, `Viewer`, `TraceViews` and `LiveRail` |
| `EvaluatorProofs` | about `Scoring`, `EvalRules`, and `DemoSeed` with `DemoCorpus` |
| `SdkProofs` | about `SdkRuntime`, `Telemetry`, `PyRuntime`, `Enrichment` and `Feedback` |
| `FoldLemmas` | lemmas about folds, sums and extremes of finite sets, for the proof modules |
| `MCCollector`, `MCLiveBroker`, `MCEvalRunner`, `MCLivePages`, `MCRunner`, `MCServices` | constants for TLC; the last three put together components that share no state |

### Collector

`channel` is the tokio channel, `buf[t]` the vectors of `writer_loop`,
`writer` where the loop is: in `select!`, or awaiting the insert into one of the
tables. A *post* is one HTTP attempt at one export request; `reply` is what its
client knows. Handlers are one action each, `Handle`, because they have no await
between decoding and `try_send`; the writer's actions are `Receive`, `Tick` and
`Drain` (the three arms of the loop) and `InsertOk` / `InsertErr` (the end of an
insert). A batch is sorted into tables row by row in the code; the model tracks,
per table, the set of posts whose rows are there, and counts rows only where
`max_rows` is compared. `server` is the axum server: a signal stops accepting,
`serve` returns when no request is in flight, the process drops the senders and
waits for the writer. A crash takes the channel, the buffers and an insert under
way, whose rows may or may not have reached ClickHouse.

`Collector!Abstract` maps each (table, post) to absent, held, stored or gone;
`ImplementsIngest` says every behaviour of the collector is one of `Ingest`.

### LiveBroker

One action per stretch of JavaScript between awaits: `TickRead` (timer fires, the
queries take their snapshot), `TickDone` (everything after the await: trim,
broadcast, strikes, verdict, next timer), `TickFail`, `CatchUpRead`,
`CatchUpDone`, `CatchUpFail`, `Subscribe` (route, `canAccept`, `subscribe` and
`attach`), `Notice` (abort, cancel and failed sends, which all end in the same
idempotent teardown). A row is `[item, ver, ms]` with `ms` the value the cursor
compares (`ingested_at`, `evaluated_at`). `client[c].resume` is the id
EventSource will send, the cursor of the last message; `cursor` is the merged
one. Frames are applied at once when both ends are connected: TCP keeps their
order, and a frame in transit at a drop is a frame not sent, as far as the tab
is concerned. The poller's clock appears as `quiet` (0, past `settledEndMs`, past
`deadEndMs`).

### EvalRunner

One action per await of `runEval`, with the values read so far in
`runner[r]`. `stage[s]` tells when a span became visible with its content: in
less than the overlap after its start, or later. `results[v][s]` is the row the
replacing table shows for a version and span, with the configuration that
scored it. `Abort` is a failing query (caught in `runOnce`) or the end of the
process; both leave what was written. Start times are whole instants: the
nanoseconds that `parseChDateTime` cuts off are below an instant. Judging unique
contents one after another stands for the bounded pool, which is `Scoring`.
Which keys regress is left open, so the signals hold for any statistics
(`Feedback` has the statistics).

### Scoring and BoundedMap

`doing[w]` is the item that worker `w` of `mapWithConcurrency` awaits; `state`,
`attempt` and `lastError` are the locals of `JudgeEvaluator.evaluate` for that
item. `Promise.race` is won by `AnswerCall` or by `TimesOut`; the call that lost stays
in `calls` and may still be answered, as it is never aborted. The provider is
external: it gives a verdict on or off the scale, an answer that holds none, an
error, or nothing. `BoundedMap` knows only how many items were begun and which
have results; `Pool` maps `nextIndex - 1` to the former.

### EvalRules

A stored rule is its kind, whether its pattern, text or schema is fine, missing,
malformed or odd, and one option. A malformed regex or schema does not compile and
throws each time; an *odd* schema compiles but is not what the meta-schema allows.
`StartPass` reads and validates the config; `Evaluate` is one text. `compiled` and
`ids` are what the shared Ajv instance remembers: schema objects, which are new in
every pass since the config is parsed anew, and registered `$id`s. Ajv caches an
object before it checks its `$id` and holds it against the meta-schema, so these
checks throw for the first JSON text of a pass and not again (`ThrowsAtFirst`); a
verdict is `settled` if no schema has thrown for being new.

### Feedback

`Record` adds an event to a span that is open, `LandScored` is the collector storing it,
`Promote` a pass of `promoteSdkEvaluations`: any `SdkLimit` events of the window, since
the query has no order, and of several rows with one key any. The rows go into the
table under an `eval_id` of their own, beside those of a definition (`RunDefinition`,
under the version the pass has read, with `EditDefinition` in between). Variants are
compared (`regression.ts`) on the definition's rows alone, as the runner asks for
statistics by the ids of stored definitions, and on spans that started within
`RegressionWindow`. The comparison is exact: means are compared by
cross-multiplication.

### StatusCache and LiveRail

`Hit`, `Miss` and `Store` are the status handler up to its await and after it;
`Flip` is a service going down or up in the middle of any number of fan-outs.

In `LiveRail` a query is a promise: `window` is the one in the cache, `polls[t]` those
a tab waits for. A poll aborts the one before it; hiding a tab aborts and stops.
Traces land, fall quiet for longer than `RUNNING_STALE_MS`, come back and finish in
any order, the root before other spans or after them; `lively` is what has been
ingested lately. ClickHouse reads at any instant between a query and its answer
(`QueryReads`), and lists the `MaxRunning` newest of the lively traces without a
root. Traces are numbered by their start, once for all: a span that lands late and
started before all others would move its trace, which is left out (the proof uses of
`Newest` only that it picks some). `Old` traces started before the query's lookback:
of these it may overlook the root, or all spans. `Refresh` is `router.refresh()`: the
table is rendered in one piece, taken without filters or pages, so that `page` is what
had landed by then.

### TokenBucket

`tracked` is the `Map`'s insertion order, `TryAcquire` the whole of `tryAcquire`,
which has no await. Tokens are counted in parts, `Rate` of which come back each
second, so that refills stay whole. `clock` is `Date.now()`, which `SetBack` may
set back, `elapsed` the time that really went by. `born`, `spent`, `entitled` and
`recent` are history: what was granted since the bucket was made, when a key was
told to come back, and every key by its last request.

### TryIt

A visitor is one click: `button[v]` is the button, `run[v]` the sandbox run it
starts. `StartRun` is `startSandboxRun` up to its first await: the slot and the budget
are taken, then `ensureSandboxSdk` may throw. `AnswerClick` is the
`Promise.race` between the root span and the end of the run, `RunOver` the `finally`
that gives the slot back, by whichever way the run ended. `RestartDashboard` loses counters, runs and open
requests together, as all of them live in the process.

### SpanTree, Viewer, RowWindow and TraceViews

`SpanTree` has as state what the reader sees change: the spans in the order they
arrived, with any named parents, and the rows collapsed. `Tree`, `TreeRows` and
`Rollups` are the code's algorithm: `Walk` goes up from each node in the order of
`byId` and cuts the node at which it meets itself; siblings are sorted by
`byStartThenId` (`Before`, `Sorted`); the roll-up folds the pre-order backwards. The
properties compare the result with definitions by reachability: `Above` in the tree,
`Chain` by the ids that the spans name. The code's stack is a recursion over depth
(`TreeRows`), and the loops are recursive functions, so that they can be proved about.
Tokens stand for all ten sums of a roll-up. In `Viewer` the replay's timer is `timer`, the span the pending step will show, and
`planned` the spans that the effect which set it knew of; `asks` holds the panel's
fetch that is not aborted.

`RowWindow` keeps apart what the browser owns (`elTop`, which a shorter list pulls
back) and what React renders for (`scrollTop`, copied by an animation frame that a
scroll event asks for, and `viewportH`, measured on mount and on resize). Rows are
`RowHeight` tall; `Mounted` is the slice of rows that is rendered, `InView` the rows
the region shows.

In `TraceViews` a span's copies land in any order and at any hour; the list is a
filter over aggregates, the page one query with a cap, and a delta re-reads from
anywhere up to the cursor. `ViewsAgree` compares the three answers, and the span
panel's, for rows that landed before the page was loaded and after.

### SdkRuntime, Telemetry, PyRuntime and Enrichment

`SdkRuntime` tells apart the module's `provider`, the tracer in `RuntimeState`
(`tracer`) and the API's global provider (`registered`), which change at different
sides of the await in `shutdown`. That await may throw, when the last export does
(`ShutdownFails`): then nothing is unregistered. `clean` tells whether an `init` came
when every shutdown before it was over and the last one had not failed. `Telemetry` has one action per lifecycle event;
the AI SDK is external and orders the events of one operation, while operations
interleave and nest. `PyRuntime` tells apart that an instrumentor says it is
instrumented (`flagged`) and whose provider its wrappers feed (`handler`):
`uninstrument` may leave the latter behind (`Leaky`), which `HandlersAfter`
cleans up. An `instrument()` that raises is taken to leave no wrappers, and the host
application never to undo what `init` applied. `Enrichment` is a span's way from its
end to the exporter; a span is its kind (`none` if it does not tell one), the set of
its keys and whether the instrumentation put content events on it itself (`own`),
which stay and keep the processor from adding any. The keys are those of content,
usage, model and cost, also those that the rule does not know (`ToolCalls`); a cost
takes usage and a model's name.

### DemoSeed and DemoCorpus

One action per statement of the seeder, as each may fail by itself; `Crash` is any
of them failing. Rows carry the run they come from, so that a second corpus on
the same ids can be told from the first. `Recent`, `VerdictCount` and `PassedOf` are the
A/B story of the corpus: which traces are still in the last day, at the earliest
and latest times the generator may draw.

### MCServices, MCLivePages and MCRunner

Components that share no state with each other are checked side by side: a behaviour
picks one of them (`subject`, `kind`, `side`), and the others stay in their initial
states, so the states of the composition are the sum, not the product, of theirs.
`MCServices` has fifteen, `MCLivePages` the live broker and the rail, `MCRunner` a
definition's passes and the scores. Every component about which theorems are proved is
in one of them by EXTENDS, under names of its own (`TryNext`, `railVars`), so that
the run checks the very definition the theorem is about.

## Runs

| run | shows |
|---|---|
| `collector` | accounting, order of span and content, honest backpressure, bounded memory, drained exit, refinement of `Ingest`, and that queued rows leave memory and a stop signal ends the process, over all interleavings of two requests with two attempts each, one failing insert and one crash |
| `collector_blip` | violation: see Disagreements |
| `live_shared` | two tabs on one poller, over spans and eval results: no gap, settled tabs have the root, nothing goes backwards; two lists on one query of running traces: one query per TTL, no failure answered twice, no stale list, nothing lost between rail and table |
| `live_reconnect` | one tab that drops, hides, stalls and comes back, rows of two tables within one millisecond: no gap, trimmed means delivered, complete means root |
| `live_faults` | three tabs on two traces, every fault: one loop per watched trace, true subscriber counts and caps |
| `live_progress` | rows arrive page by page; pollers end in silence |
| `live_gap`, `live_equal_ms` | violations: see Disagreements |
| `eval_runner` | watermark, one configuration per version, a pass adds and never replaces or judges again, under edits, switching off, late arrivals and an abort; recorded evaluations have one row each, and variants are compared on what this version has scored within the window |
| `eval_progress` | spans in time are scored in the end, signals are a window apart, with pages that are cut and an abort |
| `eval_stuck` | violation: see Disagreements |
| `services` | each of the fifteen components of `MCServices` keeps its promise; `Scoring` implements `BoundedMap`; clicks and passes come to an end |

### Bounds

- Collector: two requests, one with content, two attempts each: enough for a
  retry to meet its first attempt anywhere (channel, buffer, insert, store), for
  a batch of `MaxRows = 2` to fill across posts, and for `Capacity = 1` to be
  full. One failure and one crash fall at every point. What holds for these sizes
  is proved for all (below), except liveness.
- LiveBroker: two tabs, at most three rows per table, two or three milliseconds.
  A gap needs a row before, one at and one past a position, and a tab that is
  behind another: three rows and two tabs. `MaxFaults` is two in
  `live_reconnect` and `live_faults`, so that a second fault can meet the
  recovery from the first. `live_shared` has each millisecond take one batch per
  table: with shared milliseconds, or a drop during a catch-up, the disagreements
  below appear, so these are in separate runs (`live_reconnect` has shared
  milliseconds with a single tab). Caps are not below the number of rows that a
  catch-up or one millisecond can hold, for the same reason. The two runs are
  instances of the two regimes, `Calm` and `Alone`, in which `NoGap` is proved for
  all sizes.
- EvalRunner: three spans, three instants, an overlap of two (one in
  `eval_progress`, where pages hold two rows of three). One runner: a deployment
  runs one (`infra/prod/docker-compose.prod.yml`); with two at once
  `InTimeNeverPassed` still holds (checked apart), but spans are scored twice and
  their rows replaced, so `RunsOnlyAdd` fails. Version bound 2: one edit during a
  run. The lookback exceeds the clock, as spans older than it are out of scope by
  design.
- A span row inserted twice by a retried export is part of `LiveBroker`
  (`Past` takes the earliest), not of `EvalRunner`, where it would only use up
  room in a page.
- Rate limiter: three keys for two buckets, two seconds, the clock set back once; a
  request costs more than a second refills, so a client can be refused, told to
  wait, evicted and let in. Proved for all sizes.
- Sandbox: two visitors, one slot, a budget of two, two days, one restart: a
  second click meets a busy slot, a budget spent today or yesterday, and a process
  that has forgotten both.
- Status: two readers, whose fan-outs overlap in every way, TTL and timeout of two
  ticks, six ticks. Proved for all sizes.
- Rail, with room for one trace (`FewQueries`): two tabs and three queries, one of which
  fails, over one trace that falls quiet and comes back, so that a failure of the first
  meets the second in the cache, and a third follows; one tab and two queries over two
  traces, the first of them older than the lookback, which push each other out. All of
  this at once is beyond TLC, and proved.
- Trace page: four spans, the root third, three fetches. Tree: every order of
  arrival of three spans with every choice of parents, itself and a lost one
  included: all cycles of up to three, and what hangs from shorter ones; span i used
  2^i tokens, so that a sum tells which spans it is of; proved for all sizes. Rows: six of
  height two, windows of 3 and 5, an overscan of one: an edge that cuts a row, a list
  that fits and one that scrolls; proved for all. Views: three spans, up to
  four rows, so that one lands twice, a cap on events that bites and one on spans that
  does not (a trace that is cut off is in the proof only); proved for all.
- SDK: two chat calls and one block across three inits; proved for all. AI SDK:
  two operations, three steps and one tool call in all: the second operation may
  run inside the first one's tool. Python: three names, two of which share an
  instrumentor, one that leaves wrappers, three inits, up to two names at each,
  in either order. Enrichment: one span of any kind, with or without events of
  its own, with up to two keys (`KeySets`), which is every pair of conventions; proved for all sets of keys. The
  other three are proved for all sizes too, Feedback as well.
- Scoring: three contents, two workers, one retry: a third item is taken while an
  earlier answer is still on its way. Rules: up to two rules of eleven, one of them
  an odd schema, two passes.
- Feedback: two spans of two variants that start a tick apart, a limit of two, a lookback
  of one tick and a regression window of two: spans enter the latter and leave it. Either
  three events without a definition at work, so that a window is cut and an event ages
  out of it, or one event and two versions of the definition (`FewScores`): promoted rows
  and a definition's never share a key.
- Seeder: three runs, which can fail, repair and repeat, and seventeen hours, as
  long as `RegressionVisible` speaks of. Corpus: two durations, so that either of
  two parallel fetches may end last.

### Fairness

- Collector: handlers finish, an insert ends one way or the other (the HTTP
  client has timeouts), `serve` returns once no request is in flight, the
  process exits once the writer has. `Receive` and `Tick` are strongly fair:
  `select!` picks at random among ready arms, so an arm ready again and again is
  taken. Clients, signals and crashes are not fair.
- LiveBroker: timers fire, queries answer or fail, broken connections are
  noticed (heartbeats), EventSource retries. Writers, faults, tabs and the
  passing of quiet minutes are not fair; `PollersEnd` assumes the last of these,
  `RowsArrive` does not, so that a stream's end is no way out.
- EvalRunner: a runner keeps running (`--watch`, restarted by the container).
  Arrivals, edits and time are not fair. `InTimeScored` assumes the definition
  ends up enabled.
- TryIt: the server's and the button's own steps, for each visitor (`Serve`): a
  run ends because the watchdog aborts it after `maxRunMs`, the polls because they
  are counted. Clicks, lost answers, midnight and restarts are not fair.
- Scoring: the process runs its promises and timers (`Local`, which includes
  timeouts). The provider owes nothing: that every content gets an outcome, the
  liveness in `BoundedMapSpec`, is due to the timeouts alone.

`CHECK_DEADLOCK FALSE` is set for the live, eval and service models, where
everything bounded may have happened; the collector can always restart, or has
exited, and is checked for deadlock.

## Proofs

| module | theorem | says |
|---|---|---|
| `CollectorProofs` | `Invariance` | `Spec => []IInv` |
| | `TypeCorrect`, `RowsAccounted`, `NeverClosed` | `TypeOK`, `Accounted`, `WriterOutlivesHandlers` |
| | `GracefulStopDrains`, `RetrySafety`, `ContentFollowsSpan` | `DrainedOnExit`, `RetriesDoNotDuplicate`, `SpanBeforeContent` |
| | `MemoryIsBounded` | `Spec => []MemoryBounded` |
| | `Refinement` | `Spec => ImplementsIngest` |
| `LiveBrokerProofs` | `BooksTrue` | `Spec => []BrokerBooks` |
| | `NeverBackwards` | `Spec => ReadingAdvances` |
| | `NoGaps` | `Alone` or `Calm` implies `Spec => []NoGap` |
| | `TrimmedWasDelivered` | the same for `BoundaryDelivered` |
| | `AloneMissesNothing` | `Alone` implies `Spec => []NothingMissed`: no gap, and complete means root |
| | `SettledHasRoot` | `Alone` or `Calm` implies `Spec => SettledTabsHaveRoot` |
| `EvalRunnerProofs` | `TypeCorrect` | `Spec => []TypeOK` |
| | `NothingInTimePassed` | `SeesAll` implies `Spec => []InTimeNeverPassed`, any number of runners |
| | `VersionsAreConfigs` | `OneEditor` implies `Spec => []OneConfigPerVersion`, any number of runners |
| | `SignalsApart` | `OneRunner` implies `Spec => []SignalsSpaced` |
| | `OnlyAdditions` | `OneRunner` and `WholePages` imply `Spec => RunsOnlyAdd` |
| `DashboardProofs` | `CacheCorrect`, `OutagesReported` | the invariant of the cache, and `StatusSpec => OutageReported` |
| | `RateLimited` | `Spec => []RateHonoured` |
| | `Honest` | `Spec => LimiterHonest`: order of eviction and Retry-After |
| | `CapsKept` | `TrySpec => []CapsHonoured` |
| | `NoBlankRows` | `RowSpec => []RowsMounted` |
| | `PageFollows` | `ViewerSpec => []PageFollowsReader` |
| | `RailIsHonest` | `RailSpec => RailHonest` |
| | `OneStory` | `ViewSpec => []ViewsAgree` |
| `SpanTreeProofs` | `WaterfallIsSound` | `TreeSpec => []TreeIsSound` |
| `EvaluatorProofs` | `OutcomesKept` | `ScoringSpec => []OutcomesHonest` |
| | `PoolImplemented` | `ScoringSpec => Pool!Init /\ [][Pool!Next]_<<nextIndex - 1, results>>` |
| | `VerdictsKept` | `RulesSpec => VerdictsHold` |
| | `DemoIsWhole` | `CorpusSpec /\ SeedSpec => DemoDataSound` |
| `SdkProofs` | `Transparent` | `RuntimeSpec => []RuntimeTransparent` |
| | `WaterfallBracketed` | `TelemetrySpec => WaterfallSound` |
| | `HooksUndone` | `HooksSpec => HooksBalanced` |
| | `ContentRule` | `EnrichSpec => []ContentMoves` |
| | `ScoresCountOnce` | `FeedbackSpec => []FeedbackCounts` |

### The collector

For every set of requests and attempts, all row counts, capacities and bounds that
the assumptions of `Collector` admit. `Accounted` is inductive only with a channel
that holds no post twice, hence `Distinct` in it, and needs to know that a post
still on its way is not accepted. So `IInv` is `TypeOK`, `Accounted`, and:

- `ShutdownOrder`: how `server`, `writer`, `draining` and the requests in flight
  go together. `WriterOutlivesHandlers` rests on it (the writer stops only after
  `serve` has returned) and so does `DrainedOnExit` (it stops only with an empty
  channel and empty buffers).
- `ReplyMeaning`: what each reply says about `accepted`. `RetrySafety` follows
  from it: a client sends attempt n + 1 only after a retryable answer to attempt
  n, and 429 and 503 imply the post was not taken.
- `WriterOutlivesHandlers` itself.
- `ContentOrder`: which rows may be in which buffer in each phase of a flush;
  `SpanBeforeContent` is a consequence.

Each conjunct has a lemma for its step (`TypeStep`, `ShutdownStep`, `ReplyStep`,
`AccountedStep`, `ContentStep`), one case per action. `Refinement` uses
`DecisionsStand` (stored and gone are final), maps `EnqueueOk` to `Take` and
every other step to `Settle` or a stutter.

`MemoryIsBounded` rests on `ShutdownOrder` (a writer that starts again finds empty
buffers) and on what `RowsIn` computes, a recursive sum over a set. `RowsInSum` says it
is a number, and 0 for no posts, for any finite set (section Folds).

### The live broker

For any traces, items, tabs, connections, pollers, caps, page sizes, strikes, error
limits and faults (`ShapeAssumption`, `SizeAssumption`). `BrokerBooks` needs `Attached`
besides itself: a connection has a poller exactly while it is not free, only such a
connection catches up, and a registered poller runs for the trace it is registered
for; without it a second connection might join a dying poller. All ways to leave
(noticed, failed catch-up, backpressure, breaker, end of the stream) are one lemma,
`LeavesBooks`: a poller that its last subscriber leaves stops and is unregistered in
the same step, and the counter goes down by exactly those who left. `ConcludeInv` is
the end of a tick whatever it sent, `SubscribeInv` the two ways to join. A delta is
well typed because the newest millisecond of a page is one of its rows
(`LatestExists`).

`NeverBackwards` adds `Ahead`: the answer that a polling tick awaits is not behind the
poller's watermark, which nothing moves meanwhile, and a tab that has not loaded has
no open connection, so nothing can be merged before its snapshot.

### No gaps

`NoGap` is false in general, as `live_gap` shows, and is proved where it is true. `Alone`: each trace has one tab, and anything may fail (drops, pauses,
failed polls, stalls, capped pages, shared milliseconds), provided the route notices
a lost stream before the tab is back. `Calm`: any number of tabs, joining when they
like, while nothing fails, no read is capped and batches have their own milliseconds.
Outside of both, a second tab's catch-up can be overtaken by a broadcast and then be
lost with the connection, cut by its cap, or never asked for in a shared millisecond.

`NoGap` speaks of tabs at rest and says nothing of answers on their way, so `GInv` has
three parts. `Marks`: no cursor is ahead of the clock of its table, a tab's event id is
not ahead of its cursor, and each tab has one connection, to a poller of its trace
(`Clocked`, `Stored`, `Paired`, `Calmly`, `RootsTold`). `Reads`: what a poll that awaits
carries covers the table from the poller's watermark to the answer's (`Fetched`), and
what a poller remembers at its boundary is still there (`StillThere`, since a span is
read as its earliest copy). `Holds`: who has what. A tab not catching up has all below
its cursor (`TabHas`); a connected one has, or its catch-up brings, all that is below
the poller's head, its own cursor or the answer's, and the poller's boundary rows
(`OnHas`); a catch-up that has not been read starts where its tab has everything
(`AskedHas`); and a tab that may yet join has what the poller would trim (`OffHas`).
`Seen` is where the regimes meet: a millisecond equal to a mark is complete only if
milliseconds are not shared, which is why the reads are inclusive. A page that is cut
covers all up to its watermark because it is closed downwards (`PageCovers`).

`TrimmedWasDelivered` and `AloneMissesNothing` follow from `OnHas`; with two tabs the
latter is false (Disagreements), and `SettledHasRoot` is what remains of it.

### The eval runner

For any spans, contents, configurations, batch limit, overlap and window, and any
number of aborted runs (`EvalAssumption`). Each theorem names what else it needs,
and each such assumption is needed:

- `NothingInTimePassed` assumes `SeesAll`: the first run's lookback reaches every
  span. `InTimeNeverPassed` says nothing of a run between its scan and its save, so
  it is not inductive. `Covered` says what a run has left behind: a span at or
  below its window has a result, and one that its page's newest span will take the
  watermark past has a result or is among its rows. A page cut at the batch limit
  keeps this because it is closed downwards in start time (`PageIsClosed`); late
  landings keep it because a span in time starts above every instant a run has
  read, less the overlap (`Times`).
- `VersionsAreConfigs` assumes `OneEditor`: two edits that read the same version
  write the same successor with different configs. `VersionsFix` names the config
  of each version; every run's copy, its scores and all results agree with it, and
  nothing is written under a version that does not exist yet.
- `SignalsApart` assumes `OneRunner`: two runners read the signals of the window
  before either raises its own. `Clear` says a key that is about to be raised has no
  signal in the window, `post` included, so an aborted announcement changes nothing.
- `OnlyAdditions` assumes `OneRunner` (two score the same span) and `WholePages` (a
  cut page may end below the watermark, which `Save` then takes back). `Adds` keeps
  the rows of a run fresh, and what is still to be judged without a result, from the
  queries to the insert; `NewestNotOlder` finds the watermark's own span in the
  window when the overlap is positive.

### The rate limiter

For any clients, capacity, rate, map size and number of corrections of the clock
(`BucketAssumption`). `RateHonoured` compares what was granted with the time that
really went by, while the code knows only the clock. `Budget` closes the gap: what
was granted, what is left and what the clock has yet to refill come to no more
than the burst and the real time's refill; a correction of the clock only makes
the third smaller, since elapsed time is cut off at zero. `Promise` says the wait a
client was told refills a token; `RoundedUp` is the arithmetic of its rounding.
`TrackedAreRecent` needs the last-request order to hold each key once, `Distinct`,
and `Suffix`, its form without SubSeq; `TrackedMoves` and `NewcomerJoins` show that a
key moving to the end, and the oldest making room, keep it, from the lemmas
`LatestMoves` and `LatestJoins` about the sequence operator `Latest`. An evicted key
comes back to a full bucket, so the promise is kept without `Promise` there.

### The status cache

Assumes `Timely`: checks give up within the TTL, as the code's two constants do
(3 s and 5 s). `AskingSound` dates each fan-out and says its verdict is that of the
last change or comes from before it; `CacheSound` says the same of the payload.
Whichever fan-out stores last, a payload older than a change by more than the TTL
is not fresh, and one that is not older knows of it.

### Windowed rows

`NoBlankRows` is arithmetic once `CopyFollows` is known: while React's scroll position
differs from the region's, a scroll event or a frame is due. A row in view begins above
the lower edge and ends below the upper one; dividing by the row height, with the
remainders in their range (`Quotient`, `Cancel`), puts its index between the rounded
bounds, and a distance of up to the overscan moves these by as many rows. That what
was measured is not less than the region's height is a premise of the property, and
needed (Disagreements).

### The trace page

For traces of any size (`ViewerLimits`: there is a span and a fetch). `OneFetch` says a
fetch that may still be answered is for the selected span, and that without a selection
there is none; then no answer can put another span into the panel. `NoStrayTimer` is
inductive by itself.

### The rail

For any number of tabs, queries, failures and traces, old or not, whatever fits the
rail (`RailLimits`). `WindowIsLast`: the cached promise is that of the last query and has
not failed. `QueriesSound`: what a query lists has landed, and of what was done when it
was sent (`past`) it lists old traces only. `WindowCovers` ties the clocks together: a
trace that has been done for longer than the window is open was done when the window's
query was sent; so a tab that asks, and gets the window's promise since it is younger
than a TTL or a query of its own, gets one sent after everything done for a TTL
(`PollsCover`). With `QueriesSound` this is `FinishedStaysAway`, whenever the query
reads and in whatever order answers come. `ShownIsStored` is why a refreshed table has
whatever left the rail. `AskInv`, `ApplyInv`, `RefreshInv` and `QueryInv` are the lemmas
of the actions that touch these; `CalmInv` is for the rest.

### The SDK runtime

`RuntimeSound` says that, unless the last shutdown to end has failed, what is registered
with the API is the provider that is set or one that is closing, that there is a tracer
exactly while a provider is set, and that a call awaited without a tracer is one during
which `shutdown` was called; with it `TransparentWhileUp` and `TracerIsLive` are
inductive: an `init` is refused by the API only while a shutdown is awaited or after one
that failed, and then it is not `clean`. It assumes only that the bound on inits is a
number.

### The spans of AI SDK runs

For any finite set of operations, any numbers of steps and tool calls
(`TelemetryAssumption`), nested in any way. `Sound` is about one operation: `Bracketed`
gives, for each place it can be in, what the integration's maps hold (a step's span
exactly if the step has a number, on the stack the chat span of the call under way,
tool spans only for calls that have not ended); `HeldAreOpen` says the open spans are
the operation's own while it is live and those the maps hold, so that nothing open is
forgotten; `ToCome` that spans still to come are absent; `ShownOf` where they are shown. Every
action has a lemma (`KeepsStart`, `KeepsStepEnd`, ...) that proves `Keeps`: `Sound` for
its operation, `OnlyOpenParents`, `EndsOnce`, and `Alone`, from which `OthersSound`
follows for the rest. `ParentIsOpen` is why a span starts under an open one, although
the operation around it may be in a tool or a model call. The bounds on steps and
tools are sums over the operations; `SumBounds` gives what is needed of them.

### The Python SDK's hooks

For any names and instrumentors, shared between names or not, whichever leave wrappers,
and any set that raises at each call (`HooksAssumption`). `HooksSettled` sorts the
instrumentors: those in `_active` are instrumented for the provider in use, those whose
undo raised for one of ours and no longer in `_active`, all others for none or the host
application's. `apply_instrumentations` is a fold over the names: `OneTurn` says one name
keeps `Applying` (nothing but what has become active is changed, and that was not
instrumented before), `AfterLoop` that so does the loop.

### What leaves with a span

For every set of keys, each kind or none, with events of its own or not, and any number
of spans (`KeySetsAssumption` only says they are keys). `SpanSound` is what holds of one
span (`EnrichedSound`): if there is a kind, the keys of the OpenInference namespaces go,
whichever it is; the GenAI content and the step payloads go after them; and usage and
model under any name have become the canonical ones when the cost is computed.
`EventsOnce` goes through the four sequences of messages, which come from disjoint sets
of keys (`OnceBoth`); that holds also where a span carries both conventions. What the
rule does not reach (`OutOfReach`) is spelled out in the property, not left out of the
keys.

### Scores and regressions

For any spans, variants, lookback, limit and number of samples; a drop is not negative,
as `env.ts` documents it (`FeedbackAssumption`). `OneRowPerSpan` and `WindowPromoted` are
inductive with little more: every promoted row is of version 1, so of two rows for a span
one replaces the other (`OneWinner`), whichever events a pass has read, and a definition
scores only spans that have no row of its version (`DefinitionKept`). `Evidence` maps the
samples of a flagged variant into the spans of the window that this version has scored,
one to one (`SamplesScored`).
`DropIsFlagged` is arithmetic: who is below another variant is below the one with the best
mean (`BelowTheBest`), which the cross-multiplied means show without division;
`ScoresSum` says a sum of scores is an integer.

### Folds

`MapThenFoldSet` in the community modules is recursive by a CHOOSE. `FoldLemmas` states its
recursion for any order in which members are taken (`IsFold`); `FoldExists` builds a
solution on ever larger subsets, by induction over their size with the predicate as a
set (`NatSets`, from the well-foundedness of <), so that the CHOOSE picks one;
`FoldStays` says what is computed stays in a set that every turn keeps, and `FoldHas`
that what one member brings about and the others keep is there at the end. Of a sum any
member may be taken off, not only the chosen one (`SumWithout`), so two sums over
sets that match one for one are equal (`SumRenamed`). `Extremes` says what Max and Min
of a finite set of numbers are. The sums of `Collector`, `Telemetry`, `Feedback` and
`TraceViews` and the loop of `PyRuntime` are instances.

### List, page and panel

For any spans of any start, length, tokens, models and events, any caps and copies
(`ViewAssumption`). The invariant `ViewInv` says that what a live page holds is what the
rows up to its cursor tell, no more and no less (`PageOf`): a row that lands is newer
than any cursor, a page is opened with one copy of every span, and a delta reads from no
later than the page's cursor, so nothing between is left out; that this is so only while
the trace is not cut off is why a trace that is not, was not before
(`NotTruncatedBefore`). `ContentSound` says a span's content is there as a whole or not
at all, whichever copies landed. The rest is about the two queries: `Spread` says the
bars fill the trace from its anchor to its end, `FirstSpanFetched` that a page with rows
has a span, `RowAndPage` that the list's row and the page agree, where the token totals
need that no span has two rows (`TokensAgree`).

### The span tree

For any number of spans that use any tokens, arrive in any order and name any parents,
themselves, late ones and lost ones included (`TreeAssumption`: lost ids are none of the
spans'). No strengthening is needed: `TreeIsSound` holds in every state that is of type
(`TreeTypeOK`: a span arrived once, only what arrived is collapsed), as
`buildSpanTree` starts from the spans each time. The work is in what its loops compute:

- `TurnsExist` and `IterExists`: a recursive function over a number of turns, or over
  all numbers, exists and stays in its set, by induction with predicates as sets. Each
  of the model's functions gets its equations from these (`KeptTurns`, `LaidTurns`,
  `AddedUpTurns`, `SortedTurns`, `RowsTurns`, `RollsTurns`).
- `NodesExact`: the nodes are the spans and the placeholders, in whatever order the
  rows come.
- `WalkIsWalk`: a walk ends, as more steps than nodes must meet one again. `Walked` is
  the loop's invariant: a link that is gone was on a cycle; a cycle is walked as a whole
  or not at all (`RingWalked`), and one that has been walked has lost exactly one link;
  what has been walked cannot go round. `TurnStaysWalked` is one turn: a walk that ends
  at a node it has met itself closed that node's cycle, any other one met no cycle
  (`NoRingOnOpenWalk`). `OneCutPerCycle` is `Walked` at the end (`CutsAreRight`).
- `Forest`: no set of nodes has all its parents in it (`NoCycleLeft`), so what is
  above a node is a strict order (`AboveTransitive`, `NotAboveSelf`) and induction from
  the roots down is sound (`ForestInduction`). What is below a node is what its
  children's branches hold, which are apart (`BelowIsHeaped`).
- `RowsWhole`: laying the branches end to end lists what is below a node once, each
  row after its parent, by induction on how many there are; `RowsOpen` does the same
  for collapsed rows and shows the result is `Kept` from the whole. These give
  `EverySpanOnce` and `CollapseHidesSubtree`.
- `RollsExact`: backwards through the rows, a node is folded once and after its
  children, as each row comes after its parent's (`Led`), so its sum is what its whole
  branch weighs: a set weighs what the parts of a partition do (`AddedUpHeaps`).
- `ReloadShowsSame`: nodes, named parents and the order of siblings do not depend on the
  order of arrival (`ReorderedSame`), and without cycles no walk meets itself, so
  nothing is cut (`NothingCut`).

### The sandbox's caps

For finitely many visitors and any slots, budget and days (`SandboxLimits`, a
hypothesis of the theorem). The counter equals the number of runs under way only while the
exporter accepts the endpoint; `Slots` adds what holds otherwise: the SDK is not
initialized and nothing runs, so a refusal costs slots but starts no run. `Budgets`
separates what earlier processes may have spent today from what this one has
counted, and says that no day to come has runs; midnight needs the second, a restart
the first.

### Scoring

For any contents, workers, retries and scale (`Configured`). `Assigned` says what the
shared index and the workers' loops amount to together: the items from the index on
wait, and an item that is called or pauses is held by exactly one worker until it has
a result. `RetriesLeft` says a pause is followed by an attempt that is allowed. For
the refinement, `RoomLeft` maps the items under way into the workers but the one that
takes, so there are fewer than the limit; a last failed attempt or a verdict is
`Settle`, every other step but `Take` a stutter. The liveness of `BoundedMap` is
TLC's.

### Stored rules

For any set of rules of which only regexes and schemas can be malformed (`RuleShapes`)
and any number of them. `RulesInv` ties the first verdict on a text to `Satisfied`, a
set of rules that the text and the config determine and the process does not;
`PassedIsSatisfied` shows the evaluator computes it whenever no schema throws for being
new (`Settled`), whatever Ajv has compiled. `CompiledTogether` says a pass has all its
schemas in the cache or none, so what is not settled happens for one text of a pass
(`UnsettledOnce`). `AllPass` turns the count of passing rules into each of them
passing, `MalformedFails` says a malformed rule is not one of those.

### The demo's data

For any durations and pauses (`DrawAssumption`: whole and positive, as every `randInt`
of `buildTrace` draws), any number of runs and any clock. `LaidInv`: while a trace is
laid out its rows are the root's children, all before the cursor, so what a step adds
overlaps none of them (`RowsAdded`). `SeedInv` says what the tables hold of the corpus at
each statement of a run: content is deleted before the spans that lead to it and
written after them, which a crash anywhere preserves. The story is arithmetic over the
constants of `traceSpecs`: within seventeen hours the traces of the last day are a
prefix of the twelve newest, four at least (`RecentIsPrefix`); on each prefix at least
21 of 22 results pass for `v1` (`FewOfFirst`) and at most 18 for `v2` (`ManyOfSecond`),
so the rates differ by more than a tenth (`RatesDiffer`).

### Only model-checked

- Liveness: `RowsLeaveMemory`, `StopTerminates`, `PollersEnd`, `RowsArrive`,
  `InTimeScored`, `ClicksSettle`, and the `Progress` in `BoundedMapSpec`. Fairness and
  ENABLED are out of the prover's reach.

Every safety invariant and action property of the passing runs is stated by a theorem;
what such a theorem assumes beyond the constants' assumptions is in the tables and
sections above.

## Disagreements

Each of the first four is a run in which TLC finds the violation.

- `collector_blip`: `routes.rs:36-37` says the collector "buffers through brief
  ClickHouse blips"; `flush` clears the buffer after one failed insert
  (`storage.rs:112-115`), so acknowledged rows are gone.
- `live_gap`: a broadcast carries a late subscriber's event id past rows that only
  its pending catch-up would bring; if the stream drops then, the reconnect
  skips them. D23 says catch-up and broadcast "can overlap but never gap".
- `live_equal_ms`: `attach` compares the cursor and the head strictly
  (`live-broker.ts:120`). A subscriber whose snapshot saw part of the head
  millisecond gets no catch-up, and the trimming withholds the rest.
- `eval_stuck`: with `batchLimit` or more spans starting within the overlap, the
  page under the watermark is the same at every run, and later spans are never
  scored, against `runner.ts:282` ("the next run starts just above this batch").
  With the defaults: 500 matching spans within a minute.

Seen while modelling, with the passing runs set so that they do not arise, or the
property stated with the exception:

Live stream

- A poller may settle while a late subscriber's catch-up is under way; the stream
  ends `complete` and the catch-up is discarded (`live-broker.ts:246-248`).
  `CompleteMeansRoot` fails with two tabs and no fault; `SettledTabsHaveRoot`
  states what remains.
- The single catch-up is capped and not continued (`live-broker.ts:244`).
- More rows than the cap in one millisecond: each page is the same
  (`live-deltas.ts:58`).
- A poller started by a reconnect past the root's millisecond never sees the root
  and ends `idle` (`live-broker.ts:197`).

Evals

- An edited definition keeps its watermark (`lib/evals.ts:97`), so spans
  it has passed get no result under the new version, though D9 says edited evals
  "recompute under a fresh key".
- Two edits that read the same version write the same successor
  (`lib/evals.ts:88-97`): `OneConfigPerVersion` fails with two editors.
- A failed evaluation is recorded and, being recorded, not tried again under its
  version (`clickhouse.ts:151-172` counts errored rows).
- A judge call that timed out is not aborted (`judge.ts:145`): with its retry
  beside it, more than `concurrency` requests can be open at the provider.
- A negative `maxRetries` is a number and accepted (`config.ts:143`); the attempts'
  loop then has no turn and every content is an error.
- The prompt's placeholders are filled with `replaceAll` and string replacements
  (`judge.ts:77-82`): `$&` and its like in an input are read as patterns, and
  `{output}` in an input is filled in turn.
- Ajv caches a schema object before it holds it against the meta-schema and before it
  finds its `$id` registered, by an earlier pass or an earlier rule. Compiling such a
  schema throws for the first JSON text of a pass, and the rule fails; for the second
  text the cached object is compiled, and the rule may pass (`deterministic.ts:45-57`).
  So "a malformed rule [...] fails closed" (line 128) is true of what does not compile
  only: `FailsClosed` speaks of that, `SameVerdictAgain` exempts the text for which a
  schema threw for being new, and `UnsettledOnce` says there is one in a pass.
- Scores that the application records are said to be aggregated "exactly like
  engine-computed scores" (`sdk-results.ts:8-9`), but the regression pass asks for the
  statistics of stored definitions only (`runner.ts:307`): a drop in recorded scores
  raises no signal.
- Promotion takes `LIMIT` rows without an order (`apps/eval-runner/src/clickhouse.ts:254`):
  events of a window larger than the limit may be left out of every pass.
  `WindowPromoted` speaks of windows that fit.
- An explicit baseline variant without enough samples means no comparison at all
  (`regression.ts:51-52`), not the fallback to the best variant.

Dashboard

- "A trace that left the live set just completed" (`LiveTraceRail.tsx:53-54`): it may
  also have been quiet for ten minutes or be pushed out by twenty newer ones
  (`live-list.ts:57`, 73-74). The page is refreshed then, and not when the trace does
  finish, so the table may go on showing it as incomplete: `TraceNeverVanishes` promises
  completeness of traces only that were done when they left.
- The query looks for running traces among spans that started within `LOOKBACK_HOURS`
  (`live-list.ts:54`), so it overlooks the root of a trace that started earlier, and may
  list it after it has finished, until its other spans are old: `FinishedStaysAway`
  exempts `Old`.
- The status route says "public polling costs at most one fan-out per TTL"
  (`status/route.ts:4-5`), but requests that come while one is awaited each start
  their own (line 77). `OutageReported` states what remains true: whichever is
  stored last, none misreports for longer than the TTL.
- `ensureSandboxSdk` throws when the exporter refuses the endpoint, after the slot
  and the budget were taken (`sandbox.ts:261-264`): the slot is never given back.
  `SlotsMatchRuns` assumes an endpoint that is accepted.
- The daily budget is a variable of the process (`sandbox.ts:76`): a restart
  forgets it. `CapsHonoured` allows one budget for each process.
- Where spans name each other as parents, the cut falls where the first walk closes
  the cycle, which depends on the order of arrival (`trace-tree.ts:237-258`): a
  reload may show another root. `ReloadShowsSame` speaks of traces without cycles.
- The list's time window is a predicate on spans (`lib/clickhouse.ts:73-75`), applied
  before they are grouped: of a trace that straddles its bound only the newer spans
  are summed up, though aggregates are to "always cover the WHOLE trace" (line 69). A
  fraction of an hour is cut off. `ListAgrees` speaks of traces within the window.
- A retried span is counted twice by the list and once by the trace page
  (`lib/traces.ts` takes one row per span), and the list's "Started (UTC)" is the start
  of a trace's latest span, the page's that of its earliest.
- The height of the rows' region is measured on mount and on resize only
  (`TraceViewer.tsx`, `measure`): a live trace opened with few rows grows past what was
  measured, and the lowest rows in view stay blank until the next resize.
- A deep link to a span that has not landed shows an error until Retry is pressed,
  also after the span has arrived, as the panel's fetch does not depend on the
  spans (`SpanDetailPanel.tsx`; the preselection is `TraceViewer.tsx:498-507`).

SDKs

- "Flush and tear down the tracer provider" (`tracer.ts:87`): if the last export fails,
  `current.shutdown()` rejects (line 93) and, with no `finally`, `trace.disable()` is not
  reached. The provider that was shut down stays registered, and the next `init` takes
  its tracer from it: nothing it records is exported. `TracerIsLive` speaks of an `init`
  whose last shutdown did not fail.
- A chat call answered after `shutdown` is told to the application as an error:
  `recordResponse` calls `getState` (`openai.ts:126`), which throws into the catch.
  `TransparentWhileUp` exempts calls during which the SDK was shut down.
- `recordRequest` is outside the `try` (`openai.ts:157`): what it throws reaches the
  application and leaves the span open.
- `init` while a `shutdown` is awaited registers nothing, as the old provider is
  still the global one, and takes its tracer from that (`tracer.ts:80-96`); the
  `trace.disable` after the await then leaves nothing registered. `TracerIsLive`
  speaks of an `init` with no shutdown awaited.
- If the AI SDK never sends `onEnd`, the operation's state and open spans stay
  (`vercel.ts:457-475`).
- Python's `init` checks and sets `_provider` without a lock (`tracer.py:111`): two
  threads may both set up. `PyRuntime` has one thread.
- An instrumentor whose `uninstrument` raises stays instrumented with the old
  provider, is popped from `_active` and not tried again, and its cleanup is skipped
  (`instrument.py:215-223`); `HooksOfThisInit` and `NothingLeftBehind` exempt it.
- "Prompt/response content is **never** allowed to remain a span attribute"
  (`_processor.py:7-8`): indexed keys other than role, content and finish reason, such as
  the arguments of tool calls, are not content to line 47 and stay; so do OpenInference
  keys on a span without a kind (`_openinference.py:155-157`). `ContentNeverStays` names
  both as out of the rule's reach (`OutOfReach`).
- With capture off content "must not leave as events either" (`test_enrichment.py:166-167`):
  content events that the instrumentation put on the span itself are exported all the
  same (`_processor.py:219-238`). `ContentKeptOnce` says these stay as they are and
  speaks of capture for all others.

Demo

- `main.ts:4` calls `seed` "idempotent". After a failure between two inserts it finds
  spans and says "already seeded" (`seed.ts:41-46`), and the corpus stays partial;
  `reset` repairs it, which is what `ResetLeavesOneCorpus` says.
- A hero trace of an earlier run may land after a `reset` has deleted the spans, and
  stays. Two seeders at once, which nothing prevents, leave rows of both timelines;
  `DemoSeed` has one at a time.

## Not modelled

- Database schemas, migrations and deployment: declarations and scripts. The
  tables appear as state of the modules that use them.
- Queries that only read and are about no single trace (`lib/evals.ts` but for the definitions, the charts' aggregations), cost
  arithmetic, pricing tables, formatting and everything that only renders: they
  keep no state over time that another part depends on.
- Keyboard navigation and theme.
- The Python SDK's context managers (`agent.py`), which hold one span each, and the
  attribute values of both SDKs.
- The texts, token counts and prices of the demo's corpus; `verify.ts`, which reads.
- The rail's cache under a clock that is set back (`Date.now()` is taken to go on), the
  filters and pages of the table below it, and spans that land late and move a trace's
  start.
- Python instrumentations that raise in `instrument()` after they have wrapped something,
  and a host application that undoes what `init` applied.
- OpenTelemetry's exporters, the AI SDK, ClickHouse, Postgres and the judge's
  provider are external and appear as what they may do.
