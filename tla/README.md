# A verification of saturate

saturate sends every row of a dataset through an inference endpoint, as fast as the endpoint
allows, and stores the answers so that a run that was killed can be resumed. This directory
holds TLA+ models of its core, the TLC configurations that check them on small instances and
the TLAPS proofs that hold for instances of any size. Paths such as `pipeline.py` are under
`saturate/`, `CONTRACT.md` and `docs/` are those of the repository.

## The system

| Part | Source | State it keeps | Operations |
|---|---|---|---|
| Row pipeline | `pipeline.py` | reader thread's room and stop flag, feeder, one task per row, the backlog and prepare limits, held errors, the results queue, the first failure | `through`, `Results.__anext__`/`stop`/`take_waiting`, `_produce`, `_feed`, `_row`, `publish`, `read_input` |
| Attempts and breaker | `transport.py` | consecutive failures, open/dead, close event; attempt number, pressure flag | `call_endpoint`, `Breaker.gate`/`success`/`failure` |
| Admission | `core.py` | window, slots and their queue, the tick's counts, the controller loop | `AdaptiveClient.post`, `_Slot`, `AdaptiveLimiter._tick`/`observe`, exit |
| Window controller | `controller.py` | phase (steady, trial, settling), ceilings, evidence, stall timer | `Auto.begin`, `decide` and its rules |
| Writer and drain | `writer.py` | bounded queue, pending get, flush timer, batch, cleanup task | `drain`, `put`, `finish`, `_run` |
| Storage | `sink.py` | buffer; part files, manifests, marker | `ParquetSink.append`/`flush`/`existing_ids`/`commit` |
| Resume filter, sharding, prepare_ahead | `source.py` | ids seen and skipped; a rolling window of futures | `skip_done`, `shard_of`, `rolling_map` |
| pump | `__init__.py` | `Stats` | `pump`: resume, run, account, mark |
| Engine signals | `signals.py` | failed reads, blind mode, last counters per series, the engine's name | `probe`, `identify`, `HttpScrape.read`, `_hit_rate` |
| Engine process | `engine.py` | process group, health streak | `Engine.__enter__`, `wait_for_health`, `Engine.__exit__` |
| Client | `core.py` | HTTP client, the task of the tick loop, a held cancel | `AdaptiveClient.__aenter__`, `__aexit__`, `_wait_for_loop` |
| Telemetry | `__init__.py`, `sink.py` | one write in progress, the run's file | `on_tick`, `write_telemetry`, what `pump` writes at its end |
| Types | `schema.py`, `sink.py` | the pinned schema, the types in the buffer | `probe`, `_conform`, `_salvage`, `_cast_to_shared_types`, `_seed_schema` |
| One file per row | `sink.py` | a directory; the first-rows check | `FileSink` |
| Sources | `sources.py` | none that lasts | `bucket_rows`, `_fetch`, `dataset_rows` |
| The rest | `http.py`, `telemetry.py`, `settings.py`, `_logs.py` | none that lasts | wrappers, pure functions, messages |

How they meet. `pump` asks the storage which ids exist, wraps the input in `skip_done`, and opens
`through`. The reader thread pulls rows; the feeder starts a task per row; a row builds its body
(prepare limit), asks `AdaptiveClient.post` to send it, and publishes what it got. `post` passes
the breaker's gate, waits for a slot in the window and makes its attempts, and reports each to
the limiter. Every two seconds the loop hands an observation to `Auto`, which sets the window.
`drain` takes finished rows from the results and puts them in the writer's queue; the writer
task has a thread append them to the sink, which writes a part and then its manifest when its
buffer is full or the timer says so. At the end `pump` compares what it read with what it stored
and writes the completion marker. Around all this a job may run its own server (`Engine`), whose
gauges the loop reads each tick; its rows may come out of a bucket, read ahead by a pool of
threads; and each tick may start a write of the trajectory so far.

What is hard: the event loop's tasks interleave at every await and any of them may be cancelled
there, the reader and the writer are threads, a cancelled scope still lets a task run whose
await was already answered, processes die between two writes, writes that raise may have landed,
and all of it shares counters, queues and limits. What makes the parts correct:

* pipeline: places of both limits are conserved; every finished row is in one place; a run ends
  and its end marker is last; fail_fast stores nothing; the first failure wins.
* admission: one opener per open circuit; no slot lost, none given above the window; nothing
  starts during a pause or without a controller; pressure is counted once per row.
* controller: window in its bounds and under its ceiling; failed trials go back; the search
  neither drifts down nor gives up.
* writer: rows in order, none lost, none twice; `drain` ends; quiet streams are stored.
* storage: only durable rows are skipped; at most one flush of rework; exact counts; the marker
  means that every row is there.
* types: all parts can be read together; no value is rewritten; a conflict costs one row.
* sources and files: results in order, a bounded look-ahead, nothing left in a pool; a file that has
  a row's name is whole; shards under one limit cover the same objects, however often they are run.
* engine: ready means N good health checks and then a good trial; no process is left behind.
* signals: a hit rate is about one interval and never across a gap; blindness ends; trtllm-serve's
  statistics are drained once at most.
* session: the client is closed and the loop over however a run ends; a marked run has its whole
  trajectory; a job ends.

`PROJECT.json` lists the components, the hazards at their lines with the properties aimed at
them, and for each definition the lines it stands for.

## The modules

| Module | What it models |
|---|---|
| `Pipeline` | `through`, `_Run`, the reader thread and its caller |
| `Admission` | `post`, `_Slot`, `Breaker`, `call_endpoint`, the controller loop's ticks and death |
| `Controller` | `Auto`: `_observe` and `RULES` |
| `Writer` | `drain`, its cleanup task, `_Writer` and its queue, the calls of the sink |
| `Storage` | one shard over its runs: `ParquetSink`, the writer thread, `skip_done`, `_pump`'s accounting, crashes |
| `Output` | what an output promises, without its files; `Storage` and `Files` implement it |
| `Schema` | the rules of `schema.py`, and how a sink pins, probes, salvages and seeds |
| `Ahead` | `rolling_map` on the three kinds of pool it is given |
| `Files` | `FileSink` behind a run, several processes in one directory |
| `Ingest` | composes `Ahead` and `Files`: a sharded run over stored objects, `bucket_rows` |
| `Engine` | the server of a job: boot, health, teardown of its group |
| `Scrape` | `probe` and `HttpScrape` |
| `Session` | composes `Engine` and `Scrape` with the client, its tick loop and the telemetry of `pump` |
| `Pipeline_proofs`, `Admission_proofs`, `Storage_proofs`, `Writer_proofs`, `Controller_proofs`, `Ingest_proofs`, `Session_proofs`, `Schema_proofs` | theorems and proofs |
| `MC*` | rows, inputs and documents' claims for TLC |

An action is what a task does between two awaits, or one step of a thread or process that others can
see. The comments in the modules name the functions; `RowFinishes`, say, is `_Run.publish` as the
writer sees it. Operators marked "mutant" stand beside the definition they would replace; each
is a plausible slip in the code, and breaks one property.

**Pipeline.** `pc[r]` is where a row's task is; `holding` and `prepare` are the prepare limit,
`backlog` the other. The state `"doomed"` is a task that will resume with a cancellation, and the
states `placed`, `built`, `admitted`, `error`, `fatal` are tasks whose await was answered and
which run on once more after a cancel: with anyio a cancel only reaches pending awaits. The
caller takes rows, stops, raises or is cancelled at any point. `PrepThreads` chooses whether a
request is built in a thread, which a cancel waits for.

**Admission.** `pc[r]` again; `holders` and `waiters` are anyio's `CapacityLimiter` (external,
FIFO); `decided` and `counts` are the pressure that went into decisions and since. Backoff and
budget have no clock: the budget may be over at any backoff, and `Probes` probes fit in
`max_open_s`. `Multipart` are the rows whose body cannot be sent twice.

**Controller.** One action per tick: an observation is chosen, `Observed` is `_observe`, and
`Rules` is the first of RULES that applies. Engine gauges are a free choice of whether their
condition holds. Time is in ticks; a backpressure ceiling may be released at any tick, since a
tick has no upper bound (it includes a scrape and whatever blocked the loop). Throughput is
measured in factors of `improve`, so readings fall on a grid. The reasons of a hold are not told
apart. Counters are cut off where no rule tells larger values apart (`MostTicks`, `MostSilent`).

**Writer.** Rows are numbered as they finish. `results` is the pipeline's queue; `queue` the
writer's; `next` the pending `queue.get()` that survives a timeout, and holds a row once it
is answered. `todo` is what the cleanup hands over: the row drain held, then what waited. `broken`
says that a call of the sink failed; `first` and `outcome` compare what went wrong first with
what the caller saw. `RowsOf` are the rows of a queue, without the end that `finish` puts.

**Storage.** `parts` are the part files with their records, `indexed` those with a manifest. A
flush is a part and then its manifest; each is tried `Attempts` times, and an attempt that raises
may have landed with its removal failing too (`doubts`, `landed`); every flush writes under a name of
its own, so what an attempt left is its own flush's. `base` and `skip` are what the run found.
Crash, failed run, resume with or without `retry_errors` may come at any step.

**Schema.** Types and rows are trees, written flat. A schema gives each path (the names from a column
down to a field, `"[]"` for the items of a list) its kind; a row is the set of its cells, one for each
value in it. What `schema.py` finds by descending a type is then said of all its paths at once: a
path is typed if some path at or below it has a scalar, a type fits the pin if it does so at every path
both have. `TypeOf` and `Join` are inference and `unify_schemas`, where "clash" stands for pyarrow
raising; `Goes` and `Holds` say whether the safe cast raises (these are external: pyarrow's, as the code
uses them), `Cast` is `cast_columns`. The functions of `schema.py` keep their names (`Fit` with `New` is
`fit` with `_fit_struct`, `Storable` is `check_storable`). `pin` and `buf` are the sink's; `Add`
is one row offered, probed as `drain` does or appended without a probe, and a full buffer becomes
a part in the same step. `Kept` is what `_salvage` and `_cast_to_shared_types` leave of a batch. A
restart reads the pin back from the newest part it can read; a write that was killed leaves an
unreadable one. A whole number beyond 2^53 stands for the values a cast refuses.

**Ahead.** `left` is the iterable, `pending` the deque of futures, `current` the one popped, `call` the
state of each in the pool, `gen` where the generator stands. `Roll` pops, pulls and submits in one
step, as the consumer's thread does before it waits. `Executor` says whose pool it is, which
decides what a close cancels and whether anybody waits for a call that runs.

**Files.** `files` and `temps` are the directory; a write is open, text, replace, and a process may be
killed between any two. `done` and `seen` are `skip_done`; `accepted` and `rejected` the check of the
first rows. `Ingest` gives each process its own iterator (`A!Open` on what `Selected` leaves of the
glob), passes what is yielded to `F!Row`, and ends a run as `pump` does: nothing in flight,
nothing being written. Two processes may work on one shard.

**Engine.** The group is a leader, which only `Popen` reaps, and a child, which somebody else does. `eng` is the
line `__enter__` or `__exit__` is at; health checks and the trial are answers, good only while some
process of the group listens. `answers` is history, for the property. Ctrl-C and deaths come anywhere.

**Scrape.** Of an engine's gauges the counters of the prefix cache are kept, per series: an engine serves
(`Serves`), restarts, joins or leaves between reads. `fails`, `blind`, `skipped`, `prefix` are
`HttpScrape`'s. A read can be lost at any time. `since` and `truth` record what the engines did between
the readings a rate compares.

**Session.** `at` is the line of `pump` and of the client's enter and exit; `loop` the task of the tick
loop; `writers` the threads that write telemetry, each with the snapshot it was given. A cancel
(Ctrl-C) comes at each await. What rows do in between is `Pipeline`, `Admission` and `Writer`: here the
body ends, well or badly. `Tick` reads the gauges through `Scrape` and calls `on_tick`.

## The runs

All expect to pass, unless they say otherwise.

| Run (configuration) | Bounds | Question and answer |
|---|---|---|
| `pipeline` (`PipelineRuns`) | 4 rows, fail_fast 2, backlog 3, prepare 1, read-ahead 2, build threads | Over all interleavings: the limits' places are conserved and the reader is bounded, each finished row is in one place, fail_fast stores nothing, END is last, a run leaves its caller all it should, finishes while its caller reads, and returns once stopped |
| `pipeline_leave_early` | 2 rows, backlog 1 | Violation, see below |
| `pipeline_held_errors` | 2 rows, fail_fast 2 | Violation, see below |
| `admission` (`AdmissionRuns`) | 3 rows, one that cannot be sent twice, threshold 2, 2 attempts, 2 probes, window at most 2 | One opener, slots accounted, window, pauses and the loop's death respected, pressure counted once, every `post` ends |
| `storage` (`StorageRuns`) | 2 ids, one repeated in the input, one row fails, one does not fit, flush every 2, 2 attempts; 2 faults, 1 doubtful write, 2 restarts, 3 troubles in all | Only durable rows are skipped, rework is bounded, rows and counts add up, `Output` is implemented, the shard completes |
| `writer` (`WriterRuns`) | 4 rows, queue of 2, timer, two cancels | Rows in order, once, none lost; `drain` ends; a quiet stream is stored |
| `writer_first_failure` | 3 rows, queue of 1 | Violation, see below |
| `controller` (`ControllerSearch`) | windows 2 to 6 (an engine with 6 places, a caller who asked for 8), three levels of throughput, backoff up to 2, jitter 1 | Bounds and ceiling, one stall cut an episode, failed trials go back, small losses do not add up, the search goes on |
| `schema` (`SchemaRuns`) | 13 row values over two columns, at most 3 rows, flush every 3, 1 restart; declared, probed and appended | Parts can be read together, stored values say what was given, a conflict costs one row |
| `ingest` (`IngestRuns`) | 2 processes, 6 objects of which the limit takes 5, 2 shards (one of 4 objects, of which 3 share an id; one of 1), prefetch 2, one id that may fail, one that is rejected, 1 fault, 1 kill or second process, which starts on the short shard (`Crowded`) | Order and look-ahead at its bound, files are whole, `Output` is implemented, the first objects are stored in the end and no others |
| `ahead_window` (`AheadWindow`) | a caller's pool of 4, window 2 | Violation, see below |
| `session` (`SessionRuns`) | one run of `pump`; 2 health checks, 4 polls, 2 kills of the sweep; 2 series, 2 misses to blindness, a retry every 2 reads; 4 ticks, a write every 2; at most 2 mishaps of the engine's processes or Ctrl-C, 2 events of the series and 1 fault, 2 of all these together | The engine handed out is ready and leaves nothing, hit rates are honest and blindness ends, telemetry is whole, the client closed, the job ends |

Why these bounds are enough to see something. With four rows and a backlog of three some rows are
in flight, one is held back, one waits to be taken and one waits for room, and fail_fast can
trigger while another row finishes, or be missed by one; a read-ahead of two lets the input end
while a row waits. Three rows are the fewest for an opener, one that waits for it
and one that holds a slot. Two ids with one repeated, failing and unfit, give every pair of
records; one flush holds both, and a fault, a doubtful write and a restart can fall in one run. Four
rows and a queue of two make the queue full while drain holds a row and another waits. The
windows 2 to 6 allow two halvings (a second stall cut), two steps of 7/8 in a row (a run of small
losses) and all factors. Three rows in a buffer are the fewest for a row that conflicts with one before
it and casts out another, and one restart the fewest for a pin read back. In `ingest`, Prefetch + 2
objects in a shard are the fewest for which a read-ahead without its bound shows; that three of them
share an id (`ids=` need not be injective, and `skip_done` drops the repeats) spares states of `Files`.
Two processes can be on two shards, or by mistake both on the short one, with a kill between the
open and the replace of a file; `Crowded` leaves out only two of them on the long shard at once.
Two health checks, then a trial, can fail at each place; one run of `pump` suffices, since a client and a
scraper are new in each and the only thing that lasts, the directory, is in `storage` and `ingest`. Where
bounds are summed ("troubles in all") it is to keep pairs of mishaps of any two kinds, which is what
the properties need. Every mutant listed in `PROJECT.json` is caught within these bounds.

Windows of at most 4 are left out of `SearchGoesOn`'s instance: there x7/8 rounds back to the
window itself (`round(3.5)` is 4), so a controller at a maximum of 4 or less has no move left
and rests, as the code does.

Deadlock is checked: modules whose system comes to an end have a step, `Over`, that says so. Only
`pipeline_leave_early`, `pipeline_held_errors` and `ahead_window` say `CHECK_DEADLOCK FALSE`: in
the first `through` waiting for ever is what is shown, and the other two stop at their end.

### Fairness

* Pipeline: the event loop runs what can run, as one weak fairness over all of its tasks (a run has
  finitely many such steps); `EnvironmentFairness`, assumed by `Completes`
  alone, adds that the input yields, the caller reads on and waits are answered. A stopped run
  needs none of it.
* Admission: each row goes on, since every await of `post` has a timeout. None on cancels, ticks,
  answers of one kind or the controller's death.
* Storage: somebody runs the shard again after a crash; the number of faults is bounded.
* Writer: drain, cleanup, writer task and timer go on; the sink's calls return (they bound their own
  I/O). None on rows, end of stream or cancels.
* Controller: the loop ticks for ever and a ceiling grows old. `SearchGoesOn` is about runs whose
  ticks are calm from some point on, so it is stated of the calm ticks.
* Ingest: a process that is not killed goes on, and (strong, since a run in progress disables it)
  somebody starts each shard that is left. Failures and kills are bounded, never fair.
* Session: the main thread goes on (boot, exit, the steps of a run, leaving the engine after the last
  run), and so do threads that write. The body of a client ends, which is `Pipeline`'s and `Writer`'s
  to show. None on ticks, cancels, failures, or the server.
* Schema has safety properties only.

### Disagreements between the code and its documents

1. `pipeline_leave_early`: leaving `async with through(...)` before its first await does not stop the
   run: `stop()` finds neither reader nor scope, and `through` waits for ever on a full backlog
   (`pipeline.py:109`, against `pipeline.py:177`).
2. `pipeline_held_errors`: when the breaker gives up, errors that fail_fast held back are dropped
   (`pipeline.py:244`, against `docs/pipeline.md:56` and `:61`).
3. `writer_first_failure`: a cancel while drain waits for its cleanup hides a write that failed before it
   (`writer.py:156`, against `docs/pipeline.md:66`).
4. `ahead_window`: with an executor of the caller's, `rolling_map` runs window + 1 calls at once: the
   oldest is popped before the next is submitted and then awaited (`source.py:179`, against
   `source.py:165`, `:178` and `:201`).

## What is proved

Theorems hold for every value of the constants allowed by the assumptions of the modules, from
`Spec`; fairness is used by none. All the safety properties that the passing runs check are stated by a
theorem. An invariant of a run is seldom inductive; the strengthenings
below were checked by TLC on the run's instance before they were proved.

* **Pipeline_proofs**, in layers. `Shape`: types, rows are fed once and in order, END is last, which needs
  that a closed feeder has no active task (`TypeCorrect`, `NothingFollowsTheEnd`). The accounts of the
  two limits count finite sets of rows; each action moves a row between the counted classes, which
  the lemmas on cardinalities turn into arithmetic (`BacklogConserved`, `PrepareConserved`).
  `ReadAheadInv`: `ReadAheadBound` alone is not inductive, since a stop adds room that is not there;
  so unless stopped, the room left, the rows ahead and the one being read fit in `ReadAhead` together,
  and a stopped reader sees its flag before it reads again (`ReaderStaysBehind`; with the accounts,
  `PlacesAlways`). `FailFastInv` is what fail_fast held back or gave up (`GivingUpStoresNothing`).
  `OnePlace`: each finished row is in exactly one of held, results and taken, and these sequences
  have no repeats (`FinishedRowsKept`). `WholeInv`: only a cancelled run discards rows, an input that
  ended was read to its end, and until a cancel every row that was fed is on its way or finished, so
  a run that ends by itself has them all (`RunsEndWhole`). `FirstFailureWins` is an action property no run repeats.
* **Admission_proofs**: `AdmissionTypes`, `OneOpenerAlways`, `SlotsAlwaysSound` (from `SlotsAccounted` and
  `WindowHolds`), `GuardedAdmission` (from `BreakerPauses` and `LoopAdmits`), `PressureOnce`. The invariant
  `AInv` is the types, one opener, the accounting of slots, and that a row only backs off before an
  attempt left to it (without it a retry could exceed its attempts). Resizing and giving back a slot
  hand it to the head of the queue: what that does to holders, queue and rows is proved once, as a
  lemma on functions and sequences without repeats, and every action that frees a slot cites it.
* **Storage_proofs**: `StorageTypes`, `SkipsOnlyDurable`, `AccountedAlways` (from `NothingUnaccounted`) and
  `StorageKeepsPromise`, that `Storage` implements `Output`. The invariant `SInv` adds to the
  properties that a process which is gone left nothing behind in memory, that a writer at the
  manifest has just written the buffer as the last part, and, as long as the run goes well, that
  every row read is stored, in flight or buffered. The last is what the marker rests on: a run
  that returns has an empty buffer and nothing in flight. Records only grow, so a step of
  `Storage` is a step of `Output` or changes neither records nor marker. `StatsAlwaysExact` rests on
  `Counted`: while a run goes well, what it counted as processed is what its new parts hold, what the
  buffer holds, and the rows it will turn into errors at the manifest. `ReworkAlwaysBounded` rests on
  `Doubled`: each id has its first result for free, each doubtful write pays for one flush of
  results stored again, and an id whose result is already stored but still coming or buffered
  counts as if it were stored again. Both need `Batches`: no flush is larger than `FlushEvery`.
* **Writer_proofs**: `WriterInvariant`, `WriterKeepsOrder`, `WriterLosesNothing`. `Conveyor`: as long as no call
  of the sink failed, the sink, the batch, the pending get, the queue, the row drain holds, `todo` and
  the results hold the rows `1..finished` in this order, and each action moves a row from one belt to
  the next. It needs `EndPlace` (the end is put once and stays behind every row), `Phases` (what
  drain, its cleanup and the writer task can be at together) and `Failures` (a failure never goes away
  before the caller has it). `RowsInOrder` is the belt from drain to the sink; that nothing is lost
  is that a writer which is done, without a failure, has an empty belt before it.
* **Controller_proofs**: `ControllerInvariant`, `WindowAlwaysBounded`, and the action properties `StallCutsOnce`,
  `TrialsGoBack` and `LossesDontAdd`. The invariant `CInv` types the state with its phase and adds
  three facts: the window is under the ceiling, an armed stall rule has seen an answer, and `RunOf`, that
  the level a run of moves down began at is the one its trials are compared with. Every rule keeps
  the window in its bounds (`Safe`) and does one of four things: it holds, ends a run of moves down,
  keeps a move down, or opens a trial; the action properties follow from which of these it does.
* **Ingest_proofs**: `FilesAlwaysWhole` and `FilesImplementOutput`, that one file per row implements
  `Output` too, for any number of processes on any shards. Every step leaves the files alone or
  replaces one by a whole temporary file, and what a run begins to skip has a file (`GoodStep`); so
  files only ever become whole. `ReadAheadKeepsOrder` and `ReadAheadContained` are about `Ahead` as
  `bucket_rows` uses it, with its own pool that is joined. The invariant `Reads` cuts what a process
  reads into the results taken, the call due, those pending and what is left (`Pieces`), says how far
  the calls of each piece are (`Called`) and what the generator's place implies (`Stands`: once it
  ends no call is queued, once it is closed none runs). Since an object is listed once, a step on one
  piece leaves the calls of the others alone. `OnlyFirstObjectsStored` is the safety half of
  `FirstObjectsStored`.
* **Session_proofs**: `EngineAlwaysSound`, `ClientAlwaysClosed`, `TelemetryAlwaysWhole` and
  `ScrapeAlwaysSound`. The parts share only where the run is (`at`) and the bounds, so each has an
  invariant that the other parts' steps keep: `EngineInv` (the answers since the last bad one are the
  streak, and a sweep only begins when the leader is reaped), `ClientInv` (what `at` says of the loop, the
  body and a held cancel), `TelemetryInv` (at most one write goes on, to the newest file, and at the end
  it has every tick), `FindInv` (how many reads an engine can stay unfound, and that its statistics were drained at most once) and `RateInv`. A
  hit rate is honest because of `Baseline`: what the scraper remembers of the counters, with what the
  engines did since, is what the counters are, unless a series restarted or a read was lost, and
  then the scraper has forgotten it. This adds up counters over a set of series, by the lemmas on sums
  with which the module begins.
* **Schema_proofs**: `SchemaInvariant`, `SchemaTypes`, `PartsAlwaysReadTogether`, `ValuesAlwaysKept` and
  `ConflictsCostOneRow`, for any rows that are trees and any declared schema. It goes from kinds to
  types to batches to parts. The kind of several values is one of theirs, and raises only if two of them
  are apart (`KindIsOne`, `ConflictRaises`, `RaisesConflict`); so a join that does not raise extends what it
  joins but for whole numbers among doubles, and joining with the pin extends the pin (`JoinExtends`). What
  conforms, alone or as a batch, is stored with a type that extends the pin and has every typed field
  of its own (`StoredIs`, `StoredTells`). `Fitting` is a recursive function: that it exists, and that
  whatever it leaves fits the shared types of what it leaves, is an induction over the rows demoted
  (`DemotesExist`, `FittingFits`), and the salvage keeps exactly the rows that unite with the earlier ones
  kept (`SavesExist`, `NoClashIs`). The invariant `IInv` says that the pin is the schema of the newest part
  a sink can read, with no field that is untyped; that the parts extend one another in their order
  and every stored row means what was given; that an error row in the buffer does not fit the pin or
  disagrees with an earlier good row that does (`Blamed`: so the first row that fits is never an
  error row, and some row is stored); and that the buffer's types are those
  of good rows in it (`Traced`), which is why a row that a probe turns down has a row to disagree with.

What the assumptions on the constants say: positive sizes and thresholds; finite sets of rows, ids and
series; `NoId` and the like outside the sets they are added to; objects are listed once (the paths
of a glob are the keys of a dictionary). `MaxServed` is at least one, so that an engine can serve.

Induction: a statement about every number or every finite set is proved as the fact that the set of the
numbers it holds for is `Nat` (`Grows`, in `Session_proofs` and `Schema_proofs`). What cannot be proved with this prover:

* liveness under fairness: `Completes`, `StoppedRunReturns`, `EveryPostEnds`, `ShardCompletes`,
  `DrainAlwaysEnds`, `RowsGetStored`, `SearchGoesOn`, the first half of `FirstObjectsStored`,
  `SessionEnds`.

These, the pools of `Ahead` that `bucket_rows` does not use, and the four disagreements are only checked
by TLC.

## What is not modelled

* Time: timers, backoff and budgets are choices; see the modules above.
* anyio and asyncio themselves: cancel delivery, scopes and `CapacityLimiter` are modelled from how
  the code uses them. A cancel of the caller that coincides with the writer's own cancel of
  drain's reading is merged by anyio and left out. So is the shutdown of the loop after a second
  cancel, which ends the cleanup and the writer task with it (`docs/pipeline.md:67` says such rows are
  logged).
* `_Writer.put`'s early return on a dead writer: the task ends only after END, so it is never taken.
* After a failed append the oldest unflushed row stays past its interval, and the writer task wakes
  up with a timeout of zero again and again until the end arrives; this changes no state.
* In `Storage` a row fits its column or does not (`Unfit`), and which rows fail is a constant; what
  fits is `Schema`'s question. A part counts as durable once its write returned or left it behind.
* In `Schema`: the order of fields (casts go by name), structs with a repeated field name, the further
  scalar kinds, which `same_kind` treats alike, the widths of numbers (a double cast to a declared float32
  column is rounded), and a declared schema without a probe. Writes that fail
  are `Storage`'s; a newest part that cannot be read comes from a killed write only, so a read that fails
  for another reason, which would start a sink unpinned, is left out. Shards that pin dynamic
  schemas at the same time may disagree: `CONTRACT.md:255` says so. The age of parts follows the
  clock that named them, taken to go forwards.
* In `Controller`: `Fixed`, which holds one number. `_bound_by` and `bp_frac` are arithmetic over counts whose
  verdict is a free choice here.
* In `Admission`: `Grant` takes from anyio that a limiter whose total is set gives out only slots that are
  free; `core.py:353` sets it and nothing in `src/` shows more.
* In `Session`: a controller loop that raises while it is being cancelled (`core.py:277`). In `Engine`: the
  moment between SIGKILL and the death of a process.
* In `Ingest`: when the generator of a stopped run is closed. The pipeline's reader drops it and does not
  close it, and `Drops` closes it at any time after the stop; no property needs it sooner.
* In `Scrape`: the text format of Prometheus and the capacity a probe reports, which is a bound of
  `Controller`.
* In `Files`: the check of the first rows begins anew with each run, as in the code, so an input of
  mostly rejected rows can stop every run; the bounds have one such row, which other runs pass.
* `dataset_rows` streams from another library and takes limit and shard in `bucket_rows`' order. Ids
  (`content_id` and the defaults of the sources) are pure functions of a row.
* Telemetry summaries and hints are pure functions of a finished list. HTTP clients are thin wrappers:
  `Admission` models what they return. Settings and logging check and format.
* Benchmarks, spikes and examples are not part of the library.

## Plan

Every module above is modelled and checked, and what its runs check of safety is proved. What is left,
most important first.

1. `Ahead` on the other two pools: `OrderKept` and `AheadBounded` carry over, with `InputFailed` added.
2. `Writer` composed with `Storage`: the sink's calls in `Writer` are those of `Storage`'s flush, so that rows
   in order and counts are exact together.
3. `Storage` composed with `Schema`: `Unfit`, which `Storage` takes as a constant, is what `Kept` leaves out.
4. The verdict of `_bound_by` as an operator over counts, checked against the text of `docs/`.
