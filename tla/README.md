# lsf-exporter in TLA+

A verification project for lsf-exporter, the Prometheus exporter for IBM
Spectrum LSF: TLA+ modules of its concurrent core, the TLC runs that check them
on small instances, and TLAPS proofs of their main properties for every value of
the constants. Paths are relative to the repository. Definitions keep the names
of the code where TLA+ allows it, and `PROJECT.json` maps each of them to its
lines.

1. [The system](#1-the-system)
2. [Plan](#2-plan)
3. [How the modules correspond to the code](#3-how-the-modules-correspond-to-the-code)
4. [What is checked](#4-what-is-checked)
5. [What is proved](#5-what-is-proved)
6. [Where the code and its documents differ](#6-where-the-code-and-its-documents-differ)
7. [What is not modelled](#7-what-is-not-modelled)

## 1. The system

One Go process. `main` builds the data sources, starts the background collection
in a goroutine and serves HTTP; every request is a goroutine of its own. The two
collection services share one native source, and through it one C library that
keeps state for the whole process. systemd starts, stops and restarts the
process.

```
 systemd ──SIGTERM/restart──► main ──ctx──► Service.Run ──► compositeSource ─┬─► lsfSource ──► liblsbatch
                               │                │ publishes                  └─► externalSource ──► /bin/sh
                               ▼                ▼                                     ▲
                          http.Server ──► snapshot, counters ◄── /metrics, /jobs ...  │ (lsfSource, ALL_JOB)
                               └────────► JobQueryService ◄── /all-jobs, /finished-jobs┘
```

### Components

| Component | State it keeps | Operations | Talks to |
| --- | --- | --- | --- |
| Background collection, `internal/collector/service.go` | `running`, `lastAttempt`, `lastSuccess`, three counters (atomics), `snapshot` (RWMutex), a ticker | `Run`, `collectOnce`, `CollectNowForTest`, `Snapshot`, `Stats` | calls `Source.Collect`; read by the handlers; ended by `ctx` |
| All-job query service, `internal/collector/job_query_service.go` | `running`, `lastAttempt` (atomics), `snapshot` (RWMutex) | `CollectAllJobs`, `Snapshot` | calls `JobQuerySource.CollectJobs(true)`; called by the handlers |
| `/all-jobs`, `/finished-jobs`, `internal/server/server.go` | none of their own | parse `refresh`/`trigger`, read the cache, refresh it, map errors to 409/429/500, filter | the query service |
| `/metrics` and the cached JSON views, `internal/server/server.go` | none | read snapshot, then counters, and render | the background collection |
| Native source, `internal/collector/lsf.go` | none in Go; one query session and one record buffer in liblsbatch | `collect`, `lsf_exporter_collect`, `fill_job`, the frees | liblsbatch |
| Composite source, `internal/collector/composite.go` | none | `Collect`, `mergeData` | its sources in turn |
| External source, `internal/collector/external.go` | none in Go; the command's processes and pipes | `Collect` | `/bin/sh`, decoder |
| Stub source, `internal/collector/stub.go` | none | `Collect`, which always fails | stands for the native source in builds without the `lsf` tag |
| Process, `cmd/lsf-exporter/main.go`, `deploy/lsf-exporter.service` | where `main` is, the listener, the shutdown deadline; systemd's restart timer | start, serve, shut down, exit, restart | everything above |
| Configuration, `internal/config/config.go` | the process's environment | `Load` | read once by `main`; its errors and what it lets through decide how the process ends |
| Job records, `fill_job` in `lsf.go`, `job_format.go`, `resource_request.go` | none | `status_text`, `formatExecutionHosts`, `requestedMemoryKB` | from liblsbatch's records to Go's |
| Metric series, `internal/server/server.go` | none | `writeJobMetrics` and its siblings, `escapeLabel` | a snapshot and two looks at the clock in, a page out |
| Logger, bundled script | none that outlives a call | pure output; a program of its own | |

### Behaviours that are hard to test

- **Interleaving.** Any number of requests against each other and against the
  loop: the gate is read before the running flag is taken; a snapshot is read
  before a refresh and again after a refusal; counters, `lastSuccess` and the
  snapshot are stored one after the other and loaded one after the other.
- **The LSF library is shared.** Each service has its own running flag, so that
  a refresh and the background collection can be between `lsb_openjobinfo` and
  `lsb_closejobinfo` at the same time.
- **Calls that hang.** The C calls cannot be interrupted
  (`LSF_EXPORTER_COLLECT_TIMEOUT` is not used); an external command can leave a
  process behind that holds its pipes open past the timeout.
- **Partial failure.** A read that fails in the middle of an answer, a source
  that fails beside one that does not, a command killed with half of its output
  written.
- **Time.** Attempts are kept in whole seconds and compared with instants that
  have fractions; they have lost the monotonic clock, so that a wall clock that
  is set moves the gate; a tick that fires during a collection waits.
- **Stop and restart.** SIGTERM while requests wait for a query that hangs; a
  listener that fails for good while requests are in service; a
  restart forgets when LSF was last scanned, and reads its environment anew; an
  interval that is not positive takes the process down after its first
  collection.
- **The page is made of what is no longer true.** A snapshot ages while jobs end
  and begin again; the clock is read twice for a snapshot and twice for a page, once
  cut to the second, and is not LSF's; the same thing may be described by two
  sources.

### What makes each component correct

- *Both services*: at most one scan in flight each; whoever takes the running flag
  gives it back, whatever fails; the scan that lands is the newest one begun; the
  minimum interval holds between the attempts of the service, up to what
  truncation and racing refreshes cost.
- *Handlers*: replies tell the truth about `refreshed` and the status, never go
  back in time, and filter without touching the cache; the counters of a scrape
  are never behind its snapshot; a hung scan holds up nobody else.
- *Native source*: every opened session is closed, no C memory outlives the call,
  what Go copies has not been freed, and an answer is whole or refused.
- *Composite and external source*: one failing source costs only its own data;
  nobody writes to a command's output any more when it is decoded; the timeout ends
  the collection.
- *Process and configuration*: requests are cut off only after the whole shutdown
  timeout, by a broken listener or by a panic, the
  process is gone before systemd kills it, a stopped exporter stays stopped, and
  one whose file has been put in order comes up by itself.
- *Job records and metric series*: two different things never share a series,
  what a page says of a runtime is off by no more than the page admits and a known
  rest, totals agree with the jobs, and a label reads back as the text it was made from.

## 2. Plan

Modules, in the order they are written, the most important behaviour first:

| # | Module | What it is | State |
| --- | --- | --- | --- |
| 1 | `Timestamps` | whole-second timestamps, used by both services | done |
| 2 | `SingleFlight` | abstract specification of what both services promise | done |
| 3 | `JobQuery`, `JobQueryProofs` | the query service with its two handlers | done |
| 4 | `CollectorService`, `CollectorServiceProofs` | the background service with its readers | done |
| 5 | `WholeScan` | abstract specification of what a scan promises its caller | done |
| 6 | `LsfScan`, `LsfScanProofs` | the native source over the library's session | done |
| 7 | `Sources`, `SourcesProofs` | composite, external and stub source | done |
| 8 | `Config` | `Load` as a function of the environment: what it refuses and what it lets through | done |
| 9 | `Exporter`, `ExporterProofs` | the process under systemd, composing the configuration and the services as their modules show them | done |
| 10 | `JobRecord` | what becomes of a record of the library: status, hosts, memory | done |
| 11 | `MetricSeries` | the series `/metrics` writes for a snapshot | done |
| 12 | `Scrape`, `ScrapeProofs` | jobs in LSF, a collection that reads them, a scrape that writes the page: composes 10 and 11 | done |
| 13 | `SequenceLemmas` | what the proofs need to know of folds and of flattening, for sequences of any length | done |
| 14 | `TextProofs` | about the texts of the page: `escapeLabel` and `formatExecutionHosts` | done |

`JobRecord`, `MetricSeries` and `Config` are operators; `Scrape` and `Exporter`
are the state machines that use them. Abstract specifications: `SingleFlight`,
implemented by both services, and `WholeScan`, implemented by `LsfScan`.

What could still be added: a specification of what `Exporter` assumes of the two
services, for them to implement (`AttemptsSpaced`, `RefreshesSpaced` and
`SingleFlightInv` are what it rests on); the status of clusters and queues as the bundled script makes it up.

## 3. How the modules correspond to the code

Throughout, one action is one access to state that goroutines share (an atomic,
a value under a mutex, the clock, a call that leaves the process) with the local
work up to the next one. `pc` says where a goroutine is; its labels name the
access that comes next. Variables marked *history* are not in the code and no
guard reads them.

### `JobQuery`: `JobQueryService` and its handlers

Each of `Requests` is an HTTP request in service and, once it has left, the
connection is free for another one. A request goes

```
Accept ─ ReadCache ─┬─────────────────────────────────────────────► Reply ─ Leave
                    └ Sample ─ gate ┬ RefuseTooSoon  (429) ─ Fallback ─►
                                    └ PassGate ┬ RefuseConflict (409) ─ Fallback ─►
                                               └ Acquire ─ Stamp ─ QueryReturns ─ Publish ─ Release ─►
```

as `CollectAllJobs` does between its `time.Now()` and its deferred
`running.Store(false)`; `Fallback` is the second `s.Snapshot()` of both
refusals. `Disabled` is the nil service of an exporter without the native
collector, `BadRequest` a parameter `strconv.ParseBool` refuses. A snapshot is
reduced to the number of the query it came from, whether that failed, and the
set of its jobs; `FinishedOnly` is the filter of `/finished-jobs`. `last.IsZero()`
is never true of a `time.Unix` value, so that conjunct of the gate is left out.
*History*: the number of queries begun, the newest one a reply has shown, and
both as they were when each request arrived.

### `CollectorService`: `Service` and its readers

`Callers` are the loop and, for `CollectNowForTest`, `Testers`. `collectOnce` is
`Sample`, the gate (`SkipTooSoon`, `PassGate`), the compare-and-swap
(`SkipRunning`, `Acquire`), `Stamp`, `CollectReturns`, `Count`, `Tally`,
`Publish`, `Release`. `Run` is a first call, `StartTicker`, then `TakeTick` or
`LeaveLoop`. `tick` is the ticker's channel of one slot: `Advance` fires it when
`due` runs out and drops the tick if the slot is taken. A `time.Time` carries the
wall and the monotonic clock; `SetClock` moves the first only. Readers are
`/metrics` (the snapshot, then the four loads of `Stats`, in that order) and the
JSON views (`ReadView`). *History*: calls and collections counted, the failures
up to each snapshot, which kind of tick brought the loop to its present call.

### `SingleFlight`: what both promise

A scan begins only when none is in flight, and the one that lands is the newest
one begun. In the refinement mappings a scan is in flight from `Stamp` to
`Publish`, `begun` counts the stamps, `shown` is the number of the scan in the
published snapshot.

### `WholeScan`: what a scan promises

A caller makes one query and gets one answer, an error or a list of records. If
its query was never open together with another one, the list is exactly what the
query matched. If it was (`met`), the promise is weaker, and still one: no more
records than the query matched, in the order LSF gives them, so that none comes
twice, and none from a query older than its own. In the refinement mapping
`lsb_openjobinfo` makes the query and the return of `collect` hands over the
answer; the caller is between the two for every other step of `LsfScan`.

### `LsfScan`: `lsfSource.collect` and `lsf_exporter_collect`

One action per call of the library or of the allocator, with all four ways out
after a successful open. The library is external: from the way it is used, one
session and one record buffer for the process, both of which any caller
overwrites. Records are pairs of a query and a place in its answer, C memory is a
set of blocks (`args`, `array`, the strings of job *i*). *History*: sessions
opened and closed, and which scans were `disturbed`: open together with another
one.

### `Sources`: `compositeSource`, `externalSource`, `stubSource`

`Configurations` are the source lists `main` can build, with the `lsf` tag and
without it. `NextSource` merges what
the source returned and keeps its error. The command is a shell, a `helper` that
stands for whatever else holds its output, and the `output` as the decoder would
judge it. `Expire` kills the shell only, `WaitReturns` waits for the pipes, as
`exec.Cmd` does without `WaitDelay`.

### `Config`: `config.Load`

`Environment` gives each variable a value, `Unset` (absent or blank) or
`Unparsable`. `Refused` collects the error returns of `Load`: a duration or a log
level that does not parse, an interval below the minimum. `Load` is what it
returns otherwise; `OrElse` is the way of `boolEnv` and `int64Env`, which take
what does not parse for unset, and `OrDefault` that of the others, where such a
value does not come this far.

### `Exporter`: the process under systemd

`main` is at `init`, `serve`, `shutdown` or `exited`; `Exit(status)` ends every
goroutine and lets systemd decide (`Restart=on-failure`). A process starts with an
environment from `Environments`, another one after each restart if the
EnvironmentFile has been edited; `ConfigurationError` is exit status 2, and
`TickerPanics` is what `time.NewTicker` does to an interval that is not positive
once the first collection is over: exit status 2 again, by the Go runtime, with
requests in service. The listener may fail at once (`Bind`) or after it has served,
when `Accept` returns an error that is not temporary (`AcceptFails`); requests go on
arriving on connections that are kept alive, until `main` takes the error from
`errCh` and exits with 1 (`ListenFailed`), cutting them off. Its select may do so
although SIGTERM has come. The collection loop and the requests appear with the steps
that matter to `main`: whether they are in a scan, and whether they are in
service. A refresh passes the gate (`PassGate`) before it takes the running flag
(`BeginQuery`), so that two that were admitted together query LSF one right after
the other; an attempt counts from the scan it begins. The build is the one with the
`lsf` tag: only there does the library fail to initialise, and is a collection a scan. Timers are counters of ticks of five
seconds. `main` and systemd act on a timer that has expired before the next tick
(`Overdue`); goroutines and LSF may take any number of ticks. A stop is asked for
while `main` serves (`StopUnit`), while the unit waits to restart it, or before
`signal.NotifyContext`, where SIGTERM ends the process outright (`StopEarly`).
systemd's start limit (five starts in ten seconds by default) is not modelled: a
unit that waits five seconds before each start does not reach it.
*History*: the time since the last scan of LSF by whichever process, which service of
the present process began its last one (`scanner`), the time since SIGTERM, and the
requests and the state of the listener (`left`) at the exit.

### `JobRecord`: `fill_job` and what `collect` makes of it

A text is a sequence of pieces: the characters some code tells apart, and runs of
the others. A status is the set of bits LSF has set. `RequestedMemoryKB` has a
request as the sequence of its `rusage` sections, which is as much as the pattern
sees of it; what a `float64` beyond `int64` becomes is left to `WordResults`, as Go
leaves it to the processor. `JobOf` keeps the fields `/metrics` shows.

### `MetricSeries`: from a snapshot to the page

A page is a set of samples, each with its name, its labels (escaped, as they are
written), its value and, off the page, `of`: the part of the snapshot it is about.
`Positive` and `Flag` are the two conditions under which a sample is left out. The
lsf_exporter_* counters are in `CollectorService`; help lines and the form of
numbers are left out.

### `Scrape`: from LSF to the page

Jobs wait, run, end and are requeued in LSF (external). A collection begins with
`Open`, which fixes the jobs it will see (finished ones only with
`LSF_EXPORTER_ALL_JOBS`), reads them one by one in any order, each as LSF has it by
then, and comes back with them (`SourceReturns`) or, at any point, with an error
(`SourceFails`); either way the snapshot gets what the external command returned.
The clock is looked at where the code does: for the duration when the sources have
returned, for `CollectedAt` when the snapshot is made (`Publish`), for the age
(`TakeSnapshot`), and for the runtimes (`WritePage`). Time passes between any two of
these steps, in fractions of a second (`SecondTicks`); LSF's times are whole seconds
of its clock, the runtimes end at a whole second of the exporter's (`Now`), and the
age and the duration are not cut. The exporter's clock is `ahead` of LSF's by
a constant. When collections begin and how they exclude each other is
`CollectorService`'s matter, so that one at a time is all that is assumed here.
*History*: the runs of jobs that are over, the number of jobs in a snapshot that
come from LSF, the time between the two looks at the clock for it (`gap`), when the
age was taken and when the page was written. `ReadLabel` is the other side: how
Prometheus reads a label value, by its text format.

## 4. What is checked

Every run checks deadlock. `MC*.tla` name symmetry sets, clock offsets, environments
and payloads; all other values are in the `.cfg` files.

### Runs that pass

| Run | Shows | Instance |
| --- | --- | --- |
| `jobquery_safety` | `SingleFlightInv`; `RepliesNeverGoBack`, on every path of a reply; `RefreshedMeansNew`; `FilterLeavesCacheWhole`; `RefreshesSpaced`; `ImplementsSingleFlight` | 3 requests, 2 jobs of which 1 finished, 2 queries, 2 ticks to the second, minimum of 2 ticks |
| `jobquery_live` | `EveryRequestAnswered` and `NeverWedged` if LSF returns; `HungQueryBlocksNobodyElse` even if it does not | 2 requests, 2 queries |
| `service_loop` | `ScrapeCoversSnapshot`; `AttemptsSpaced`; `SkipsOnlyWhenRecent`, with the wall clock set back and forth | loop and 1 reader, clock off by 0 or -3 ticks, 4 ticks |
| `service_live` | `SingleFlightInv`, `EveryCallCounted`, `ImplementsSingleFlight` with a second caller; `EveryCollectionShown` and `StopEndsLoop` if LSF returns | loop and 1 tester, who calls while there were fewer than 3 calls; 2 ticks |
| `lsfscan_scans` | `SessionsClosed`, `NothingLeaked`, `CopiedWhileLive`, `ImplementsWholeScan`, whatever fails and however two scans interleave | 2 callers, up to 3 jobs, 3 sessions |
| `sources_collect` | `OthersSurvive`, `OutputIsFinal`, `TimeoutEndsCommand` | all six source lists |
| `exporter_stop` | `DroppedForCause`, `StopsInTime`, `StopIsFinal`, with LSF hanging at will; `HealsOnceInOrder`, through configuration errors, panics, failing listeners and libraries; `BackgroundSpaced`, through the same | 2 requests, the durations of `main.go` and of the unit, six environments |
| `scrape_pages` | `RunTimeExcused`; `SeriesCollideOnlyForDuplicates`; `TotalsMatchInfo`; `LabelsReadBack`; `SlotsCounted` | 2 jobs of which 1 is dispatched, 1 collection, 3 ticks after the first second, 2 ticks to the second, an exporter ahead or behind by a second, a command that returns nothing or describes a job and a queue twice |

Each module's `TypeOK` is an invariant of one of its runs. The runs that look for
a disagreement with a document are in section 6.

### Bounds, and why they are enough

- *Requests.* Three in `JobQuery`: one that runs a query, one that is refused by
  the flag, one that passes the gate and waits for the flag, or has been shown a
  newer snapshot; the proofs remove the bound for all but liveness.
  Two in the liveness runs and in `Exporter`: the one that hangs and another.
- *Queries and calls* (`MaxQueries`, `MaxCalls`, `MaxScans`). Two queries or three
  calls are enough for an old and a new one, with a refusal in between; three
  sessions for two that overlap and a third that finds what they left.
- *Time* (`MaxTime`, `MaxUptime`). The clock runs long enough for the gate to
  close and open again after a stamp, and with two ticks to the second the stamp
  falls on either half of it. In `service_live`, whose properties do not look at
  the gate, two ticks suffice for a tick that fires during a collection. In
  `Scrape` the clock starts at the first second and has three ticks, of which two make
  a second: `RunTimeExcused` allows for the sum of six things (the snapshot's age, its
  duration, the gap between these two, the writing of the page, the difference of
  the clocks and the fraction cut off), and with any one of them left out of the
  bound TLC finds it violated. In `service_loop` the clock can be set past
  `MinInterval` in both directions. Time stands still at the bound; nothing is
  bounded by a state constraint, so that the liveness runs lose no behaviour to one.
- *Durations of `Exporter`.* Ticks of five seconds: interval 30 s, minimum 10 s,
  shutdown 10 s, `TimeoutStopSec` 30 s, `RestartSec` 5 s, the defaults of
  `config.go`, `main.go` and the unit. Ages stop at `Horizon`, beyond the largest
  value they are compared with.
- *Environments.* The default one, and one for each way a file goes wrong or
  reaches the code in another way: a value that does not parse, an interval below
  the minimum, one that is zero, the native source disabled, a boolean that does
  not parse.
- *Jobs* (`MaxJobs` in `LsfScan`, `Jobs` in `Scrape`). Three make a first, a
  middle and a last record. Of the two of `Scrape` one lives through a run and
  may be requeued and run again, the other waits; their texts hold every
  character that is escaped, and a backslash in front of an `n`. One collection
  is enough, because a page is made from a single snapshot; the proofs remove
  this bound.

Symmetry is used in safety runs only, over requests and over the two callers of
the library, which the specifications do not tell apart.

### Fairness, and why the code justifies it

- *Goroutines* (`Fairness` in `JobQuery` and `CollectorService`, the first
  conjunct of `FairSpec` in `Sources`, `WF(Main)` and `WF(Bind)` in `Exporter`): the
  Go scheduler
  runs every goroutine that can run. Nothing in the code waits for a lock that is
  held across a call, so that weak fairness is all it takes.
- *systemd* (`WF(Restart)`): a unit whose restart timer has expired is started.
- *The loop's select* (`SF(TakeTick)`, `SF(LeaveLoop)`): a select with several
  ready cases chooses at random, so that one that is ready again and again is
  taken; the ticks cannot starve `ctx.Done()`.
- *LSF.* Its calls may never return. `LsfReturns` is written in front of the
  properties that need it, and the others hold without it.
- *Timers* (`WF(Expire)`, `WF(Advance)`): the runtime's timers fire.
- Clients, the external command, SIGTERM and whoever edits the EnvironmentFile are
  under no fairness at all. `HealsOnceInOrder` has what must come to an end, the
  starts with a file out of order, the library's failures and those of the
  listener, the late ones included, in its premise.

## 5. What is proved

TLAPS checks the theorems below for every value of the constants that satisfies
the modules' assumptions: any sets of requests, readers and callers (finite where
a cardinality is taken), any clock, any durations. The bounds `MaxTime`,
`MaxQueries` and the like occur only in guards and are arbitrary in the proofs.

| Module | Theorem | Property |
| --- | --- | --- |
| `JobQueryProofs` | `TypeCorrect` | `TypeOK` |
| | `OneQueryAtATime` | `SingleFlightInv` |
| | `NoReplyGoesBack` | `RepliesNeverGoBack` |
| | `RefreshedIsNew` | `RefreshedMeansNew` |
| | `CacheStaysWhole` | `FilterLeavesCacheWhole` |
| | `RefreshesKeepTheInterval` | `RefreshesSpaced` |
| | `RefusalsHaveTheirCause` | 429 only within `MinInterval` of an attempt, 409 only while another request holds the flag; with a clock later than `MinInterval` after 1970 |
| | `JobQueryImplementsSingleFlight` | `ImplementsSingleFlight` |
| `CollectorServiceProofs` | `TypeCorrect` | `TypeOK` |
| | `OneCollectionAtATime` | `SingleFlightInv` |
| | `ScrapesCoverTheirSnapshot` | `ScrapeCoversSnapshot` |
| | `EveryCallIsCounted` | `EveryCallCounted` |
| | `LoopAttemptsSpaced` | `AttemptsSpaced`, without testers |
| | `RefusalsHaveACause` | `SkipsOnlyWhenRecent`, with clocks later than `MinInterval` after 1970 |
| | `CountersTellOneStory` | errors never outnumber collections, and a last success is missing exactly as long as every one has failed |
| | `CollectorServiceImplementsSingleFlight` | `ImplementsSingleFlight` |
| `LsfScanProofs` | `TypeCorrect` | `TypeOK` |
| | `EverySessionIsClosed` | `SessionsClosed` |
| | `NoPathLeaks` | `NothingLeaked` |
| | `CopyReadsLiveMemory` | `CopiedWhileLive` |
| | `ScansAreWhole` | `ScanIsWhole`: `ImplementsWholeScan` for scans left alone, said of a state |
| | `ScansInTurnAreWhole` | if no two sessions are open together, every scan is whole |
| | `LsfScanImplementsWholeScan` | `ImplementsWholeScan` |
| `SourcesProofs` | `TypeCorrect` | `TypeOK` |
| | `FailuresCostNoData` | `OthersSurvive` |
| | `CommandsAreOver` | outside `cmd.Run` no process of a command is left that could write |
| | `DecodedOutputIsFinal` | `OutputIsFinal` |
| `ExporterProofs` | `TypeCorrect` | `TypeOK` |
| | `RequestsGetTheirGrace` | `DroppedForCause` |
| | `ExitsBeforeTheKill` | `StopsInTime` |
| | `DownOnlyOnRequest` | the unit is stopped exactly if SIGTERM came and the process has exited |
| | `ScansArePaired` | at most two scans at a time: what is left of `OneScanAtATime` |
| | `BackgroundScansKeepApart` | `BackgroundSpaced`: what is left of `ScansSpaced` |
| `ScrapeProofs` | `TypeCorrect` | `TypeOK` |
| | `RunTimesAreExcused` | `RunTimeExcused` |
| | `JobSeriesStayApart` | `JobSeriesApart`, the first part of `SeriesCollideOnlyForDuplicates` |
| | `SeriesCollide` | `SeriesCollideOnlyForDuplicates` |
| | `TotalsAgree` | `TotalsMatchInfo` |
| | `LabelsAreReadBack` | `LabelsReadBack` |
| | `SlotsAreCounted` | `SlotsCounted` |
| `TextProofs` | `EscapeReadsBack` | Prometheus reads any text back from its escaped label |
| | `EscapeInjective` | no two texts have one label |
| | `HostsNamedOnce` | any list of hosts is written with each host once and its number of slots |
| | `RequestedMemoryIsAsked` | the requested memory is what was asked for, to the kilobyte, unless it is beyond `int64` |

The arguments. In each module an inductive invariant `IInv` is kept by every
action, one step of the proof per action, and implies the properties.

- **The services.** `SingleFlightInv` is inductive with the types. What follows
  from it is that only the holder of the flag moves the number of scans begun and
  the published snapshot. Added to it: the holder's draft carries the newest
  number until it is published, and outside a flight the published number *is*
  the newest one (this is also the refinement). For replies, every snapshot a
  request holds is at least as new as what had been shown when it arrived,
  because the cache never goes back and `delivered` never passes it. For scrapes,
  the counters cover the published snapshot, grow only, and are loaded after it.
- **Counting.** `EveryCallCounted` adds the cardinality of the callers that have
  not been counted; each action adds or removes one caller, or none.
  `CountersAgree` compares the counters with the collections whose outcome has been
  counted (`Tallied`), one less than those counted while somebody is between
  `Count` and `Tally`: a difference that `Stats`, which loads the counters one after
  the other, can show the other way round.
- **Spacing.** Without testers nobody stores `lastAttempt` between the loop's
  check and its own store, so that what the gate compared is still true at
  `Stamp`; `SecondBounds` gives what the truncation costs. For refreshes,
  `GateHolds` says the same of a request that has seen no query begin since it
  arrived; one that has is where two of them can be closer. `lastAttempt` is never
  later than the attempt, so that a refusal always has a recent one behind it,
  the first call excepted: `NowIsLate` rules that out, for the loop and for
  refreshes alike.
- **LsfScan.** `HeapKept` fixes the C memory a caller owns by where it is and
  what it has copied. `Apart` says that two scans with open sessions have both
  been marked as disturbed, so that nobody moves the session of one that has not,
  and `InStep` that this session stands where its loop does; at the end of the
  loop the array then holds the whole answer. `SessionsClosed` is again a
  cardinality. The refinement needs more, for what disturbed scans return:
  `LibraryAhead` says that what the library would read next is of the newest
  query and comes after all that anybody has in an array or in the buffer,
  `OrderKept` that every array is in order, begins no earlier than its caller's
  query, and is followed by what its caller copies next. The two steps
  that fail and the two that succeed are then each one `Answer`. `ScansInTurnAreWhole`
  has `[]OneAtATime` in its premise: a session opened beside another one is the only
  step that disturbs anybody, so that a lock around `collect` is all that is missing.
- **Sources.** `Merged` is the invariant of the loop in `Collect`: the sources up to
  `pos` have been asked, their failures are what `errs` holds, and `out` is the
  union of what they returned. `NobodyWrites` is inductive by itself: `WaitReturns`
  establishes it, and only the shell starts processes.
- **Exporter.** `Countdown`: during a shutdown, the time since SIGTERM and what is
  left of the timeout add up to the timeout. `UnitFollowsMain` and
  `ServedWhileListening` exclude requests in a process that is not serving.
  `ConfiguredFirst` has the loop run in processes only whose configuration was not
  refused, so that an exit with status 2 that finds requests in service is the
  panic; one with status 1 is the end of a shutdown or of a listener that has served
  (`ServedWhileListening`: none is in service while the listener binds or has failed
  to). `StoppedOnRequest` adds that status 0 is that of a shutdown only, so that
  `Restart=on-failure` gives up no process that was not told to stop. `LastScanKnown`
  says what is known of the last scan: if the loop of this process began it, its age
  is at least that of the loop's attempt, which the gate looks at; if no service of
  this process has begun one, systemd has waited `RestartSec` since. TLC finds
  `BackgroundSpaced` violated as soon as one of its exceptions is left out.
- **Scrape.** `Recorded` says what the records in a collection, in the snapshot
  and in a scrape are good for: one with an end is that of a run that is over, one
  without an end is that of a run that had not ended when the collection began.
  `RunsInOrder` says that no two runs of a job begin together, so that the start a
  page shows picks out one of them. Whatever has happened to a run without an end
  has then happened within duration, gap, age and writing of the page, which
  `SecondBounds` carries over to whole seconds, at the price of a fraction of one.
  For the series, `ReadOnce`: a collection reads a job once, so that two records
  of one id cannot both come from LSF; and the samples of one record differ by
  name (`JobSample`). Every name of a series belongs to one kind of thing
  (`KindOf`), so that series of two kinds never collide; within a kind the labels
  hold the escaped name of the thing, and `EscapeInjective` leads back to it.
  For the totals, the jobs of a snapshot are the disjoint union, over its
  statuses, of those that have it, which `TotalsAddUp` adds up by induction on the
  length of the list. `Typed` (what is in a collection, a snapshot or a page is
  made of texts) and `HostsKept` (a record that was read is written from the hosts
  of its run) carry the theorems about texts to the page.
- **Texts.** The operators of the community modules for sequences are folds and
  recursive functions; what they compute for sequences of every length is a matter
  of induction. The library's induction rules take a predicate and cannot be used
  here, but its theorem that the finite subsets of a set are well ordered by
  inclusion has none: `SequenceLemmas` derives from it that a set of numbers that
  is not empty has a least member, from that the induction over sets (`Induction`),
  and with it what `FlattenSeq` and, in `TextProofs`, `FoldLeft` do to a sequence
  that grows by one item. `EscapeReadsBack` is then by
  induction on the text: after each piece the reader of the label has what it was made from and is not in the middle of an
  escape (`ReadsEscape`). `HostsNamedOnce` is by induction on the list of hosts:
  each host so far is at one place of the text, with its slots in front of it
  (`Written`). `RequestedMemoryIsAsked` rests on `MinOfSubset`: the first section of
  a request that asks for memory exists if there is any.

Assumptions: `SecondTicks` is positive; `Finished` is part of `Jobs`; in
`CollectorService`, `Interval` is positive, for otherwise `time.NewTicker` panics,
which is `Exporter`'s matter and not excluded there; the wall clock is never set
back to the first second of 1970; `ShutdownTimeout` is below `StopTimeout`, as 10 s
is below 30 s; the set of callers is finite where sessions are counted. In `Scrape`,
what the external command returns and what users submit has the types of
`types.go` (`DataType`), which the decoder and `C.GoString` see to, and a host's
name has no comma in it and is neither a number nor an asterisk: the code that
joins the names with commas and splits them again takes as much for granted. A
host's name is one piece in the model, the text of the number of its slots another
one (`Numeral`); that a number is written so that it can be read is left to
`strconv.Itoa`. Characters that mean something to a reader go by names
(`Backslash`, `Comma`), because the prover's reading of string constants ends at
them. `WordLimit`, the first number beyond `int64`, is positive.

Only model-checked are liveness, which is beyond this prover (`EveryRequestAnswered`,
`NeverWedged`, `HungQueryBlocksNobodyElse`, `EveryCollectionShown`, `StopEndsLoop`,
`TimeoutEndsCommand`, `StopIsFinal`, `HealsOnceInOrder`).
Some theorems have no run of their own: their properties are defined in the modules with the proofs, and TLC has found them to hold of small
instances.

## 6. Where the code and its documents differ

Four runs check a sentence of the documents and find it violated by what the code
does; `PROJECT.json` quotes the sentences.

| Run | Sentence | What happens |
| --- | --- | --- |
| `service_missed` | "If a collection is still running, the next scheduled run is skipped." (`docs/lsf-exporter-design.md:17`) | The loop is the only one who could run it, and it is busy: the tick waits in the ticker's channel and starts a collection right after the one that delayed it, provided `MinInterval` has passed. |
| `sources_timeout` | The timeout is that of the "external resource command" (`README.md:80`) | It kills the shell. `cmd.Run` goes on waiting for whoever else holds the pipes, without `WaitDelay`, and the collection with it. |
| `exporter_overlap` | "Only one LSF collection can run at a time." (`docs/lsf-exporter-design.md:15`) | Each service has a flag of its own: a refresh scans while the background collection does. |
| `exporter_restart` | `LSF_EXPORTER_MIN_INTERVAL` is the "minimum allowed interval between LSF API scans" (`README.md:68`) | A listener that fails ends the process after the first collection has begun; it is restarted after 5 s and scans again. |

Seen on the way, and not the subject of a run:

- Two refreshes in service together can both pass the gate and then run one after
  the other within the minimum interval (`job_query_service.go:42` before `:45`),
  against `README.md:92`. `RefreshesSpaced` states what does hold.
- `now.Unix()` cuts the attempt to its second, so that two attempts can be up to a
  second closer than the minimum (`service.go:69`, `docs/lsf-exporter-design.md:16`).
- `lsf_exporter_up` is 1 before the first collection has ended
  (`server.go:41`, against the help text at `:45`).
- A scrape can show more errors than collections: `Stats` loads collections first.
  The counters themselves never stand so (`CountersTellOneStory`).
- The attempt has lost its monotonic reading: a wall clock that is set back stops
  both services until it has caught up, one set forward lets two scans through at
  once (`service.go:59`). The properties of `service_loop` are stated in wall-clock
  terms, which is all the gate keeps to; a bound in elapsed time would fail.
- Go copies the records after `lsb_closejobinfo`, not before
  (`docs/lsf-exporter-design.md:9` and `:18`): from C memory the exporter owns, so
  that nothing is lost by it.
- `lsb_sysmsg()` is read after `lsb_closejobinfo` (`lsf.go:193`), which may have
  changed the error it describes.
- `config.go:40` refuses an interval below the minimum but not one that is zero or
  negative with a minimum that is no larger; `time.NewTicker` panics on it
  (`DroppedForCause` has it as one of the ways a request is cut off).
- A listener that fails after it has served (`main.go:77`) ends the process at once,
  without the ten seconds a shutdown gives the requests in service
  (`DroppedForCause`).
- A boolean or a job id that does not parse is silently taken for unset
  (`config.go:96`, `:111`), while a duration that does not parse stops the start.
- The runtime of a job goes on after its end until a collection has seen it
  (`server.go:119`); `RunTimeExcused` bounds by how much. The page
  admits to most of it by its age and duration, and not to the rest: the runtimes are
  taken up to a whole second (`server.go:78`), and `CollectedAt` is read after the
  duration (`service.go:72`, `:77`).
- The bundled script returns a cluster with status "unknown" and `master_up` false
  when `lsid` is missing, where `README.md:137` says the section is returned empty.
- `main` does not wait for the loop: a scan under way at the exit is cut off with
  its session open.
- `scripts/collect-extra.sh` starts from a cluster status "unknown" that none of
  its parsers turns into "ok".

## 7. What is not modelled

- The bundled script. It is a program of its own, sequential, run once per
  collection, and made of parsers of command output that is not in the
  repository. What it can do to the exporter is in `Sources` (a command that hangs,
  is killed, fails, leaves a process behind) and in `Scrape` (what it may return).
- The logger: output behind a mutex held for one write.
- The texts of a job that only the JSON views show, the JSON encoding, the help
  lines and the form of numbers in the text format: the properties do not tell
  them apart. Nor can a reader of the page tell a failed `dupstr`
  from an empty text.
- The text of an error (`lsb_sysmsg`), beyond there being one.
- The inside of liblsbatch. It is not in the repository; what `LsfScan` says of it
  is what the calls of `lsf.go` rely on. In particular a library that kept its
  session per thread would make `disturbed` scans whole as well; one that is not
  reentrant at all could do worse than mix two answers.
- `net/http` beyond the life of a request, the listener and `Shutdown`; a client
  that goes away early changes nothing, since no handler looks at its context.
- `/healthz`, which reads nothing.
