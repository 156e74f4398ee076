# A verification project for AsyncQ

TLA+ models of the AsyncQ kdb+ datasource for Grafana, the TLC runs that check
them on small instances, and TLAPS proofs of what matters most for every
instance. `PROJECT.json` maps every definition to the lines it models and lists
the hazards the properties are for.

## 1. The system

AsyncQ is a Grafana datasource plugin: a Go backend (`pkg/plugin`), a TypeScript
frontend (`src`), two panels (`panel`) and a q script for the kdb+ side (`q`).

| Component | State | Operations | Talks to | What makes it correct |
|---|---|---|---|---|
| Sync connection pool (`kdbSyncPool.go`, `kdbQuery.go`) | channel of idle connections, channel of slot tokens, map of lent connections, closed flag; a reader goroutine per query | acquire, activate, run a query with a timeout, release, discard, close | kdb+ over sockets; called by every sync query | bounded open connections; a connection has one user; a query gets its own answer; slots never leak; nothing is lent after disposal |
| Sync query cache (`kdbSyncCache.go`) | LRU map, refresh marks, singleflight group, files | lookup in memory and on disk, coalesced miss, store, background refresh of stale entries | the pool below, the resources above | one kdb+ call per key at a time; one refresh per key; bounds; no entry outlives its lifetime; no answer goes back in time |
| Cache resources (`kdbResource.go`) | none of their own | clear all, one key, the expired; status | the cache | a clear leaves no mark or waiter behind |
| Datasource lifecycle (`plugin.go`) | settings, channels, open flag | create, normalise defaults, `QueryData`, `Dispose`, health check | everything | disposal may meet any operation under way |
| Async runs (`kdbStream.go`) | per run: job ID, status, sequence; per datasource: job slots | submit, poll, result, cancel on end of context, plugin managed run | q helper by connections of their own, Grafana Live | one terminal frame, last; slots bounded and returned; job cancelled when abandoned |
| Push streams (`kdbStream.go`) | a connection and a watcher per run | start, forward frames, stop | q helper | pushes reach the run that asked; a wanted run stays registered; a cancelled one ends |
| Legacy async adapter (`kdbLegacyAsync.go`) | as async runs | submit, status, result, cancel by configured functions | a gateway | as async runs; status values mapped completely |
| Run and wait (`kdbAsyncResource.go`) | one response | decode, run in one of three ways, report | as async runs | exactly one final status, `OK` iff done |
| q helper (`q/asyncq_grafana.q`) | `JOBS`, `STREAMS` | submit, status, result, cancel; start, stop, publish | the backend | a job ends once; sequence numbers grow |
| Frontend sessions (`datasource.ts`) | maps of stream and async sessions, rows kept per frame | subscribe, merge a frame, append and trim, evict | Grafana Live | no lost or doubled rows; bounds |
| Excel reports (`excelReport.go`) | download tokens; sheet writers | generate, store, take once, clean up | sync queries | a token serves once; rows ascend; write modes are not mixed |
| Table parser (`kdbTableParser.go`, `parseKdbResponseToFrames`) | none | from an answer of kdb+ to frames, in two compatibility modes | every query, run, stream and report | rectangular frames; values under their names; no panic on plain data |
| Macros, diagnostics, editors, panels, build | none that outlives a call | text, logging, forms | | |

The hard behaviour lies where goroutines meet: queries, readers, refreshes and
`Dispose` interleave at every channel operation, socket operation and mutex;
timeouts race answers; a connection fails between two steps; the memory and the
files of the cache are separate critical sections.

## 2. Modules

| Module | What it is |
|---|---|
| `SyncPool` | the pool, its client `runKdbQuerySync` with the reader goroutine, and the disposal |
| `ConnLease` | what the pool promises: a bounded set of connections, each lent to one query at a time, one's own answer or none, nothing lent after disposal |
| `MCSyncPool` | `SyncPool` for TLC (symmetry of queries) |
| `SyncPoolProofs` | the proofs |
| `SyncCache` | the memory and disk cache, the flights, the background refreshes and the clear resources |
| `MCSyncCache` | `SyncCache` for TLC |
| `SyncCacheProofs` | the proofs |
| `AsyncJob` | asynchronous runs, live or waited for, their job slots, and the jobs in kdb+ |
| `AsyncRun` | what a run promises: admission while there is a slot, one true end told, one job that nobody stops for a client that still waits |
| `MCAsyncJob` | `AsyncJob` for TLC |
| `AsyncJobProofs` | the proofs |
| `PushStream` | the runs of one push stream, their watchers, and the registrations and handles of kdb+ |
| `LiveSessions` | the page's session over `PushStream`: it extends that module and feeds on its frames |
| `MCLiveStream` | `LiveSessions` for TLC (payloads, the division of the state space) |
| `LiveSessionsProofs` | the proofs about both |
| `KdbFrames` | from answers of kdb+ to frames: pure operators, no state |
| `KdbFramesProofs` | what the parsers do for every answer |
| `SequenceFacts` | facts about numbers, sequences and recursion that `KdbFramesProofs` and `LiveSessionsProofs` need |
| `ExcelDownloads` | the one-time links, with generation as one step: what the report resources promise their clients |
| `ExcelReport` | the generation in detail, over `KdbFrames`; it implements `ExcelDownloads` |
| `MCExcelReport` | `ExcelReport` for TLC (its worlds) |
| `ExcelDownloadsProofs`, `ExcelReportProofs` | the proofs of the links, of the refinement, of the generation, and of the parser as a report uses it |

### SyncPool and the code

A section under `syncPoolMu` is one action, and so is each operation on a channel
or a socket outside of it. `pc[q]` follows one call of `runKdbQuerySync`:

    start -> channels -> poll -> wait -> dial -> activate -> query -> await -> release | discard -> close -> freeSlot -> done

`ensureSyncPool`, `syncPoolChannels`, the two `select` statements of
`acquireSyncConnection` (the non-blocking `Poll`, then `WaitIdle`, `WaitSlot`,
`WaitTimeout`), `newConnection` (`Dial`, `DialFails`), `activateSyncConnection`,
`releaseSyncConnection`, `discardSyncConnection` and `releaseSyncPoolSlot` are
actions of these names. `reader[q]` is the goroutine of `runKdbQueryOnConnection`,
which goes on after its query timed out. `wire[c]` holds the requests sent over a
connection whose replies nobody has read: kdb+ answers in order, a query is
identified with its answer, and reading pops the oldest. That is what lets a late
answer reach the wrong query in a faulty pool (mutant `AwaitTimeoutReuses`).
`closeSyncPool` is the sequence `DisposeBegin`, `DisposeCloseActive` (one step per
connection, in any order), `DrainTake`, `DrainClose`, `DrainSlot`.

A query dials at most once (the loop in `acquireSyncConnection` continues only on a
nil connection, which nobody puts into the channel), so a connection bears the name
of the query that dialled it. `closed` is `syncPoolClosed`.

### SyncCache and the code

A process is a query that reached `runSyncQueryWithCache` with a cache object, or
the goroutine that `refreshSyncQueryCache` starts for it. Each critical section of
the map or of the files is a step: `LookupMemory` is `syncQueryCache.get` with its
deletion of an expired entry, `LookupDisk` is `syncQueryDiskCache.get` with removal
of expired and unreadable files, `FillMemory` is `putWithCreatedAt` of what the disk had,
`PutMemory` and `PutDisk` are the stores with their evictions. `Do` enters
the singleflight group, as leader or follower; `Return` ends the flight for all of
them; `Serve` is the return to `query`, which starts a refresh of a stale answer
(`startRefresh`); `Finish` is `finishRefresh`. A query in mode `refresh` skips the
lookups but shares the flight.

A result is the number of the kdb+ call that gave it. Creation times are kept, so
that age, staleness and expiry follow from the clock; the order of use is the order
of the sequence (the code evicts by `lastAccess` and by file modification time, with
ties broken arbitrarily; every use is a step of its own here, so there are none).
`Kept(s, I)` is what is left of a store at the positions `I`: deletions, clears and evictions are all
of this form, and it is written without recursion so that they can be proved about.
`MaxFiles` stands for both disk limits. A disk write that fails before its rename
changes nothing; the one failure after it, a directory that can be written but not
listed, leaves the limit to the next put and is not modelled.

### AsyncJob and the code

A run is one call of `RunStream` on an `async/` path or of the resource
`async/run-and-wait`; `kind` and `via` say which of the six functions it executes:
`runAsyncQueryStream` (helper), `runLegacyAsyncQueryStream`,
`runPluginManagedAsyncQueryStream` (also deferred async) and their three `...Wait`
twins. The twins differ in little, and the model shows where: a helper run that is live
returns an error without a frame when it cannot connect or submit, a live client can
disappear at each send, a waiting run logs a status before it acts upon it. A request that cannot be
decoded is no run: a live one returns its error before it has a client to tell (`kdbStream.go:140-144`).

    helper, legacy:  start -> dial -> submit -> submitting -> poll <-> asking -> fetching -> data -> close
                     poll, asking, fetching -> cancel -> cancelling -> close
    plugin:          start -> queued -> dial -> submit -> running -> data -> close
    both with slots: close -> release -> ended

Each `select` is a choice among the cases that are ready: `Poll` and `GiveUp` in
the loop, `AwaitStatus` with `Abandon` in `callKdbFunctionWithContext`,
`AwaitQuery`, `StopQuery` and `Running` in the plugin managed runs. A call is a
goroutine: `reply[r]` is what it has got, `inbox` what has been written and may reach
kdb+ after the run has closed its connection. `job[r]` is the row of `JOBS` (or of a
gateway's own table, whose worker may finish it later); each request has its own ID, so
`r` names it. `frames[r]` keeps the ends that were told, and "progress" for every
other status, whatever its wording: a legacy gateway may answer any state at
submission, and it is not an end. Parsing of responses is a choice between its outcomes.

`AsyncRun` says the same of a run without calls, polls and connections: `Admit` or `Refuse`,
then `Tell` its end or `Leave` without one (a live client that is gone), while kdb+ may
`Create` its job, `Work` on it, and `Drop` it only after an `Interrupt`. `AsyncJob` implements it: a
run's stage is read from its place (`StageOf`), the end told is its last frame unless that is
progress (`EndTold`), the limited runs are the plugin managed and legacy ones (`Slotted`), the rest
of the state is the same. A run goes on until its deferred calls are done, which is why the
number of limited runs that go on is the number of slots taken.

### PushStream, LiveSessions and the code

A run is one call of `runKdbPushStream`, all for one stream ID (it is stable: a panel that
is opened again starts a run with the same one):

    idle -> dial -> start -> started -> check <-> read -> data -> check
                                        check, read -> stop -> ended

`Started` takes the first message on the connection for the answer to the start call, as
the client library does, be it an answer or not. `ReadMessage` has the branches of the
loop: a terminal status, another status, a payload that does not parse, a payload. A send
may fail where the sender is called, and does once the context is over. `watcher[r]` is the
goroutine of lines 513-520. When it waits in its `select`, the first of the two events
takes it (`CtxEnds`, `Returns`); when it has not got there, it finds both and chooses
(`WatcherLooks`). `StopsStream` is `stopKdbStream`, which names the ID and not the run.

On the side of kdb+ a registration is a handle, and a handle is a small number that the
next connection is given once one has closed. `owner[h]` says who has it; `HandleCloses`
is kdb+ noticing a closed connection, which the helper does not look at; `PoolConnection`
is a connection of the sync pool that is given the handle. A publication to a handle of
nobody is an error after the sequence number was taken (`Publish`), one to another
connection arrives there.

`left`, `late` and `robbed` are history: runs that ended, or lost their connection, without
an answered stop; the earlier runs that were still ending when a run began; the runs whose
registration one of those took. The properties are stated around them, so that they say
exactly when the code does not keep its promise.

`LiveSessions` adds the session of `datasource.ts`: `Subscribe` is
`getOrCreateStreamSession` with the lines of `runLiveQuery` that use it, `Receives` the map
and the `takeWhile` over the events, `Appended`, `Trimmed` and `StartIndex` the retention.
A frame sent arrives or is lost (`Lose`: the page was not connected) before the next step
of a run or of kdb+. That loses nothing: frames arrive in order, and neither the run nor
kdb+ looks at what the page does with them. A row is its publication, its place and its
time. `session` is always a record: `NoSession`, of state "none", stands for the map without an
entry of the key.

### KdbFrames, ExcelDownloads, ExcelReport and the code

`KdbFrames` has an operator per parser. An object of kdb+ is a record that says what
it is; a value is a short sequence of numbers, so that a text, a character and a name can be
told apart. A result is frames, an error or the panic of `NewField`; a frame is a sequence
of fields with a name, a Go type and cells. `Parse` is `parseKdbResponseToFrames`.
`WellFormed` says what kdb+ sends: a table has columns, none of them an atom, all of the length
`count`; the two tables of a keyed table are equally long. It is what the proofs assume of an
answer, and looks into an answer as deep as the parsers do. Objects nest: a column may be a table
(its items are rows, as dictionaries) or a keyed table, over which `correctedTableIndex` panics
(`Indexable`). The two loops of the source that accumulate, the union of the names of row
dictionaries (`FirstAppearances`) and the numbering of repeated names (`UniqueNames`), are a
recursive function and a count.

In `ExcelDownloads` the handlers of `report/generate-link`, `report/generate` and
`report/download` are processes; a section under `excelDownloadsMu` is one action. Each
instance of the datasource has a store of its own (`downloads[i]`), and a request stays with
the instance that it came to (`home`) when Grafana replaces it. A token is named by the request
that made it: 16 random bytes do not repeat.

`ExcelReport` refines the step between `Begin` and `Generated`: validation of
settings and request (`Prepare`), the bindings' queries or submitted frames
(`QueryBinding`), the template (`OpenWorkbook`), the writers (`WriteBinding`) and the saving
(`Save`), with the context ending in between. A cell bears what it shows: binding, frame,
line and column. The four frame writers and the two streams of the source differ in
the type of the frame only, and are one operator here; in the modes "cells" and "rows" they
write the same cells. Of two frames written to one place the later shows (`Over`, `BindingCells`). The library's part is modelled as the code uses it: a workbook folds
the case of sheet names, the last stream writer made for a sheet replaces what the sheet had.
What settings, request and kdb+ are is a `world`, chosen at the start from a set the MC module
gives; the proofs hold for any set. `IsBook` says that a workbook is a record whose streams are
a sequence: before its generation writes one, a report has none.

## 3. What the runs check

Bounds: `Queries`, `Max`, `Keys` and the limits are the instance. `Horizon` bounds
the clock, `MaxClears` the clear requests. A query runs once.

| Run | Instance | Properties |
|---|---|---|
| `SyncPoolSafety` | 3 queries, 2 connections, timers | types, `SlotAccounting`, `Exclusive`, `OwnAnswer`, `IdleIsClean`; `NoLeaseAfterDispose`; implements `ConnLease`, whose `Open` bounds the open connections |
| `SyncPoolPatient` | 3 queries, 1 connection, no timer | `EveryQueryReturns` |
| `SyncPoolTimers` | 2 queries, 1 connection, timers | `EveryQueryReturns`, `DisposedQuiesces` |
| `SyncCacheSafety` | 3 queries of 1 key, both modes, fresh and stale, 1 clear | `OneFlight`, `RefreshersBounded`, `MemoryNeverGoesBack` |
| `SyncCacheLimits` | 2 queries, 2 keys, 1 entry and 1 file, 2 clears, failing files | types and bounds, `MarkHasRefresher`, `CopiesAgeTogether` |
| `SyncCacheLive` | 2 queries of 1 key, fair | `QueriesReturn`, `RefreshesEnd` |
| `SyncCacheNextQuery` | 3 queries of 1 key with files | `RefreshServesNextQuery`, **violated** |
| `AsyncJobSlots` | 2 live runs, plugin managed or legacy, 1 slot | types, `SlotAccounting` |
| `AsyncJobProtocol` | 1 run of any kind, live or waited for, fair | `OneFinal`, `ReportsTruth`, `RunsEnd`, `GivenUpJobEnds`; implements `AsyncRun` |
| `AsyncJobTimeout` | 1 helper or legacy run | `TimeoutCancels`, **violated** |
| `ExcelReport` | 2576 worlds, 2 links, 2 downloads, 2 instances, ttl 1 | types and places, `ServedOnce`, `TakesAreExact`, `FramesIntact`, `NoMixedSheet`, `ValidationSound`, `FramesRectangular`, `RowDictsUnion`, `KeysOnlyAdd`, `OnlyNestedValuesPanic` |
| `LiveStream` | 2 runs of a stream, 2 handles, 2 publications, 1 broken connection, 2 frames, fair | types and places, `PushesOnlyToOwner`, `LiveRunRegistered`, `LatestRows`, `CancelledRunsEnd` |

Why they are enough: the pool's hazards need a query that leaves a connection in
some state, one that takes it next, and one that competes for the slot; the proofs
of section 5 remove the bound here, and for the safety of the other components. With the cache, two processes race and a third
observes; a second key is there for evictions only. A ttl of 0 in two runs means that
the clock ticks once per ttl; `SyncCacheSafety` has a tick in which the entry is
still fresh. `SyncCacheSafety` and `SyncCacheLimits` divide the work: expiry,
failing files and a second key on one side, the third query on the other. A clear takes the mark
of a refresh, a second refresh marks the key and the first removes that mark too: the third
query is there to start one beside the second, and the one clear to let it. Runs of `AsyncJob`
share nothing but the slots, so the protocol is checked with one run, whose actors are
the run, its calls, kdb+, the client and the timer; the slots need a run that has one and
one that is refused. `AsyncRun` was checked on that instance too; it adds nothing to
`SlotAccounting` there but time, so `AsyncJobSlots` does not keep it, and the theorem has any number. A run polls without bound: there is no counter.

`LiveStream`: what goes wrong between runs needs an old and a new one, a handle that is
given again and one that is not. Its constraint `Small` divides the state space: either
nothing fails and the page is under all that can be published (rows of two frames and two
schemas, times that ascend or are missing, any subscription, losses), or the page hears
nothing yet and every failure and interleaving of the runs is there. The two meet in
`wire` only, which neither side reads back. `MaxPubs`, `MaxBreaks`, `MaxRuns` are the bounds;
`Retention` is 2 so that the three payloads have rows inside and outside of the window.

`ExcelReport`: the layouts put two bindings of one to two frames beside, above and over each
other, in every pair of modes and both spellings of a sheet, on a sheet of eleven rows, so
that frames meet its end. The answers are tables, grouped tables, dictionaries and lists
of row dictionaries with every kind of value in them, nested tables and repeated names included, in both modes, with and without keys
and a time column. `Small` lets several links and downloads run in one world only: reports
share nothing but the store.

Deadlock is not checked in the runs whose systems stop when every query, run or request has
ended.

### Fairness

Every goroutine that can run does (weak fairness of the steps of each query, each
refresh and of a disposal that has begun): the Go scheduler is fair. A dial returns,
which a plain dial does by its timeout and a TLS dial by the operating system's. A
read on a connection this side closed fails. kdb+ need not answer (`FairSpec` of
`SyncPool`): its silence is what the timers are for. `PatientSpec` has no
timers and assumes instead that a read ends, with an answer or an error. In
`SyncCache` a kdb+ call ends, with a result or an error: that is `EveryQueryReturns`
of the pool below it. In `AsyncJob` a run takes its steps and its timeout passes; once
the context is over, the `select` of the poll loop does not choose the ticker for ever
(strong fairness of `GiveUp`: Go chooses among ready cases at random, and between
ticks the context is the only one); a cancel that has been written arrives; a call on a
connection this side closed fails. kdb+ need neither answer a call nor finish a job.
In `LiveSessions` a run and its watcher take their steps, a stop and a start call are
answered or fail, and a frame that was sent arrives or is lost. The code has no timeout for
those calls (`kdbStream.go:498` and `:587-608`): without this assumption a silent kdb+ keeps a run at its start,
and the watcher at its stop, so that it never closes the connection. `CancelledRunsEnd` says
nothing of that. kdb+ need not publish, and
the network need not break anything. Nobody has to begin a query, clear, dispose, or let time pass.

### What they found

**A refresh does not always serve the next query.** `README.md:26` says that expired
cached data is returned immediately while the backend refreshes the cache for the
next query. With files the lookup on disk (`kdbSyncCache.go:214`) and the fill of
memory from it (`:219`) are two critical sections, and neither is in the flight. In
the run's trace two queries read the old file; the first serves it and starts a
refresh, which stores a new result; the second then fills memory with the old entry
over it, and the query that comes next is given the old result from memory. The wrong
entry lives on as long as a stale one may. Without files it cannot happen
(`MemoryNeverGoesBack`).

**A timeout while submitting cancels nothing.** `CHANGELOG.md:40` promises a total
timeout for the submit, status and result calls of helper and legacy runs "with
best-effort cancel on timeout". In all four functions a submit that times out returns
at once (`kdbStream.go:213-220`, `kdbLegacyAsync.go:353-360`, `kdbAsyncResource.go:387-394`
and `:524-530`): `finishContext`, which cancels, is built after it. The request may have
reached kdb+, and the job goes on. A helper run could cancel it, since the job ID is the
request ID it chose; a legacy run has no ID yet.

Two more things that `AsyncJob` shows, and no document forbids: a run that acquires a
slot after `Dispose` has closed `asyncJobs` panics (the branch `shut` of
`AcquireSlot`; `SlotAccounting` holds through it), and a plugin managed query that was
cancelled gives its slot back while kdb+ still evaluates it.

Where the new models show that the code does less than one might expect, the property names
the exception, and there is no document to hold it to:

- A run that begins while an earlier one of its ID is still ending may lose its registration
  to that one's late stop, or its late start, since both name the ID only (`robbed` in
  `LiveRunRegistered`; `kdbStream.go:498` and `:516`). It then waits for ever, healthy.
- A run that ends because a send fails, a payload does not parse or a connection breaks leaves
  its registration (`left` in `PushesOnlyToOwner`; `kdbStream.go:568-581`). kdb+ goes on pushing
  to the handle, and a pooled connection that was given it reads a push as its answer
  (`kdbQuery.go:94`).
- A session that ended with done or error is used again by later subscribers
  (`datasource.ts:337`): they see the old rows, and no new run.
- A panel whose `Max Rows` is smaller than another's on the same session is shown the larger
  number at the next event, because the limit is not part of the key and only grows (`:157`,
  `:388`); `README.md:122` speaks of "the query's `Max Rows` setting".
- Two stream bindings that spell one sheet in two ways pass validation, and the rows of the first
  are lost (`excelReport.go:538` folds case, `:1238` does not; excepted in `FramesIntact`).
- Two stream bindings side by side pass validation and always fail in generation
  (`excelReport.go:1490`).
- A report whose ID has blanks around it passes validation and is never found (`:486`, `:753`).
- `i < keyColCount` (`kdbTableParser.go:834`) goes by the number of key columns even when they
  are not included, while its comment speaks of key columns: a list of characters in the place of
  a key is then repeated as a string (excepted in `KeysOnlyAdd`).
- A dictionary whose values have several lengths makes a frame with columns of several lengths, and a report
  writes as many rows as the first has (`Ragged` in `FramesRectangular`).

- A keyed table with a column that is itself a keyed table makes the parser of grouped tables panic
  whatever its other columns are (`correctedTableIndex`, `kdbTableParser.go:981`; excepted in
  `OnlyNestedValuesPanic` with all nested tables that are not of plain columns).
- Row dictionaries with a name twice make two columns of it if all rows have the same names in the same
  order, and one column with the last of its values otherwise (`kdbTableParser.go:261` and `:217`).

Two behaviours are in the model of the cache and not held to a property, because nothing says
what they should be: a query in refresh mode which joins a read query's flight is
answered from the cache if the leader's inner lookup hits (`:234-237`), and a flight
that is under way during a clear stores its result after it.

## 4. Mutants

Every property of a passing run has a mutant: a definition with a plausible bug,
beside the one it replaces, under which the run finds the property violated. Among
them are a dial failure that keeps its slot, a timed-out connection that is
reused, an activation that does not look at the closed flag, an off-by-one in the
capacity, a refresh outside the singleflight group, a mark that a failed refresh leaves
behind, a copy from disk that starts a new life, a cancel over the run's own closed
connection, a cancel sent because an error ended the run, a status call that does not watch its context, a watcher that is not told of
the run's return, that stops nothing or closes nothing, rows trimmed at the wrong end, a
token that is not deleted or expires too early, sheets compared by spelling, a frame placed
without counting its header, strings taken for lists of characters, and row dictionaries
matched without their order.

## 5. What is proved

### The pool (`SyncPoolProofs`)

For every finite set of queries and every `Max >= 1`
(`QueriesAssumption`, `MaxAssumption`, `TimersAssumption`):

| Theorem | States |
|---|---|
| `TypeCorrect` | `Spec => []TypeOK` |
| `Inductive` | `Spec => []IInv` |
| `SlotsAccounted` | `Spec => []SlotAccounting` |
| `OpenBounded` | `Spec => []OpenBound` |
| `ExclusiveUse` | `Spec => []Exclusive` |
| `OwnAnswers` | `Spec => []OwnAnswer` |
| `IdleClean` | `Spec => []IdleIsClean` |
| `NothingLentAfterDispose` | `Spec => NoLeaseAfterDispose` |
| `PoolImplementsLease` | `Spec => LeaseSpec` |

None of the safety properties is inductive. `IInv` adds what the code relies on
without saying so:

- `Names`, `Distinct`, `OneUser`: a connection exists only if its dialler has
  got past the dial, and it is idle, held by one query, or being drained: one of these.
- `Owned`: whatever is open is idle, held or drained. This turns the bound on slots into
  the bound on open connections: open connections map into slot owners.
- `Alive`: until disposal a held or idle connection is open (unless its holder is
  about to close it after a timeout or a failure).
- `Readers`, `Wires`: a reader is at work on an open connection only for the
  query that holds it, and a reply is outstanding only for that query. Hence
  `OwnAnswer`, although the reader outlives its query after a timeout: the
  connection was closed before the query let go of it.
- `Accounting`: the token count. The step that matters is that no release finds
  the channel of tokens empty, so the `default` in `releaseSyncPoolSlotUnlocked`
  never hides a double release.

The refinement maps a lease to a query between activation and release; the
disposal's flag to `shut`. Every action maps to one step of `ConnLease` or to none.
`OpenBound` and `Exclusive` justify `Open` and `Grant`, `IInv` justifies `Answer`.

### The one-time links (`ExcelDownloadsProofs`, `ExcelReportProofs`)

For any sets of links and downloads with no member in common
(`LinksAssumption`, `TakersAssumption`), any time to live (`TimeAssumption`), any number of
instances (`InstancesAssumption`), and a `None` that is not an entry of the store
(`EntriesAssumption`):

| Theorem | States |
|---|---|
| `AlwaysDInv` | `DSpec => []DInv` |
| `TypeCorrect` | `DSpec => []DTypeOK` |
| `EachServedOnce` | `DSpec => []ServedOnce` |
| `EveryTakeExact` | `DSpec => TakesAreExact` |
| `ReportsImplementDownloads` | `Spec => DSpec` (`ExcelReport` implements `ExcelDownloads`) |
| `ReportServedOnce` | `Spec => []ServedOnce`, of `ExcelReport` |
| `ReportTakesExact` | `Spec => TakesAreExact`, of `ExcelReport` |

`ServedOnce` is not inductive: it says nothing of the store. `DInv` ties the store to what
happened to the links, in both directions. `EntryIsLive`: an entry is in the store of
the instance that made the token, for the workbook of that token, with the expiry it was
given, and nobody has been served it. `GoneForGood`: an open link without an entry
has been served or has expired, so neither the clean-up under the lock nor the
removal by a take loses a workbook that is due; `TakesAreExact` needs this half.
`AskedIsOpen` says that a token in a request was issued. The steps of `ExcelReport` that
generate, write and validate change none of the links' variables, whatever the settings
and the answers of kdb+ are; `ReportsImplementDownloads` is proved from that alone, so it
holds for any `Worlds`.

### The cache (`SyncCacheProofs`)

For any sets of queries and keys, either mode, any limits, ttl and stale ttl, with or without
files and faults (`CacheAssumption` gives the numbers their types, with at least one entry in
memory; `NoneAssumption` keeps `None` apart from results and processes):

| Theorem | States |
|---|---|
| `Inductive` | `Spec => []IInv` |
| `TypeCorrect` | `Spec => []TypeOK`, the limits of both stores among it |
| `Coalesced` | `Spec => []OneFlight` |
| `MarksHaveRefreshers` | `Spec => []MarkHasRefresher` |
| `RefreshesNeverPileUp` | `Spec => []RefreshersBounded` |
| `CopiesKeepTheirAge` | `Spec => []CopiesAgeTogether` |
| `NeverGoesBack` | `Spec => []MemoryNeverGoesBack` |

None of the properties is inductive by itself. `IInv` adds:

- `Places`, `Holdings`: where a process may stand and what it then holds. A refresher exists
  only once its query has been answered, so a key has at most as many as queries.
- `FlightHeld`, `FlightKeys`: the singleflight group has a flight for a key exactly while a
  process runs its function. `OneFlight` is this, read backwards.
- `Marked`: the refreshers of a key are no more than the clears, and one more if the key is
  marked. A refresher begins with its mark and takes one away when it ends, be it its own or not;
  only a clear takes a mark and leaves the refresher. Hence `RefreshersBounded` (the flights of several
  are one all the same).
- `Unstored`: a result on its way into memory or into a file is in no store yet, and nobody else
  has it. This needs the one flight per key, and is what makes the three facts about ages and order
  go through.
- `FillsAge`, `CopiesAge`: what was read from a file, or copied to memory from it, is as old as
  the file, also if the file was replaced meanwhile. `CopiesAgeTogether` is not inductive without
  what the readers still have in hand.
- `MemoryIsNewest`: without files, what memory has of a key is the newest result stored, and what
  a flight has fetched is not older. With files the finding of section 3 refutes it.

Of the stores the proofs use that their operators keep entries at some positions, each once
(`KeptFacts`, `WithoutFacts`, `PutFacts` and others), counted with the theorems on finite sets.

### Asynchronous runs (`AsyncJobProofs`)

For any finite set of runs (`RunsAssumption`), of any kinds and in either way (`KindsAssumption`),
and any number of slots from 1 on (`MaxJobsAssumption`), with a `None` that is none of the ends
(`NoneAssumption`):

| Theorem | States |
|---|---|
| `Inductive` | `Spec => []IInv` |
| `TypeCorrect` | `Spec => []TypeOK` |
| `SlotsAccounted` | `Spec => []SlotAccounting` |
| `OneEndTold` | `Spec => []OneFinal` |
| `TruthReported` | `Spec => []ReportsTruth` |
| `RunsImplementAsyncRun` | `Spec => RunSpec` (the runs implement `AsyncRun`) |

`IInv` is `TypeOK`, `Slots` and, for each run, a dialogue and what it tells:

- `Slots`: the tokens taken are counted by the runs that hold one, a run has a connection only
  within its slot, and only a run that has a slot comes to release it. The deferred release in Go
  runs on every path; that it runs once, and only after `acquireAsyncSlot` succeeded, is this.
- `OneCall`, `OneJob`: which requests of a run may be under way in each place. A submit comes
  before everything else, and while a run waits for an answer no other request of it is under way,
  so that it cannot take the answer to another for it.
- `Knows`: what a run has been told of its job is still true when it acts on it: done and
  cancelled jobs stay what they are, however late a worker of a gateway ends or a cancel arrives.
- `Tells`: progress until the end, one end in the last place, and that it fits the job or the
  context. `OneFinal` and `ReportsTruth` follow.

A step is a step of one run or of kdb+ for one run; `OthersKeep` says once that the rest
of the runs are as they were.

The refinement needs one invariant more, `Asks`: nobody has asked kdb+ to cancel a job, or is
about to, before its run's context is over, and only a run that has ended panicked. It is what
makes kdb+'s late handling of a cancel a `Drop`, in whatever state the run is by then. That no
end is told after one (`Tell`) and that an end is true are `IInv`'s; that there is a slot at
admission (`StartRefined`) is `Slots`, with the runs that go on counted as the tokens. Submits
that reach kdb+ after their run's end are `Create`, which asks only that the run began. A step of
a run that neither starts, tells nor ends it changes nothing that `AsyncRun` sees (`Unseen`).

### The generation of reports (`ExcelReportProofs`)

For any `Worlds` of settings, requests and answers, as long as lists are lists, a report has an
answer for each of its bindings, rows, columns and lengths are numbers and answers are well-formed
(`WorldsAssumption`), any length of
sheets and any default for the number of rows (`RowsAssumption`):

| Theorem | States |
|---|---|
| `GenerationInductive` | `Spec => []GenInv` |
| `ReportTypeCorrect` | `Spec => []TypeOK` |
| `SheetsUnmixed` | `Spec => []NoMixedSheet` |
| `ValidatedNeverRefused` | `Spec => []ValidationSound` |
| `FramesStayIntact` | `Spec => []FramesIntact` |

`GenInv` has one clause for each stage: `Settled` says that settings which a report is past
were accepted, `OfBindings` that the sheets streamed in a workbook, and those written otherwise, are
those of bindings of that mode, by their spelling. Validation compares modes by the folded name,
the writers by the spelling; `ModesApart` takes the one to the other, so that two
spellings cannot bring two modes together. `Founded` says of each refusal what it is founded on,
which is what `report/validate` looks at: it accepts nothing that a generation refuses for that.

`FramesIntact` is about the whole generation, and needs another invariant, `SheetInv`. `Gathered`
says what each stage has: while bindings are collected, one list of frames for each binding
before (of whole numbers of columns and rows); while they are written, a workbook that fits those
before (`BookFits`); once saved, one that fits them all. `BookFits` says that what is in the workbook
comes from earlier bindings, that the rows of a stream ascend, that a sheet has one stream for its
spelling, that a binding with frames has its stream, and that every binding that no other disturbs
shows all its cells (`Drawn`). A write keeps `Drawn` for the bindings before it: on another sheet it
changes nothing of theirs, not by clearing a range and not by folding the sheets' names when
they are saved (`SavedIs`); on the same sheet it is a stream of the same spelling, whose rows
come below theirs.

### The parser (`KdbFramesProofs`, `ExcelReportProofs`)

For every well-formed answer and both modes, with and without keys and a time column:

| Theorem | States |
|---|---|
| `PlainAnswersParse` | `Spec => []OnlyNestedValuesPanic` |
| `EvenFrames` | `Spec => []FramesRectangular` |
| `EveryRowShown` | `Spec => []RowDictsUnion` |
| `IncludedKeysOnlyAdd` | `Spec => []KeysOnlyAdd` |

There is a lemma per parser (`SimpleTableIs`, `KeyedTableIs`, `GroupedTableIs`, `DictFrameIs`,
`ObjectFrameIs`, `DictListIs`) that says: it returns a result, panics only over what it names, and its
frames are even unless its argument is ragged. `ParseIs` puts them together under
`MoveTimeRearranges`: moving the time column keeps a frame's columns, whatever their number.
`KeysBeforeValues` is the heart of `KeysOnlyAdd`: whether a string is one value or a list of
characters is decided by its place, so the places of the values must not matter to them
when keys are put before them; they do not unless one of them is a string among the first.
`EveryRowShown` needs what the union of names computes: `FirstAppearancesOnly` is by induction on
the names read.

The induction theorems of the library take an operator, which the provers cannot instantiate.
`Induction` and `Recursion` in `SequenceFacts` are the same facts for a set of numbers and a
function, from the least element of a set (`WFMin`); recursive functions and the folds of the
community modules can be proved about with them.

Two properties turned out to be stated too strongly when they were to be proved, in corners that
no world of the run had, and were corrected together with the model and the worlds: an answer
with nested tables makes the parser panic in more places than `OnlyNestedValuesPanic` named, and
`RowDictsUnion`, as it stood, failed for rows that all have a name twice: each of the two columns
shows a value of its own.

### Push streams (`LiveSessionsProofs`)

For any number of runs of a stream's ID and any handles, payloads and bounds
(`StreamAssumption` only says that the number of runs is a natural number and that `None`
and `Pool` are none of the members; `PayloadsAssumption` that a payload is a list of frames of the
page's keys, each with a schema and rows whose times are numbers or missing; `RetentionAssumption`
that a limit is a positive number and the retention 0 or more, as `QueryEditor.tsx:171` and `:178`
take digits only and `datasource.ts:152` replaces a 0):

| Theorem | States |
|---|---|
| `AlwaysStreamInv` | `StreamInit /\ [][StreamNext]_streamVars => []StreamInv` |
| `SessionsRunStreams` | `Spec => StreamInit /\ [][StreamNext]_streamVars` (of `LiveSessions`) |
| `PushesReachTheirRun` | `Spec => []PushesOnlyToOwner` |
| `WaitingRunsAreRegistered` | `Spec => []LiveRunRegistered` |
| `AlwaysPageInv` | `Spec => []PageInv` |
| `TypeCorrect` | `Spec => []TypeOK` (of `LiveSessions`) |
| `LatestRowsShown` | `Spec => []LatestRows` |

The theorems about `LiveSessions` rest on `SessionsRunStreams`: the page adds maps
and rows of its own and takes no step of a run or of kdb+ except the stream's. `StreamInv` adds:

- `HandleIsKept`: kdb+ gives nobody else the handle of a connection that works or whose
  start it has yet to read. Handles are reused, so this is what stands between a
  registration and somebody else's connection.
- `Places`: what a run and its watcher can be at together. In particular a watcher that
  is about to close has stopped the registration, or the run has left it behind.
- `Answers`: the answer to a start is the last of the run's own messages before data, and
  a refusal or an end means the registration is gone.
- `Registration`: the registered handle is that of the run, whose connection works unless
  the run has left without an answered stop.
- `OneWanted`: runs of an ID begin one after the other; an earlier run that can still
  send a start or a stop is in the later one's `late`.
- `WaitsRegistered`: `LiveRunRegistered` carried back to the moment at which kdb+
  answers, when the run has not yet read the answer. This is the inductive form.

`PageInv` adds the page to that: every frame in a run's hands or on its way is one
that was published or a status (`RunInv`), and the session has completed exactly if its state is
terminal, has the row limit of one of its panels, and is there before anything is sent to it
(`SessionInv`).

`LatestRows` compares what the session has trimmed at every arrival with everything that was
heard, and needs `HeardInv`: the session has completed exactly if a terminal frame was heard; the
frames that count for a key (`Since`) are of the schema the session has for it, so that appending
to the session's rows and restarting them correspond to appending to what counts and restarting it
(`RowsArrive`); and the rows fit (`RowsFit`). The heart is `TrimmedAgain`: rows that were trimmed
and grow are trimmed to what all would be trimmed to. It needs times that ascend, which the property
says, because the retention looks for the first row that is recent enough, and `StartIsFirstKept`
says what the first row kept is then: every row before it is too old or too many.

### Model-checked only

Liveness, as the prover does not reach fairness: `EveryQueryReturns`, `DisposedQuiesces`,
`QueriesReturn`, `RefreshesEnd`, `RunsEnd`, `GivenUpJobEnds`, `CancelledRunsEnd`. Every
invariant, action property and refinement that a passing run checks is proved; the two properties that
the code violates have a trace and nothing to prove.

## 6. Not modelled, and the plan

Done: the pool, the cache, asynchronous runs with what they promise, push streams with the page's
stream sessions, reports with their links and the parser of answers; proofs of all their safety
properties and refinements. What would come next:

1. Composition: cache over pool with disposal (the cache object dropped under running
   refreshes), per-query policies.
2. Run and wait in full: decoding, relative times, the HTTP status; status
   normalisation and response paths of the legacy adapter.
3. The page's sessions of asynchronous queries.
4. Pure parts: cache keys and policies, defaults normalisation.

Left out for good: the wire protocol and TLS (external library), JSON decoding,
logging, forms and panels, the limits of sizes and times in the settings of reports (only that of rows is
validated in the model), letters whose case `ToLower` and `EqualFold` fold differently, demo and build scripts, and the single-handle sync
path (`syncQueryRunner`, `kdbHandleListener`), which nothing in production starts.
