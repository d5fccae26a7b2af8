# Hrönir in TLA+

A model of Hrönir, the harvester that keeps the records of a catalog in step
with the resources of Connected Systems servers, with TLC checks and TLAPS
proofs. Paths are relative to the repository's root (`src/` here).

## The system

| part | code | state | operations |
|---|---|---|---|
| coordinator | `internal/harvest/coordinator.go` | one mutex per source | `Sync` (`syncSource`, `crawlKind`, `materialize`), `HandleCloudEvent`, `RetryEvents`, `ReconcileTarget`, `RetryFailures`, `Prune`, `Run` |
| state database | `internal/state/store.go` | SQLite tables `resources`, `events`, `runs`; a flock | `Open`, `Close`, `BeginRun`, `Get`, `GetByURL`, `Save`, `CandidatesForDeletion`, `MarkDeleted`, `Active`, `ActiveFor`, `Failures`, `EnqueueEvent`, `CompleteEvent`, `RetryableEvents` |
| commands | `cmd/hronir/main.go` | the process | `run`, `sync`, `remap`, `failures retry`, `prune` |
| source client | `internal/source/source.go` | discovered endpoints | `Discover`, `CrawlKind`, `GetSubject`, `Normalize` |
| target client | `internal/sink/sink.go` | none | `Check`, `Get`, `Put`, `Delete` over `doJSON` |
| mapping engine | `internal/mapping/engine.go` | the fields with their literals; a pool of JavaScript runtimes | `Map` |
| event intake | `internal/events/events.go` | the MQTT session | `Discover`, `Subscribe`, `Parse`, `ResourceKind` |
| record model | `internal/model/model.go` | none | `RecordID`, `SemanticHash`, `SetHashes`, `NewRecord` |
| configuration | `internal/config/config.go` | what was read at the start | `UnmarshalYAML` of a field, `validateMappings`, `validate` |
| catalog bundle, transport, metrics | `internal/catalog`, `internal/transport`, `internal/metrics` | none that the rest reads back | |

The coordinator is where the parts meet. It reads the source page by page,
looks every listed resource up in the ledger (the `resources` table), maps it,
writes the record to the target, and then writes the row. A crawl that went
through to the end counts a miss for every row it did not mark, and deletes the
records of the rows with too many misses. MQTT events do the same for one
resource at a time, each in a goroutine of its own. A periodic reconciliation
compares the target with the ledger and repairs it. The catalog, the ledger and
the source are three systems without a common transaction: every call may fail,
a failed write may have been applied, and the process may die between any two
of them.

What is hard, part by part, and what makes the part correct:

- **coordinator**: two goroutines on one resource (the mutex covers crawl and
  events, but not `ReconcileTarget`); a write cut in two; errors that are
  ignored on purpose. Correct when the ledger never lies about the catalog
  except where a call was lost or raced, when nothing is swept that was not
  missed often enough, and when the catalog follows the source in the end.
- **state database**: rows selected once and used later; three-statement
  `EnqueueEvent`. Correct when the miss counter counts what it says and a
  completed event stays completed.
- **commands**: the flock makes them exclude each other, but goroutines outlive
  the database they were started with; each command is a fixed sequence of tasks
  that stops at the first error. Correct when the ledger has one owner and a
  command that is told to stop does.
- **source client**: pages of a collection that changes meanwhile; `next` links
  that never end; a 404 that means "not offered"; endpoints guessed from the
  words in a link; one resource under several URLs. Correct when `Complete` is
  only said of a crawl that saw everything, and a resource is recognised
  whichever way it is found.
- **target client**: four attempts, ambiguous failures, late requests.
- **mapping engine**: may fail for a content; a pool of interruptible runtimes;
  documents are Go maps that share their parts with the configuration and with
  the input. Correct when a record depends on its resource and the overlay alone.
- **event intake**: duplicated, lost and reordered messages; a handler under a
  context of its own.

`PROJECT.json` lists the hazards line by line, with the property that watches
each, or why there is none.

## Modules

| module | what it is |
|---|---|
| `Ledger` | one row of `resources` and what each SQL statement and each row literal of the coordinator makes of it |
| `Harvest` | the state machine: source, target, database, the running command and its goroutines; its properties |
| `HarvestInvariants` | the strengthened invariants, as predicates TLC can evaluate |
| `HarvestProofs` | types, program points and locks: `SpecDiscipline` and what follows; `Harvest` keeps the promise of `EventLog`; the ledger mirrors the catalog, the sweep is earned, a remap applies (TLAPS) |
| `MCHarvest` | model values, mappings and bounds of its TLC runs |
| `TargetCall` | abstract: what `sink.Sink` promises about calls on one record |
| `SinkRetry` | `doJSON`: attempts, waits, answers, broken connections; implements `TargetCall` |
| `SinkRetryProofs` | that refinement, and what the only caller may conclude (TLAPS) |
| `Crawl` | `CrawlKind` page by page over a changing collection, and the sweep's use of its result |
| `CrawlProofs` | what Complete promises, for any pages (TLAPS) |
| `ScriptPool` | the pool of JavaScript runtimes and the timers that interrupt them |
| `ScriptPoolProofs` | no runtime is shared, a deadline stops one call (TLAPS) |
| `EventLog` | abstract: what the durable event log promises |
| `FieldMap` | `Engine.Map` field by field, on documents that share objects; the overlays the configuration admits |
| `FieldMapInvariants` | where an object can be mounted, and what calls find in their records, as predicates TLC can evaluate |
| `FieldMapProofs` | a record's hash is its own, and what panics (TLAPS) |
| `RecordInvariants` | the ideal of the pointers applied so far, as predicates TLC can evaluate |
| `RecordProofs` | a record is what the overlay says of its resource alone (TLAPS) |
| `Service` | processes over one state file: flock, start, subscriptions, SIGTERM, `Run`'s loop, `Sync` over sources and kinds, mutexes, cancellation |
| `ServiceProofs` | one owner, one worker, a truthful `Sync` (TLAPS) |
| `Identity` | several kinds, endpoints, canonical URLs, the UNIQUE index, events by URL |
| `IdentityProofs` | one URL a row, one record a row (TLAPS) |
| `MCSinkRetry`, `MCCrawl`, `MCScriptPool`, `MCService`, `MCIdentity` | their instances for TLC |

`Harvest` is the composition of coordinator, database, commands and events, for
one kind of one source. Around it, `Service` has the processes, sources and
kinds, with the work `Harvest` describes as one step that succeeds or fails, and
`Identity` what `Harvest` takes for granted of a resource: that it has one
name. Both abstract from `Harvest`'s failures in the middle of a write.
The other modules look inside a call `Harvest` makes in one step, and establish
what that step assumes: `SinkRetry` what a `Put` or `Delete` that succeeded, or
failed, has done; `Crawl` that a complete crawl is a look at every resource;
`FieldMap` that `mapper.Map` is a function of profile and content, and which
overlays make it something else; `ScriptPool` that it returns and that no
runtime is shared. `EventLog` is above `Harvest`: the same events, seen from the
table.

### How `Harvest` corresponds to the code

| model | code |
|---|---|
| `source`, `target` | what the server serves for each resource, and the catalog's record of it; `None` is a 404 |
| `rows` | table `resources`: status, deleted, normalized content, record hash, last seen run, misses |
| `events` | the status column of table `events` |
| `cmd`, `profile`, `plan`, `task` | the running command, the mapping it was started with, the coordinator calls it still has to make, the one it is in |
| `batch`, `unlisted` | the `for range` loop the main goroutine is in; the pages `CrawlKind` has not fetched |
| `lock` | the source's mutex in `Coordinator.locks` |
| `work[w]` | the local variables of `materialize` or `HandleCloudEvent` in goroutine `w`; `Loop` is the main one, each `Handler` an MQTT message's |
| `recon`, `cancelled` | the goroutines of `ReconcileTarget`, their snapshot rows, and their errgroup's context |
| `suspect`, `reported`, `absent`, `swallowed` | history, never read by an action's guard: resources of which a write was lost or raced, and what the crawls really listed |
| `budget` | how many changes, drifts, crashes and failures a run may still see |

One action is one call that leaves the process, with the local computation up
to the next one: `Read` is `store.Get`, `mapper.Map` and the three-way choice
of `materialize`; `Put`, `Save`, `Delete`, `Mark`, `Sweep` one request or
statement each. Each has its failing twin (`PutFails`, `SaveFails`, ...) that
does what the code does with the error: `materialize` turns a failed PUT into a
failure row and goes on, `crawlKind` returns the error of a failed DELETE,
`SaveFails` drops the error of a failure row and returns any other. A failed PUT
or DELETE may have been applied. `EndTask` is what an error, or success, means
to the command: `run` logs and goes on, the others give up.

Abstractions, all on the data side:

- one source and one resource kind; a resource id stands for its canonical URL
  (`Service` and `Identity` have the rest);
- a normalized resource is a member of `Version`, a record (its hash) a member
  of `Record`, and `mapper.Map` the constant function `Mapping`, per profile;
- `last_seen_run` is a flag, TRUE when it equals the newest run's id: run ids
  only grow and are only compared with the newest. `consecutive_misses`
  saturates at the threshold, with which alone it is compared;
- a crawl looks at each resource once, in pages of any size and order; batches
  are handled in any order (the code uses the order of the SQL result);
- `runs.complete`, `profile_digest`, `last_error` and timestamps are never read
  back by the coordinator and are left out;
- SIGTERM is a `Crash` here, as is a failed start; `Service` has both;
- requests that reach the target after the call has given up are left out: the
  target is `TargetCall`'s with `Late = FALSE`. An acknowledged call is one
  execution here; `TargetCall` allows several, all of the same request.

### How `SinkRetry` corresponds to `doJSON`

`pc` is the position in the loop: before `client.Do` (`send`), in it (`await`),
in `wait` (`wait`). `flight` is the one request the attempt has under way, then
its answer, of which only the four classes the code tells apart are kept:
2xx, 404, 429/5xx, others. The target (`Serve`, `Decline`) executes a request or
not and may answer 5xx in both cases; `Break` is an error of `client.Do` (a
broken connection, or `http.Client`'s timeout), `Garbled` an answer that is cut
off or does not parse, `Cancel` the caller's context. With `Late` a request that
was given up stays on its way (`late`) and is executed later, once, several
times or never. The length of a wait, `Retry-After` included, is left out, as is
`Check`.

The refinement mapping to `TargetCall` is the identity on its five variables.
`KeepsPromise` says: a call that returns without an error was executed while it
lasted (a 404 of a GET or DELETE counts), a failed one may have been, and nothing
but calls, and what they left behind, changes the record.

### How `Crawl` corresponds to `CrawlKind`

`fetch` is `getJSON`, `visit` the loop over a page's items, `judge` the return to
`crawlKind`, `delete` its loop over the candidates. The server keeps its
collection in an order; a page is what it has at that moment from the cursor up
to wherever the server ends it. `cursor` counts items (`ByOffset`) or is a
position. The next link leads on, to the same page, back to an earlier one or to
an empty one (`Turn`): the server is only asked not to link past items and to
link as long as there are more. To the crawl a collection that grows ahead of it
for ever is one more server whose links never end. `result` is `PageResult`
with its error: `skipped` is a 404 in mode `auto`. `Visit` stands for a
`materialize` that marks the row; `Harvest` has what it does otherwise.
`cancelled` is the crawl's context (SIGTERM, or `Sync`'s errgroup): every
request and every statement of the crawl takes it, so `Fetch`, `Visit`, `Sweep`
and `Delete` need it alive. `CancelInVisit` ends it within `materialize`, where
both errors, the Put's and the failure row's, are dropped: such a crawl may still
say Complete. `stood`,
`removed` and `excused` are history.

### How `ScriptPool` corresponds to `callJS`

`got`, `run` are before and in the JavaScript call; `stop`, `clear`, `put` the
two deferred functions in the order Go runs them: `timer.Stop`, then
`ClearInterrupt` and `pool.Put`. `Fire` starts the callback of `time.AfterFunc`
in its own goroutine (`callbacks` counts them per runtime), `Interrupt` is when
that goroutine gets to run. A runtime's interrupt flag stays until it is
cleared; goja checks it when something runs. `Drop` is the garbage collector
emptying the `sync.Pool`.

### How `EventLog` corresponds to the event log

`log` is the status column. `hand[w]` is the event a goroutine has in
`HandleCloudEvent`: `taken` between the SELECT of `EnqueueEvent`, which found it
not complete, and the mutex; `serving` under the mutex; `ok` or `error` before
`CompleteEvent`. `Queue` is the UPDATE, which may come when another goroutine
has completed the event (see the findings). `Forget` is a crash, or a statement
that failed. `Harvest` maps its `events` to `log` and, by `InLog`, the program
points of a worker to stages: `requeue` and `lock` are `taken`, holding the
mutex is `serving`.

### How `FieldMap` corresponds to `Engine.Map`

A Go map is an object on `heap`; a value is missing, a text, or a reference. An
object is named by whose it is (a goroutine, the configuration) and by the path
it was made at, which says nothing of where it is referred to from later.
`NewRecord`, `Input` (`toMap`) and `Literals` are the three places objects come
from; `SetPointer` puts a reference where the code assigns a map, so two
documents share an object just when the code's do. `ApplyField` is one turn of
`Map`'s loop: `left` has the pointers it has yet to apply, of which `First` is
the next in the order of `sort.Strings`; another goroutine's turn may follow.
`SemanticHash`, `SetHashes` and `Put` are the caller's next steps.
`Configurable` has what may be written about a pointer in the configuration
file: a YAML node that `UnmarshalYAML` accepts and `validateMappings` does not
refuse. Whether yaml.v3 calls `UnmarshalYAML` for a null node at all is not in
this repository, so `UnmarshalYAML` allows both, and what the repository's
README says of `null` is left open. Seven pointers stand for all:
one object that the built-in profile fills, one it does not know, something
above and below each, a text, and the record's own section. Two resources: one
that has a name and associations, one without. `ConcurrentMapWrites` is the data
race: either both writes take effect, as the other actions say, or the Go
runtime ends the process.

### How `Service` corresponds to the processes

| model | code |
|---|---|
| `flock` | who holds the lock on `<state path>.lock` |
| `main` | where `runCommand` or `syncCommand` is: `locked` after `Flock`, `subscribing`, `serving` in the `select`, `closing` before the deferred calls, then one state after each of them |
| `db`, `stop` | the database handle is open; the command's context is done |
| `pending`, `clients`, `subscribed` | sources `subscribe` has yet to look at; MQTT clients that are alive; those the deferred function knows |
| `run`, `todo`, `waits` | the goroutine of `Run` (or of `Sync`, in the command); the events `RetryEvents` has selected; the source whose mutex it wants or has |
| `crawl[s]` | the goroutine of source `s` in `Sync`'s errgroup: queued, at the mutex, between kinds, in `crawlKind`; the kinds left; whether one failed |
| `cancelled`, `asked`, `crawled`, `result` | the group's context; what `Sync` was asked for, what was crawled completely (history), what it returned |
| `mutex`, `handler` | `Coordinator.locks`; the goroutine of an MQTT message, at most one per source here |

`faults` bounds failures, crashes and signals. A kind fails without a fault when
its context has ended or the database is closed. Kinds are crawled in any order,
the code has a fixed one. Messages are without a bound. The HTTP server is only
a reason for `MainReturns`.

### How `Identity` corresponds to URLs

`landing` is the list of links `Discover` reads: where each leads and which
kinds' names occur in its rel, title or path. `served` is, for a collection and
an id, the form in which it is listed: the query of its page (none, an offset)
and the last segment of its self link, which may be absent or another's.
`Canonical` is `Normalize`: the self link or else the URL of the response with
the id, query included. A crawl of a kind takes its listing in one step, then
visits the items in any order (`Visit` is `materialize`; PUT and `Save` are one
step, and `Save` fails when the UNIQUE index objects). `catalog` holds the URL a
record was made with, which stands for the record's content. `clashed` and
`wrote` are history.

## Properties

Of `Harvest`, safety:

- `LedgerMirrorsCatalog`: for every resource no write of which was lost, cut in
  two or raced, the target holds exactly what the row says - the last good
  record after a mapping or write failure, none for a deleted row.
- `OneWorkerPerResource`: two goroutines never materialize or delete the same
  resource at once.
- `SweepIsEarned`: the sweep deletes a resource only after `Threshold` complete
  crawls in a row that did not list it - or when the failure row that would
  have recorded its listing was lost (see the findings).
- `UnchangedNotRewritten`: no PUT is sent for a content and record that the
  ledger and the catalog have already.
- `RemapApplies`: after a `remap` without an error every active row has, in the
  catalog, the record of the new profile.
- `EventsAsPromised`: the refinement of `EventLog`. An event is taken only while
  it is not complete, served by one goroutine at a time, complete only once
  served, and never leaves the log.

Liveness, under `Fairness`:

- `PresentConverges`, `AbsentConverges`: once the source keeps serving a
  mappable resource unchanged, the catalog gets and keeps its record; once it
  keeps not serving it, the catalog loses it - unless it was left there without
  a live row (`Orphan`), which only a lost or raced write can do.
- `EventsComplete`: an event in the log is completed in the end.

Of the other components:

- `SinkRetry`: `KeepsPromise` (above), `CallReturns`: every call returns, however
  silent or busy the target; `TypeOK` includes that the loop never runs out of
  attempts without returning. `AcknowledgedHolds`: for the only caller, an
  acknowledged call tells what the catalog holds - provided the target forgets
  abandoned requests; with `Late` it is false, a PUT that timed out undoes a
  later acknowledged one, and nothing in the code prevents that.
- `Crawl`: `CompleteListsWhatStood`: a crawl that says Complete has listed all
  that stood at the source from its beginning to its end; by offset, unless
  something was removed meanwhile, which moves others over the page boundary.
  Additions never hide anything, and links that lead back do no harm. A crawl
  cancelled within its last visits may be Complete with items unmarked.
  `SweepIsExcused`: all the same, a resource that stood all the time is swept only
  when removals spoiled `Threshold` complete crawls in a row, because the
  statements that count misses take the context. `OnlyLinksKeepACrawl`: a crawl
  that never returns follows links for ever and was never cancelled. That a server
  can do this to it, and to the source's mutex, is what the code does: `CrawlKind`
  bounds neither pages nor time (`RequestTimeout` is per request).
- `ScriptPool`: `OneGoroutinePerRuntime`, `CallsReturn`, and
  `DeadlineStopsOneCall`: each deadline that is over stops at most one call -
  not always the right one (`OnlyOwnDeadline`, see the findings).
- `FieldMap`: `RecordIsIdeal`: the record is what the overlay says of this
  resource alone. `Ideal` is a definition without heap, order or interleaving:
  at each path the longest configured pointer decides. It fails, in the code,
  for four kinds of overlay, which `Disturbed` names: a literal object that is
  written into while two calls overlap (`SharedLiteral`); a field below a
  literal's member, which leaves an object in the configuration for good
  (`LeavesBehind`); a field below an object taken from the input that another
  expression reads later (`WritesIntoInput`); the record's own section taken from
  the input, from where another field shows it, so that `SetHashes` writes there
  too (`OwnIsShown`). `HashTellsBody`: the hash sent with a record is its own,
  with the first and the last of these exceptions: `SetHashes` comes after
  `SemanticHash`. `PanicNeedsOwnSection`: a configuration that the
  validation admits makes the process panic only if it names `/properties` or
  `/properties/hronir` (the race on a `SharedLiteral` may end it too, as `raced`); the map that is nil when a resource has no associations
  never does, because the field above is applied first.
- `Service`: `MutexHeldByWorker`, `LedgerHasOneOwner` (an open database belongs
  to the owner of the lock; two processes work on the catalog at once only while
  one of them has but to exit), `SyncTellsTheTruth` (success means that all it
  was asked for is crawled, in spite of kinds that are tried after another failed
  and of cancelled sources), `ShutdownEnds`, `EverySourceCrawled`. What the code
  does and no property forbids: events are handled before the first preflight;
  a client whose connection timed out goes on connecting; the subscriptions made
  before a required one fails are not closed; `sync --source` with an unknown
  name succeeds, having been asked for nothing.
- `Identity`: `RecordHasRow` (a record is in the catalog just when a row says so,
  made with the row's URL, unless the UNIQUE index refused its last row),
  `LateEventsAside` (an event deletes the record of a resource that is still
  listed only if its URL has changed since its row was saved),
  `KindConverges` (once the source stays as it is each kind's records are its
  listing) and `WritesEnd` (crawls and events that see the same resource under
  different URLs do not rewrite it for ever). Both excuse a kind whose links
  `Discover` misreads (`Misdirected`) and one in which something has the URL of
  another row (`Blocked`): its crawls then fail before the sweep, every time.

Fairness assumed, and why: the main loop, the handlers and the reconciliation
goroutines are run by the Go scheduler (`WF`). `Run`'s `select` picks at random
among the tickers that are ready, and `sync.Mutex` hands itself to a waiter that
waited for more than 1 ms, so none of them is passed over for ever (`SF` for
the three tasks and for `AcquireLock`). `hronir run` is started again when it
dies: that is the operator's supervisor, not the code, and the one assumption
from outside. Nothing is assumed of the source, the target, the broker or the
operator's other commands; failures are finitely many because `budget` is.

`SinkRetry` assumes that the caller is run and that timers fire: `requestTimeout`
is positive and `http.Client.Timeout` ends a silent request (`Break` is always
possible in `await`), `wait` has a timer. `Crawl` assumes the same of its
requests, that a crawl whose context has ended fails (`Abort`), and nothing of
the server's links. `ScriptPool` assumes that goroutines, the callbacks' too, are
run. None assumes anything about answers.

`Service` assumes of a daemon that its goroutines are run and their calls
return (no server links for ever, see `Crawl`), that a mutex is not withheld for ever from one who waits (`SF` of
`RetryLocks` and `SourceLocks`), that `select` chooses at random (`SF` of `Poll`
and `RunReturns`) and that it is started again and once finds the lock free; of
other commands only that they go on. `HandlerLocks`, `Message`, `Tick` and
`Sigterm` have none. `Identity` assumes that crawls go on and that a
reconciliation comes again and again between them; nothing of events.

## Runs

Bounds of the `MCHarvest` instances are in its `Limit*` definitions: how many
source changes, target drifts, crashes, target/source failures and database
failures one behaviour may contain.

| run | bounds | checks |
|---|---|---|
| `commands` | 1 resource, contents `v1` and `bad` (which only profile `p2` can map), 2 profiles, 2 handlers on 1 event, threshold 2, all five commands, 1 change, 1 crash, 1 failure | all safety properties, with the daemon's goroutines interleaved call by call |
| `batches` | 2 resources (symmetric), the same contents and profiles, threshold 2, the four one-shot commands, 1 change, 1 failure, 1 database failure, one reconciliation goroutine at a time | partial crawls, partial batches, cancellation |
| `live` | 1 resource with 1 content, 1 handler on 1 event, threshold 1, 1 change, 1 drift, 1 crash, 1 failure, 1 database failure | convergence, the event log and its refinement |
| `sink_retry` | 1 caller, 2 records, all four attempts, late requests; unbounded calls | the refinement and its liveness |
| `crawl` | 2 items, any pages and links, by offset, threshold 2; unbounded crawls, changes and cancellations | what Complete promises, what keeps a crawl |
| `script_pool` | 2 goroutines, 3 runtimes, 3 calls | sharing and interrupting runtimes |
| `field_map` | every overlay of at most 2 of 7 pointers, 2 goroutines, 2 resources; unbounded calls | sharing of documents, order, hash, panics |
| `service` | a daemon and a sync command, 2 sources (1 with MQTT) of 2 kinds, 1 of them disabled, 1 failure, crash or signal; unbounded rounds and messages | ownership, locks, cancellation, shutdown |
| `identity` | 2 kinds of 2 ids, 4 landing pages, threshold 2, 2 changes, 1 event | URLs |
| `sweep_doc`, `requeue_doc`, `deadline_doc` | as small as the behaviour allows | the findings |

The bounds suffice for what they aim at: resources only interact through the
batch, the sweep and the errgroup, for which two are enough; two handlers and
the main loop are every kind of contender for the mutex; the source starts with
any content or none, so that one change makes a resource appear, leave or turn
into another; threshold 2 is the default and the smallest with a difference
between "missed" and "missed enough"; one failure of each kind, at any step, lets
every error path run. What two failures, or two changes, could do together is
covered by the theorems, which have no bounds, and for the rest is not checked. One caller meets in its own late requests
whatever another caller could do to its record between two attempts; the theorem
is about any number. Two items are a page boundary with something before and
something behind it, so that the removal of one hides the other; with three the
run takes too long, and the theorems of `CrawlProofs` are about any number, and
about both ways of paging. Three calls are the one whose
timer is late, the one it hits, and one more beside them. Two pointers of an
overlay, with the two of the built-in profile below or above them, are all a
field can interfere with: the one that provides an object and the one that
writes into it. In `service` one failure suffices to cancel a source while the
other is in the middle of a kind; its concurrency limit, 2 for 2 sources, never
holds a source back, with a third source the liveness check takes too long. Its
safety properties are proved for any limit. In `identity` two changes move a
resource and move another to its URL, or back.

Three runs end in a counterexample on purpose:

- `sweep_doc` - README: the sweep comes "only after a complete source-kind
  crawl ... two complete misses". `coordinator.go:159` ignores the error of
  saving the failure row: a resource that is listed, cannot be mapped and
  whose failure row is lost counts as missed.
- `requeue_doc` - `store.go:252`: "EnqueueEvent returns false for a duplicate".
  Its SELECT and UPDATE are two statements; a duplicate delivery between them
  takes up a completed event again.
- `deadline_doc` - `engine.go:558`: "function deadline exceeded".
  `timer.Stop` does not wait for a callback that has started, and the callback
  interrupts the runtime. Scheduled late it hits the next call on it, which
  fails within its 100 ms; README: functions are "pure".

## Proofs

For every value of the constants - any resources, contents, profiles, mapping,
handlers, events, threshold, and numbers of crashes and failures:

| theorem | states |
|---|---|
| `HarvestProofs!SpecTypeOK` | `Spec => []TypeOK` |
| `HarvestProofs!SpecOneWorker` | `Spec => []OneWorkerPerResource` |
| `HarvestProofs!SpecLedgerMirrorsCatalog` | `Spec => []LedgerMirrorsCatalog` |
| `HarvestProofs!SpecUnchangedNotRewritten` | `Spec => []UnchangedNotRewritten` |
| `HarvestProofs!SpecSweepIsEarned` | `Spec => []SweepIsEarned` |
| `HarvestProofs!SpecRemapApplies` | `Spec => []RemapApplies` |
| `SinkRetryProofs!SpecKeepsPromise` | `Spec => KeepsPromise`: `SinkRetry` implements `TargetCall` |
| `SinkRetryProofs!SpecAcknowledgedHolds` | `Spec => []AcknowledgedHolds` |
| `SinkRetryProofs!SpecTypeOK` | `Spec => []TypeOK`: the loop returns from within |
| `CrawlProofs!SpecCompleteListsWhatStood` | `Spec => []CompleteListsWhatStood` |
| `CrawlProofs!SpecSweepIsExcused` | `Spec => []SweepIsExcused` |
| `CrawlProofs!SpecCrawlTypeOK` | `Spec => []TypeOK` |
| `ScriptPoolProofs!SpecOneGoroutine` | `Spec => []OneGoroutinePerRuntime` |
| `ScriptPoolProofs!SpecPoolTypeOK` | `Spec => []TypeOK` |
| `ScriptPoolProofs!SpecDeadlineStopsOneCall` | `Spec => []DeadlineStopsOneCall` |
| `HarvestProofs!SpecEventsAsPromised` | `Spec => EventsAsPromised`: `Harvest` implements `EventLog` |
| `FieldMapProofs!SpecFieldMapTypeOK` | `Spec => []TypeOK` |
| `FieldMapProofs!SpecHashTellsBody` | `Spec => []HashTellsBody` |
| `FieldMapProofs!SpecPanicNeedsOwnSection` | `Spec => []PanicNeedsOwnSection` |
| `RecordProofs!SpecRecordIsIdeal` | `Spec => []RecordIsIdeal`: with any number of the seven pointers configured |
| `ServiceProofs!SpecTypeOK` | `Spec => []TypeOK` |
| `ServiceProofs!SpecMutexHeldByWorker` | `Spec => []MutexHeldByWorker` |
| `ServiceProofs!SpecLedgerHasOneOwner` | `Spec => []LedgerHasOneOwner` |
| `ServiceProofs!SpecSyncTellsTheTruth` | `Spec => []SyncTellsTheTruth` |
| `IdentityProofs!SpecIdentityTypeOK` | `Spec => []TypeOK`: the UNIQUE index included |
| `IdentityProofs!SpecRecordHasRow` | `Spec => []RecordHasRow` |
| `IdentityProofs!SpecLateEventsAside` | `Spec => LateEventsAside`, an action property |

`Harvest`'s rest on four inductive invariants, stated part by part in
`HarvestInvariants`; each was checked by TLC on small instances, with and
without handlers, before it was proved.

`Discipline` (`SpecDiscipline`). The types are not inductive alone: that the row
`Save` writes is a row needs that a worker about to save has a content in hand.
`Discipline` adds what each program point has in hand, which tasks the main
goroutine can be in under which command, that `ReconcileTarget`'s goroutines
live within their task, and who holds the mutex where. Mutual exclusion
follows: a handler that has a resource holds the mutex; so does the crawl;
`retry` and `prune` hold none, but run in commands without handlers.

`MirrorInv` (`SpecMirror`). That the ledger is true after `Save` needs that the
row the worker read is still the row, and that the target has what it put. For
each resource that is not suspect `Agrees` says: row and record agree or a
goroutine is between the two halves of a write; a worker past its `Get` knows
the row and no `ReconcileTarget` goroutine is between its halves meanwhile; what
was put is what is about to be saved. Mutual exclusion keeps the second worker
away. `PutIsNews` (a worker before a PUT has found the row to differ) gives
`UnchangedNotRewritten`.

`SweepInv` (`SpecSweep`). A sweep is earned because misses never run ahead of
absences: `ListedIsSeen` (what the crawl listed is still in its hands or marked
in its row), `MissesAreAbsences` (a row, and a snapshot `ReconcileTarget` will
save back, counts no more misses than there were complete crawls without it)
and `SweptIsAbsent` (what the sweep has in hand was absent `Threshold` times).
A resource of which a failure row was lost is exempt until the main goroutine
saves a row for it again.

`RemapInv` (`SpecRemap`). While a remap reconciles and nothing has failed
(`Applying`), it is alone: other goroutines that write belong to the daemon, and
the tasks of one command follow each other (`ApplyingAlone`). So the snapshot a
`ReconcileTarget` goroutine took is still the row (`SnapshotIsRow`), and an active
row that is not suspect is with a goroutine or has its record in the catalog, and
a goroutine about to save has put, or found, the record it saves (`Remapped`). A
failure ends `Applying`, which is why the cancelled context is part of it.

`SinkRetry`: `Accounted` says an answer that counts as success was given by an
execution within the call, because no attempt leaves its answer to the next;
with it each step is one of `TargetCall` or a stutter. `Alone` adds what the only
caller knows between its newest execution and its next call; it stays true over
repeated attempts because executing a request twice is executing it once
(`EffectIdempotent`).

`Crawl`: `Paged` says what stood before the cursor is marked or in the page.
Additions move positions only up (`PositionGrows`), removals excuse. Links
that lead back only make the cursor smaller. Misses never run ahead of excuses
(`MissesAreExcused`), since a row that is not marked after a complete crawl
stands for an item that may have been overlooked, or the crawl was cancelled, and
then the sweep does not count.

`ScriptPool`: `OneGoroutinePerRuntime` is inductive with the types; those need
`Held`, that an armed timer's goroutine still has its runtime.
`DeadlineStopsOneCall` counts per runtime, and `DeadlinesCounted` is what makes it
inductive: every deadline that went by is a call stopped, a callback that has yet
to run, or a flag that may still stop a call. A flag that stopped one may not
(`Spent`), because its goroutine has the runtime and clears the flag before it
gives it back: here `OneGoroutinePerRuntime` is needed.

`EventLog`: each step of `Harvest` is a step of the log or a stutter. The steps
within `serving` are stutters because they stay among the program points `InLog`
maps to it (`InLogServing`); a worker that falls idle is a `Forget`; that no
other goroutine is serving when one takes the mutex is `LockDiscipline`, from
`SpecDiscipline`.

`FieldMap`: all that its properties say of a document they say by `Walk`, and
every step writes by `SetPointer` or `DeletePointer`, recursive functions along a
path. So the proof begins with induction over the length of a path. The library's
induction theorems take an operator and cannot be instantiated; `Induction` states
the principle of a set of numbers instead, and follows from the library's
`WFMin`. Upon it rest, for heaps of any size:

- `HeapOK`: nothing dangles, nothing is missing, and an object is only referred to
  under the name it was made at, unless an expression took it (`Mounted`). This
  makes the record's own section recognisable: the object under `hronir` is found
  under no other name but for `OwnIsShown` (`OwnAlone`), so that writing the hashes
  into it changes nothing that was hashed (`SetHashesOK`);
- `Separate`: unless a literal is written to, no goroutine's object refers to
  another's, so the steps of the others leave what was hashed alone
  (`OthersKept`); if one is, two calls at once are `overlapped`;
- `Rooted`: without a field for `/properties`, a record keeps the objects that
  `NewRecord` put on the way to its own section; and its associations are no nil
  map once their own field is applied, which the order of the pointers puts before
  the field below them (`FirstOf`).

The walk of `Visible` in `HashTellsBody` includes `recordHash` below every pointer:
without it the property could not have told that a hash shows in a second place,
which the attempt to prove it brought out (`OwnIsShown` with an expression for a
part of the input). TLC checked the invariants on the run's instance first.

`RecordIsIdeal` compares what a call leaves after any number of turns with `Ideal`,
which has no heap and no order. `RecordInv` says it of every moment of a call that
nothing disturbs, with `Ideal` of the pointers applied so far (`Done`); it, too, was
checked by TLC on the run's instance first:

- *of a settled path, the record says the ideal* (`Ideally`). Settled are the paths
  no pointer to come may replace: `InOrder`, the sorting by length and name, puts
  the pointers that lead to a path before it. A field's turn is then the same turn
  on both sides: below its pointer both say what is below its value
  (`FieldView`), above it both say an object, and elsewhere `SetPointer` and
  `DeletePointer` leave what the walk finds (`SetPointerView`, `DeletePointerView`),
  for where a field writes, no other path leads (`OneObject`, from `Mounted`).
- *the input is as it was made* (`Pristine`), but for an object of it that a field
  took, and that a field below has been set in: without `WritesIntoInput` no
  other expression reads that one.
- *a literal has its label and the entries other fields put there* (`LiteralOK`),
  whatever earlier calls left in it: without `LeavesBehind` these are at paths
  that have a field of their own, which decides them in this record too.
- *a field that puts the associations of the input into themselves* makes the
  record circular. What is below that field is not settled, and need not be:
  `Put` writes JSON, and `Marshals` refuses such a record (`CircularRefused`).

`Service`: `Inv` says of every process that its mutexes are held by who works
(`MutexHeld`), that a process without a database has done nothing yet and no
goroutine of a crawl outlives its `Sync` (`Shape`), and that whatever `Sync` was
asked for is crawled, left, or in a source that failed, and the failure of a
source that is done has cancelled the group (`SyncShape`); and that exactly the
program points between `Flock` and `LOCK_UN` own the lock (`OwnerHasLock`).

`Identity`: that no two rows have one URL is inductive because each URL a row gets
is compared with all the others first (`Clashes`); what is compared, and what the
events and the items in hand say, must be URLs of the source, so these types are
part of it. `RecordHasRow` needs it: a refused row is the only one whose record
was written under another URL. `MissesBelow` says that a live row has fewer misses
than the threshold: a row the sweep passes over keeps its record. That what is
left of the kinds is a suffix of them is proved on sequences (`SuffixTail`).

The assumptions are those on the constants (the modules' ASSUMEs):
`Loop` is no handler, `None` is nobody and nothing, the mapping and the subjects
are total functions, the threshold is positive, `End` is beyond all items, disabled
and filtered kinds are kinds of sources, nobody is no process, what stands for no
URL is none, the list of kinds and the landing pages are made of kinds and links.

Only model-checked: liveness under fairness, which is out of this prover's reach.

## Plan

What could be added, in this order:

1. `MarkSweep`: run ids and miss counts unbounded, as the abstract promise of
   the sweep; `Ledger`'s flag and saturated counter as its refinement.
2. The pipe functions and the splitting of pipelines, and the defaults and
   validation of the rest of the configuration, as operators against reference
   definitions over bounded inputs.
3. A configuration that changes between two starts: events of kinds that were
   disabled, sources that were removed.

## Not modelled

- The catalog bundle, TLS and OAuth2 set-up and the metrics keep no state the
  rest depends on.
- Defaults and validation of the configuration beyond the mapping: sequential
  checks of one file, whose results are constants here.
- The parser of pipelines, and pipe functions other than `default`: functions of
  their arguments; `Broken` stands for all that fail.
- `Discover` in `/asyncapi`, `Parse`, the type filter and the origin check of
  events: they only decide which messages there are, and the models admit any.
- The data fields of `Normalize`, times and external ids: contents of a record,
  which are members of a set here.
- Hashes are taken as injective, and the target as one that does not edit a
  record while keeping the hash within it.
- `config`, `catalog`, `mapping test`, `failures list` and `doctor` change
  nothing.
