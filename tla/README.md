# go-metrics: specifications, model checks and proofs

This directory describes the behaviour of the go-metrics agent and server in
TLA+. The specifications are written from the Go code, TLC checks them on small
instances, and TLAPS proves the theorems for every value of the constants.
`PROJECT.json` lists the runs, the code lines behind each definition, the
mutants that show that each property can fail, the hazards and the findings.

## The system

| Part | Code | State | Operations | Modules |
|---|---|---|---|---|
| Agent pipeline | `internal/app/agent.go`, `cmd/agent/main.go` | three channels of 100 batches, two contexts, one batch in the hand of each goroutine | poll, transfer, submit, send, and the shutdown with its 3, 3, 5 and 10 s timers | `AgentPipeline`, `BatchFlow` |
| Batch delivery | `agent.go` (`SendMetricsBatch`), `internal/utils/retry.go` | attempt, elapsed time, the shared request body | attempt, classify the error, wait, give up | `BatchDelivery` |
| Store and handlers | `internal/storage/memstorage.go`, `internal/server/handlers.go`, `router.go` | two maps under one RWMutex | update one or a batch, read one or all | `MetricsServer`, `AtomicStore` |
| Storage manager, server main | `internal/server/storage_manager.go`, `cmd/server/main.go` | the file, the periodic goroutine, where main stands | load, periodic save, drain, stop, final save, exit | `MetricsServer` |
| Database storage | `internal/storage/database.go` | the table `metrics`, a pool of connections | the same interface with retries, contexts and transactions; close of the pool | `DatabaseStorage`, `AtomicTable` |
| Configuration | `internal/config`, `internal/app/agent_config.go` | none | merge of flags, environment and JSON file, checks | `Configuration` |
| Envelope | `internal/crypto`, `internal/middleware`, `internal/utils/hash.go` | none | hash, gzip, RSA in blocks, and back; merging of duplicates | `Envelope` |
| The two programs together | all of the above | settings, one batch under way, the store | start, send, decrypt, decompress, verify, merge, apply | `Deployment` |
| Logging, keygen, migrate, staticlint | | | not part of the behaviour modelled here | |

The agent's collectors put batches into a channel, a transfer goroutine moves
them to the sender's channel, a submitter turns them into tasks, and workers
post them to `/updates/`. The server takes off encryption and compression,
checks the hashes, merges duplicates and applies the batch to its storage: a map
under one lock, saved to a file at every tick and once more on shutdown, or a
table in one transaction.

What is hard: a shutdown that closes channels other goroutines still use, timers
that race the waits they bound, a retry of a request the other side may already
have handled, row locks taken in the random order of a map, a save that runs
beside handlers and beside another save, a kill between truncating the file and
writing it, and settings of two programs that must fit. Every such place is
listed with its line under `hazards`.

## Modules

**`BatchFlow`** is the abstract pipeline: one bounded first-in first-out line
between collectors and workers. `InOrder` and `TriedOnce` are what it promises.

**`AgentPipeline`** is the code: one action per communication of each goroutine,
one per wait and per timer of the shutdown. A batch is the collector it comes
from and its number. Go's rules are kept: a select takes any ready case, a send
on a closed channel panics, a receive from a closed drained channel yields nil
(a nil task, which panics when called). `stage` is the position of the shutdown
goroutine, `cancelled` and `closed` the contexts and channels, `fired` the
timers that have expired. The transfer goroutine's `ctx.Done()` case is absent
because main cancels that context only after `Run` has returned. The module
instantiates `BatchFlow` with the concatenation of the channels and of what the
goroutines between them hold (`InFlight`).

**`BatchDelivery`** is one call of `SendMetricsBatch`, the network and the
server's handling of it. An error is what `IsRetriableError` looks at: whether a
`net.Error` is in the chain, whether that is a timeout, whether the text matches.
The body of the one `http.Request` is a reader: what an attempt has read is gone
for the next one, which fails on a new connection (`WriteNothing`). But
`http.NewRequest` on a `bytes.Reader` sets `GetBody`. An attempt that gets a
connection used before, an idle one of another worker or of an earlier dial that
came late, and finds that it can write nothing to it, has its body rewound by
net/http (`Rewind`) and sends the whole batch. The server may handle what it has
received at any later time; `applied` counts for each attempt.

**`AtomicStore`** is the abstract server: every access of a request, every copy
that is saved and every load happens at one moment.

**`MetricsServer`** is the server with a file: the handlers as they take and
release the store's lock, the periodic and the final `SaveToFile` step by step
(copy both maps under the read lock, create, encode), and main from loading to
exit. A counter is the set of requests added to it, a gauge the request that set
it last; the sums and the texts are abstracted. `broken` metrics of a batch have
a nil value or an unknown type; a gauge of the plain update handler may be NaN
or infinite (`finite`), which `strconv.ParseFloat` takes and `encoding/json` does
not write (`Encodable`). `Kill` may strike at every step; it leaves the
file, torn if a save had created but not written it. `pc` is where a request's
handler stands; `locked` and `copying` are the two states in which the lock is
held across steps. The history variables record what clients were told
(`promised`, `known`) and what excuses a loss (`lost`, `blank`). The refinement
to `AtomicStore` maps the store to the maps completed by the batch that holds
the lock (`AtOnce`), and a copy in the making to the copy it will be (`Copies`).

**`DatabaseStorage`** is the same server with PostgreSQL behind it. Each storage
call runs in the loop of `Retry` under its context; `pc` and `attempt` say where
it stands, `held` which rows its transaction has locked, `todo` which statements
are left, in one of the orders the handler's map may yield. PostgreSQL is
external: row locks, one abort per cycle of waits, all writes visible at the
commit, and a connection that may break before a commit or before its answer.
An attempt whose client gives up, because its connection breaks, its context
expires or the process ends, does not end there: `late` is what PostgreSQL still
has of it, the rows it has locked, the row its statement waits for, and whether
what is under way commits it. `LateCommit` makes that commit, as soon as the lock
is free, and `LateEnds` rolls back; until then other transactions wait for it. A
statement of a batch that is executed late changes nothing but the locks of a
transaction that is rolled back, so it is left out.
Errors are classified as `IsRetriableError` does. A row holds how often each
request was applied to it, so a delta that counts twice shows. Main drains for
thirty seconds and then closes the pool, which waits for its connections.

**`AtomicTable`** is what that storage promises the handlers: a call changes all
its rows at one moment, in a try that waits for the answer, or once for a try that
was given up undecided (`StoreLate`), which may come after the retry or after the
answer to the client; nothing else changes a row after the answer, and a query
sees the table of one moment. `DatabaseStorage` implements it: the attempts of a
call are one stage, the commit is the moment (`Stage`, `Progress`), and the tries
left behind are those whose commit is under way (`Pending`).

**`Configuration`** has the merge of each setting as operators of the sources,
with the exceptions the code makes, and the checks that stop a program.
**`Envelope`** has the operators a batch goes through: the hash of a metric,
encryption in blocks, merging of duplicates with the width of an int64.
**`Deployment`** composes them: an agent and a server start with what their
sources give, or end at once if a check refuses them or the database is not
reached or migrated (`StartServer`); the agent sends batches of any length around the block size, other
clients post batches with duplicates, nil amounts and unknown types, and the two
middlewares, `UpdatesHandler` and the `UpdateBatch` of the chosen storage take
them. One batch is under way at a time: overlaps are the subject of the modules
above.

`MC...` modules hold the instances; `...Proofs` modules the theorems.

## Runs

| Run | Question | Answer |
|---|---|---|
| `agent_safety` | Does the pipeline implement the line, in what order does shutdown stop things, which panics are possible and why, how far are batches overtaken, and does the ten-second timer end an agent whose server never answers? | holds |
| `agent_fair` | Do batches reach workers, does a signal end the agent, without timers? | holds |
| `agent_remaining_metrics` | Are remaining metrics sent before exit (README)? | violated |
| `agent_ends_normally` | Does a signalled agent end without a panic (README)? | violated |
| `delivery` | When may a batch be applied twice, does nil mean applied, does nothing begin after the deadline, does the retry loop run down, does a call return? | holds |
| `delivery_refused_is_retried` | Is a refused connection retried (README)? | violated |
| `server_safety` | Do acknowledged updates survive orderly exits and restarts, is the file free of half batches, are the counters in answers fresh, is the store atomic? | holds |
| `server_fair` | Does a signal end the server, does an acknowledged update reach the file, if the gauges come to be numbers? | holds |
| `database` | Are batches whole, when may a delta count twice or a call deadlock, do answers tell the truth, is the table atomic though a commit may come late, do the steps of a handler run out, does every call and the server end? | holds |
| `database_signal_ends_the_server` | Does a signal end the server though PostgreSQL hangs (README)? | violated |
| `deployment` | Do settings follow their order, do batches get through exactly when the settings fit, are accepted batches summed? | holds |
| `deployment_flags_come_first` | Does a flag always come first (README)? | violated |

### Bounds

* Agent: two collectors, as in the code; two workers; channels of capacity one,
  so full, empty and in-between all occur with three batches per collector (two
  for liveness without timers). `MaxBatches` bounds the polls. `Timers` selects
  the timers that may expire; where they may, they expire at any moment their
  order allows, so real seconds do not matter.
* Delivery (378 thousand states): no bound is scaled: four attempts, delays of 1, 3 and 5 s, 10 s per
  attempt, 30 s in all. A name server's timeout may take any whole second up to
  ten; a client timeout takes ten. Each attempt may meet one used connection, since
  after that a further one changes nothing. Calls are independent of each other, so one
  is enough.
* Server with a file (1.31 million states): two requests of any kind, one gauge
  and one counter (a batch names both), two starts of the process (`MaxBoots`).
  Two requests suffice for one to observe, overwrite or overtake another; a
  second start is what a kill needs to matter. Ticks are not bounded. Requests
  are interchangeable (symmetry, in the run without liveness only). The liveness
  run has one start, no kill and no failing disk: after a kill nothing is
  promised. Its premise, that the gauges in memory come to be numbers and stay so
  (`<>[]Encodable(mem)`), is met by all behaviours without a NaN, and by those
  where one is overwritten, which the run has as well.
* Server with a database (496 thousand states): two requests of any kind, one
  gauge and one counter, so that two batches can take the rows in opposite
  orders; two attempts per call, so that a retry and its exhaustion both occur
  (`MaxAttempts`, four in the code). A batch names both metrics (`Batches`), as
  one of a single metric is an update of one row for PostgreSQL. Every fault may strike at every step.
* Deployment (219 thousand states): some five hundred pairs of settings, varying
  the sources of one setting at a time (a `RESTORE` that is no boolean among
  them), and the keys and addresses of both sides together; two batches in a row (`MaxSent`); compressed batches of up to five
  bytes (`MaxBytes`) on blocks of two, so one block, a whole number of blocks and
  an unfinished one; integers of three bits, so that two deltas can overflow;
  clients' batches of up to two metrics of any kind, or of three counters.

### Fairness

* `FairSpec` of the agent: every goroutine that can run does, and a worker's
  request returns (every call is bounded, as `delivery` shows). `HungSpec` keeps
  nothing but the shutdown's goroutine, main and the timers.
* `FairSpec` of the delivery: only the calling goroutine and its timers.
* `FairSpec` of the file server: main, the save goroutine and timers; of the
  handlers only the batch that holds the lock, since a handler may wait for its
  client. Strong fairness for the save goroutine's exit: its select picks a ready
  case at random, so an always-ready tick cannot hide the cancelled context for
  ever.
* `HungSpec` of the database server: main, and the contexts' timers, which are
  Go's own; PostgreSQL need not answer anything. `FairSpec` adds that the queries
  of the index page, which no timer ends, are answered: this is exactly what
  `SignalEndsTheServer` needs.

## What the checks found

Each of these is a run that ends in a counterexample to what the README says:

1. **Remaining metrics are not sent.** `MetricsSender.Stop` cancels the workers'
   context before anything is drained; a worker's select may take `ctx.Done()`
   with tasks waiting. Batches in `tasks`, with the submitter and in `sendCh`
   are left behind even when no timer expires.
2. **A graceful shutdown can panic.** The submitter belongs to no WaitGroup;
   `WorkerPool.Stop` closes `tasks` while it may be sending.
3. **Refused connections are not retried.** `url.Error` is a `net.Error`, so the
   list of texts in `IsRetriableError` is never reached for HTTP.
4. **A signal need not end the server.** `GetAllGauges` and `GetAllCounters`
   query under `context.Background()`. If PostgreSQL does not answer, the drain
   gives up after thirty seconds, but the close of the pool waits for that
   connection without a timer.
5. **Flags do not always come first.** `KEY` and `RATE_LIMIT` overwrite their
   flags, the server's `-r` is never looked at, and a flag that repeats the
   default counts as not given. `LayersAreRespected` states the order that holds.

What the models say besides, where no property of a run is violated:

* A batch refused by the in-memory store may be applied in part, in the random
  order of a map, though `storage.go:40` and `memstorage.go:165` speak of one
  operation; PostgreSQL rolls back. `AtomicStore` therefore has `WritePart`.
* A database error that `UpdateGauge` or `UpdateCounter` meets is only logged:
  the update is answered 200 and lost (`OnlyErrorsAreSwallowed` says that this is
  the only way). A failed query leaves a page incomplete, answered 200 as well.
* A commit whose answer is lost is retried, and the delta counts twice; no other
  retry repeats anything (`RepeatedOnlyAfterALostAnswer`). The commit may be made
  after the connection or the context has ended: also after the retry was stored,
  and after the client was answered 500, or 200 for a single update.
* Only batches that take rows in opposite orders, as the handler's map makes
  them do, can deadlock; PostgreSQL's error for that is not retriable. Neither
  are "too many connections" as a `PgError` and a reset connection, which the
  README lists as retriable.
* The retry of a POST after an answer timeout fails on a new connection, because
  the body has been read. On a connection used before, net/http may rewind the
  body, and the whole batch is sent and applied again: a counter may count twice
  in this way, and only in this way (`RepeatedOnlyIfRewound`). A nil result says
  that what the last attempt sent was applied, not that nothing else was.
* A gauge of NaN or infinity is answered 200, and every save fails after it until
  the gauge is overwritten, each time with the file already emptied. If the final
  save meets it, all that was acknowledged is lost, which `NothingPromisedIsLost`
  counts as a failed save. `PromisedUpdatesReachTheFile` promises nothing while
  such a gauge stays in memory, nor when the final save met one (`lost`).
* The index page may show a batch's counters with its old gauges, never its
  gauges with its old counters.
* What is acknowledged after the final copy, which only a drain that timed out
  permits, is lost at exit.
* A nil delta after another delta of the same counter in a batch drops the
  earlier one without an error (`Dropped`). A sum that is no BIGINT is refused by
  PostgreSQL and wraps in memory. After a counter has been added, a JSON update
  may still be answered 500, when it is read back.
* `PollCount` is sent as the number of polls so far and added up by the server:
  the stored counter is the sum of all of these numbers.
* A `RESTORE` that is no boolean is passed over without a word, where a number or a
  duration that is none stops the program (`BooleanOf`).
* Any mismatch of keys refuses every batch (`DeliveredIffCompatible`), and a key
  file that does not load is a mismatch with a logged error only.

## Proofs

Everything listed here is proved for any number of collectors, workers, metrics,
requests, attempts and restarts, and any choice of faults.

* `BatchFlowProofs`: the line holds the batches between `taken` and `accepted`
  of each collector in order (`LineInv`), each worker a batch of its own
  (`SlotInv`); hence `Fifo` and `OneWorkerEach`.
* `AgentPipelineProofs`: `Typing`; then `ShutdownInv`, which ties the stage of
  shutdown to what is cancelled, closed and drained. It is needed because
  `TransferredBeforeStop` alone is not inductive: that the collector channel
  stays drained follows from its being closed, and that a worker may meet a nil
  task from the pool's timer. `TransferFirst` and `PanicCauses` follow.
* `AgentRefinementProofs`: each step of the pipeline is a step of the line or
  leaves it alone (`StepRefines`), hence `ImplementsFlow`; with the theorems about
  the line `FlowHolds`, and `OrderlyExit`. Sequences are concatenated through a
  named operator with proved laws, because the solvers do not see associativity.
  `FewAreOvertaken` needs `LatestHeld`, that some worker holds nothing of a
  collector, or something later than all that were tried: the batches overtaken
  are with the other workers, an injection into one worker less than all.
* `BatchDeliveryProofs`: `DeliveryTyping`; `OnceInv` (while the body is unread
  nothing was sent; of two attempts that have sent something the later one has
  rewound; what an attempt sent is at the server only while it is not applied)
  gives `RepeatsAreRewound` and `SuccessIsTruthful`; `TimeInv` gives
  `DeadlineKept`. `RetriesEnd`: the five places of an attempt and the attempts
  still to come give a number (`StepsLeft`) that every step of the call makes
  smaller and no step of the server larger.
* `MetricsServerProofs`: over `Typed` and `Shape` (one batch holds the lock, no
  copy is made meanwhile, and which goroutine runs at which stage of main),
  `CellInv` (a gauge has one value, and only requests that write it are in a
  metric) gives `ServerTyping`; `CopyInv` and `HalfInv` (a batch is whole
  everywhere but for the maps under its own lock) give `FilesHoldWholeBatches`;
  `PageInv` says of a page halfway that the counters it will read are already
  there, hence `PagesAreWhole`; `KeptInv` follows what was promised from the maps
  to the final copy and the file, for `PromisesAreKept`; `FreshInv` gives
  `AnswersHaveWhatWasPromised`; `OlderInv` orders the file, the copies and the
  maps while a save is under way, for `FilesNeverGoBack`. No property is
  inductive without the part of its invariant that speaks of the steps in between.
* `StoreRefinementProofs`: `StoreImplementsAtomicStore`. A batch takes effect with
  its first metric and its other metrics are stutters, a copy when its gauges are
  copied; single writes, reads, saves and loads are steps of their own.
* `DatabaseStorageProofs`: `CountInv` relates how often a row has a request to
  the answers lost and the attempts made (`RepeatsNeedALostAnswer`,
  `DatabaseTyping`); `LockInv`, that what a transaction has locked and what it has
  still to write make up its rows; `LateInv`, that a transaction without its
  client whose commit is under way holds, with the row it waits for, all rows of
  its request, none of an unknown type; `AppliedInv`, what is committed at each stage
  of a call (`BatchesAreAtomic`, `BatchAnswersAreTrue`,
  `UpdatesAreLostToErrorsOnly`); `PageInv` (`PagesAreWhole`); and `TurnInv`, that a
  transaction, its client gone or not, holds rows only up to its place in its
  order, and wants the next (`LateInTurn`). From a circle of waits under one
  common order the waiter whose row comes last in that order
  would hold an even later one: `OneOrderNeverDeadlocks`. `LockInv` and `LateInv` also
  give the refinement, `TableImplementsAtomicTable`: a transaction with nothing left to
  write holds all of its request's rows, and no metric of an unknown type has got
  it there; a commit without its client is `StoreLate`, its rollback `Forget` or a stutter;
  every other step is a retry, an answer, a query or a stutter.
  `HandlersEnd` counts down in the same way as `RetriesEnd`, over the metrics an
  attempt has still to write and the attempts to come; only an attempt that is
  counted may begin again, and a context that expires is not needed for it.
* `DeploymentProofs`: what `Deployment` computes is written with recursive
  functions (`Limit`, `Merge`, `SumOf`, the concatenation in `DecryptLargeData`).
  The provers cannot instantiate the library's induction theorems, so the module
  gets induction on the members of a set from the library's least element of a
  well-founded order (`SetInduction`), and shows of each function that it exists
  on `0..k` for every `k`, hence what its values are (`SumOfDefined`,
  `MergeDefined`, `FlattenDefined`). From there: `RoundTrip`, that blocks of any
  size put together give the text back, the last one shorter, full or alone;
  `MergeMap`, that `metricsMap` has one value for each name and type;
  `MergeSums`, that what it holds of a counter is, as an int64, the sum of the
  batch's deltas when no nil follows one; `WrapCongruent`, that wrapping at every
  addition or once at the end is the same. The invariant `IInv` adds to the
  properties that the settings stay (`SourcesOK`), that a request under way is a
  whole text of a batch, signed with the agent's key if it is the agent's, and
  past `DecryptMiddleware` encrypted only for a server that has no key
  (`RequestOK`), and that what was accepted are batches (`AcceptedOK`).
  `DeliveredIffCompatible` alone speaks of answered requests only and says nothing
  that `UpdatesHandler` could decide by. TLC checked `IInv` on the instance of
  the run `deployment`. `LayersAreRespected` follows from the merge itself, for
  any text of any setting.

The only assumptions are those on the constants, which TLC evaluates in the runs:

* `PipelineAssumption`, `DeliveryAssumption`, `ServerAssumption`,
  `DatabaseAssumption`: capacities, attempts and workers are positive numbers,
  gauges and counters have names apart. Finiteness of the workers and of the
  metrics is assumed where something is counted.
* `EnvelopeAssumption`: an int64 and a block have at least one bit and one byte.
* `DeploymentAssumption`: the JSON files hold no `KEY` and no `RATE_LIMIT`, as the
  structures they are decoded into have no such fields (`json.go:11-26`);
  a client's metric has any type, and a number or none, as it is decoded into
  `models.Metrics`; its hash is added by `ClientSends`.

Every invariant, action property and refinement of the passing runs is a
theorem. Model-checked only are the liveness properties (`ShutdownTerminates`,
`BatchesReachWorkers`, `CallReturns`, `PromisedUpdatesReachTheFile`,
`UpdatesAreAnswered`, `SignalEndsTheServer`), which need fairness and `ENABLED`
and are out of TLAPS's reach. Of the two that bound a retry loop, `CallReturns` and
`UpdatesAreAnswered`, the safety half is proved: `RetriesEnd` and `HandlersEnd` say
that only finitely many steps can be taken, and fairness is left to say that they
are.

## Not modelled

* Logging and pprof; `keygen` and `migrate`, one-shot programs; `staticlint`, a
  development tool. None touches the state of the system.
* Of the database: `GetAllMetrics`, which no handler calls, `Ping`, `GetGauge`
  and the migrations, which change nothing that another operation reads.
* `RetryWithBackoff`, called by nothing but its tests.
* Of the handlers: the texts of pages and answers, the compression of answers, and
  the `HashSHA256` header of the handlers for one metric, which is one of the
  reasons for `Refuse`. The key `ID_MType` under which `UpdatesHandler` merges
  duplicates is taken to be injective, which it is unless names hold underscores
  together with types that do not exist.
* What RSA, gzip, base64, HMAC and JSON compute: each is invertible on what it
  made and fails on anything else, HMAC is injective. What `flag` and
  `time.ParseDuration` make of malformed text.
* The pooled buffer of a compressed body (`agent.go:473`), which is given back
  when a call returns while the transport may still read it. What another worker
  would write there is below the level of `BatchDelivery`; it is in the list of
  hazards without a property. So is a signal that comes before main asks for
  signals: it is a `Kill`.

## Plan

What a next step could add: the collectors, `BatchDelivery` and a storage composed
into one specification, for `PollCount` end to end under losses and retries; the
buffer pool of the sender; the compression of answers with the middleware's
writers.
