# go-ab-service in TLA+

A verification project for the A/B testing platform of this repository: TLA+
modules translated from the Go sources, TLC configurations that check them on
small instances, and proofs that TLAPS checks for every instance. References
such as `client.go:176` are to the files under `src/`.

## 1. The system

```
 HTTP ──> central-api ──> PostgreSQL: experiments + outbox
                              │            │
              snapshot-generator       outbox-worker
                              │            │
                            MinIO     Kafka: ab_deltas
                              │            │
                              └─> client-sdk <─┘   (inside a service, e.g. example-sort-app)
                                      │
                                Kafka: ab_assignment_events ──> assignment-consumer
                                                            └─> event-consumer
```

| component | state it keeps | operations | hard because | correct when |
|---|---|---|---|---|
| **central-api** (`internal/delivery`, `platform/database/repository.go`) | the locals of each request in flight | POST, PUT, DELETE, GET `/experiments`, POST `/decide` | one goroutine per request, each of several round trips; PUT reads outside its transaction; any statement can fail | the outbox replayed in order gives every row (and of what has no row only what a DELETE overtook); deleted stays deleted; the salt is for ever |
| **PostgreSQL** (`init/postgres/init.sql`) | `experiments`, `outbox` | statements, COMMIT, row locks | READ COMMITTED | both tables change together |
| **outbox-worker** (`cmd/outbox-worker`) | the open transaction: the locked batch and how far it is published | `processEvents` every 2 s | crash between publish, DELETE and COMMIT; Kafka repeats or loses; several workers | nothing leaves the outbox unpublished; commit order per experiment; the outbox drains |
| **snapshot-generator** (`cmd/snapshot-generator`) | none (a one-shot program) | read ACTIVE rows, upload an object, publish its metadata | naming by newest version, changes between SELECT and upload | the last name is the newest content: **not so** after the newest experiment was paused or deleted (section 3), nor where `snapshot-initial.json` was put into the bucket |
| **client-sdk, configuration** (`pkg/client-sdk/client.go`) | cache, its version, the local file, the position in the topic | `NewClient`, delta consumer, `applyDelta`, `Close` | repeated, late and unordered deltas; failed commits; rebalances; restarts; a torn file | one copy per layer, never back to an older version, no delta dropped without a reason |
| **client-sdk and central-api, decisions** (`decision_logic.go`, `experiment_handler.go:68-195`) | none | `Decide` | map iteration order, list order, types of numbers, bucket arithmetic | the SDK decides as the API may; a change of one experiment moves nobody between others; buckets mean what they are documented to mean |
| **assignment events** (`trackAssignment`, assignment-consumer, event-consumer) | goroutines in flight, the writer, the offset of each group | publish, `Close`, read, print | goroutines nobody waits for; commit before or after handling | one event per assignment as long as the process runs; a reader loses at most one per fault |
| **example-sort-app** (`cmd/example-sort-app`) | none | `sortHandler` | it takes any one of the assignments from a map | its answer does not hang on the order of the map |
| **config, storage, metrics** | — | wiring | — | — |

central-api and outbox-worker meet in the table `outbox`, outbox-worker and the
SDK in the topic `ab_deltas`, snapshot-generator and the SDK in the bucket
`ab-snapshots`. Inside the SDK the consumer goroutine and the callers of
`Decide` share the cache under `rwMutex`. The list of what can go wrong, each
item at its line, is under `hazards` in `PROJECT.json`.

## 2. The modules

| module | what it is |
|---|---|
| `ExperimentTable` | abstract specification: one change of one experiment per COMMIT |
| `CentralApi` | the handlers that change an experiment and the two tables; implements `ExperimentTable` |
| `DeltaFeed` | abstract specification: what the outbox gives a subscriber |
| `OutboxRelay` | extends `CentralApi` with outbox-worker, its producer and the topic; implements `DeltaFeed` |
| `SdkClient` | the configuration side of client-sdk in a free environment |
| `Platform` | `ExperimentTable`, `DeltaFeed`, snapshot-generator and `SdkClient` composed: from the table to the cache |
| `Decision` | `POST /decide`, the SDK's `Decide` and `sortHandler` over changing tables and caches |
| `Assignments` | `trackAssignment`, the writer, `Close`, and the two readers of the events |
| `CentralApiProofs`, `OutboxRelayProofs`, `SdkClientProofs`, `PlatformProofs`, `DecisionProofs`, `AssignmentsProofs` | the proofs |
| `IndexLemmas` | the least member of a set of indices, for the proofs about lists |
| `MCCentralApi`, `MCOutboxRelay`, `MCSdkClient`, `MCPlatform`, `MCDecision`, `MCAssignments` | instances for TLC |

`CentralApi` and `OutboxRelay` are detailed where requests and workers overlap.
`Platform` is built from their abstract specifications, which the refinements
justify, and so gets as far as the cache with a state space TLC can hold.

Operators whose comment begins with `Fault:` are bugs the code does not have.
No specification uses them; each marks what a property rests on, and replacing
the definition it is derived from by it makes TLC find the property violated
(`mutants` in `PROJECT.json`).

### CentralApi

The grain is the SQL statement. A handler `h` is a record `req[h]` whose `pc`
names the last thing it did; its fields are the handler's locals.

| action | code |
|---|---|
| `CreateExperiment` | `experiment_handler.go:198-227`: id, salt, version, default status |
| `FindForUpdate`, `NewVersion` | `UpdateExperiment` 251-271: the read outside the transaction, then the version |
| `InsertRow`, `UpdateRow`, `DeleteRow` | the first statement of the transactions in `repository.go` (39, 129, 156) |
| `InsertOutboxEvent` | the second one (49, 139, 173), where `created_at` is read |
| `Commit` | `tx.Commit`; both tables change here |
| `Abort` | every error return, the deferred `Rollback`, and the death of the process |

PostgreSQL at READ COMMITTED is modelled by two rules: a statement's effect is
visible to others from COMMIT on, and an `UPDATE` or `DELETE` waits while another
open transaction has changed the row (`RowLocked`) and then sees the newest
committed row. `UpdateRow` goes on when it matched nothing, as the code does
(`repository.go:129-134` ignores `RowsAffected`); `DeleteRow` needs a row
(`repository.go:161`).

Data: a `config_version` is its rank in the order of generation (UUIDv7 of one
process is monotone), 0 for the empty string. What else a body says is told
apart by the version. `created_at` is taken as unique and increasing, which the
clock of one host nearly always gives; see section 6.

`ExperimentTable` says what is left of this when only COMMIT is looked at: a first
version (`Insert`), a new version with the same salt (`Replace`), a DELETE
(`Remove`), or an UPSERT recorded behind a DELETE of its row (`Stray`), and the
event of a `Replace` or `Remove` is the newest of its experiment. The mapping is
the identity; statements and aborts are stutters.

### OutboxRelay and DeltaFeed

| action | code |
|---|---|
| `Poll` | the `SELECT ... FOR UPDATE SKIP LOCKED` (`main.go:54-80`); `Batches` is ORDER BY and LIMIT, `Free` is SKIP LOCKED |
| `Publish` | one iteration of the loop (88-95) |
| `PublishDropped` | the same, and the broker stored nothing: `NewProducer` sets no `RequiredAcks` (`kafka_producer.go:15`), and the zero value of kafka-go's `kafka.Writer` is `RequireNone` |
| `PublishUnnoticed` | the broker stored it and the writer retries, or returns an error |
| `Rollback` | every error return, and the death of the worker |
| `Finish` | the DELETE and COMMIT (97-104) |

Every action of `CentralApi` interleaves with these (`Api`). `DeltaFeed` has
three variables (the committed changes, the feed, what was lost) and says: a
change of an experiment is delivered, first, after all earlier changes of that
experiment. Its mapping is `committed <- committed, feed <- topic,
lost <- dropped`; polling, locking, rolling back and deleting are stutters.
"Stray" changes, the UPSERTs a PUT commits behind a DELETE of its row, are
outside the promise: with no row to lock, two of them, or one and a later
change, can commit against the order of `created_at`.

### SdkClient

The environment is as free as it can be: any payload can be in the topic in any
order and number, and any snapshot can be in the bucket; whatever the other
components do is a special case. `phase` follows `NewClient`:

| action | code |
|---|---|
| `NewClient`, `FetchSnapshot`, `LoadLocal`, `LoadFails`, `Populate`, `StartConsumer` | `client.go:61-134`, `217-324` |
| `ReadMessage`, `ReadFails`, `Rebalance` | `ReadMessage` of kafka-go with a group: fetch, commit, return |
| `ApplyDelta` | `applyDelta`, 171-215, one step under `rwMutex` |
| `Close`, `Exit` | `Close`; the end or death of the process, a second `NewClient` included (`metrics.go:15-30` panics) |

The cache is a set of experiments; the bucket of `InMemoryCache` an experiment
is in is its `layer_id`. `base`, `start` and `missed` are history variables.
A DELETE event decodes to a payload with no layer and version 0.

### Platform

| action | code |
|---|---|
| `Api` | a whole request of `CentralApi`, one after the other, as a step of `ExperimentTable` |
| `DeliverFirst`, `DeliverAgain`, `Lose` | outbox-worker and its producer as steps of `DeltaFeed`: first delivery, repetition, loss |
| `Query` | snapshot-generator up to its SELECT (`main.go:50-88`): no ACTIVE rows, no snapshot |
| `Upload` | `latestVersion` becomes the name (60-95) and `PutObject` replaces an object of that name; the message on `ab_snapshots_meta` (102-115) is left out |
| `GeneratorDies` | `log.Fatalf` or a kill between the two |
| `Client(...)` | every step of `SdkClient`, over this topic and this bucket |

`SdkClient` is instantiated with `topic <- Topic` (the payloads of the feed)
and the shared `bucket`; its `Deliver` and `PutSnapshot` are replaced by the real
ones. `lastUpload` is a history variable. The bucket starts empty, as with
`docker-compose.yml`, or with `snapshot-initial.json`, which
`docker-compose.test.yml:85-86` puts there: an empty list whose name sorts after
every generated one (`InitialName`), since those begin with a hexadecimal digit.
Requests do not overlap here; that they
may, and that versions then go backwards, is the matter of `CentralApi` and
`SdkClient`.

### Decision

A Go value is a record of its type and value, and `Text` is `fmt.Sprintf("%v")`:
a float of seven digits is printed with an exponent. An attribute is of a basic
type: a string, a bool or a number, with `int64` standing for `int32` too and `uint`
for the types the SDK's `toFloat64` refuses, all unsigned ones, `int8` and `int16`.
A `float32` is named by the digits it is printed with, and `Widened` gives what
`float64()` makes of it (0.10000000149 of 0.1). `Json` is what becomes of an
attribute on its way to `POST /decide`: every number is a float64 then. `Bucket[user, id]` stands
for `xxhash(userID + salt) % 1000`, with the salt a matter of the id, which
`SaltStable` of `CentralApi` justifies. What the model takes for granted of a body
is in `BodiesAssumption`: it has been through JSON, so that its numbers are
float64, and the bounds of its ranges are `int`s of 64 bits, from -2^63 up to but
not including 2^63, with `UintSize` for 2^64.

| definition | code |
|---|---|
| `EvaluateRule`, `ToFloat64`, `CheckTargetingRules` | `decision_logic.go:50-57, 97-154` and its copy in `experiment_handler.go`; the copies differ in the types `toFloat64` takes |
| `InRange`, `Bucketed` | the loop over the variants, with the conversion of `bucket_range` to `uint64` |
| `Forced` | the loop over the map `force_include`, in any order |
| `Answers`, `EvaluateSingleExperiment`, `EvaluateExperiment` | the whole decision on one experiment, exclusion first |
| `ApiDecide` | `evaluateUserAssignments` for one layer: rows in any order |
| `SdkDecide`, `Decide` | `Decide` of `client.go:333-377`: lists in their order, overrides last |
| `SortApp` | `sortHandler` of example-sort-app: any one of the assignments |
| `Change` with `Put` | POST or PUT, and `applyDelta` in the place of the old version or at the end of the list |
| `Delete`, `Restart`, `Tick` | DELETE, a client restarted from a new snapshot (each layer's active rows, in any order), an `end_time` that passes |

Changes reach the client at once here, since `Platform` is about how they get there.

### Assignments

| action | code |
|---|---|
| `Decide` | spawns `trackAssignment`, one goroutine per assignment, also after `Close` |
| `Publish` | the goroutine marshals the event, which fails if the context of the call does not marshal (`decision_logic.go:83-88`), and enters `Writer.WriteMessages`, which refuses when closed |
| `Written`, `WrittenAndRetried`, `WriteLost` | the write reaches the broker, reaches it and is repeated, or does not |
| `Close`, `CloseReturns` | `Client.Close`: the writer waits for what is in it, not for goroutines |
| `Die` | the process ends, with `Close` or (`log.Fatal` in `example-sort-app/main.go:56`) without |
| `ReadMessage`, `CommitFails` | assignment-consumer: kafka-go commits, then returns; on an error the loop goes on |
| `ReadMessage`, `AutoCommit` | event-consumer: confluent-kafka-go commits in the background |
| `PrintMessage`, `Crash`, `Restart` | both |

The two readers are in groups of their own and know nothing of each other, so
`Init` chooses one of them. Of the context an event carries only this is modelled:
`marshals`, whether `json.Marshal` can encode it. `lost` and `skipped` are history
variables: the messages the broker has lost, and those a commit error or a crash of
the reader has passed over.

## 3. The runs

| run | question | instance | result |
|---|---|---|---|
| `central_api` | do the tables and the outbox keep their promises under concurrent requests, and implement `ExperimentTable`? | 2 experiments, 3 requests, 3 versions, 4 events, 2 salts | holds, 306 000 states |
| `version_order` | are versions chronological? | 1 experiment, 2 requests | **violated** |
| `relay_refinement` | does one worker keep the order of each experiment, leave the topic at the table, implement `DeltaFeed`, and drain the outbox? | 1 experiment, 2 requests, 3 versions, 4 events, batches of 2, 2 faults | holds, 201 000 states |
| `two_workers` | what is left with two workers? | 2 experiments, 1 request, 2 workers, 2 faults | holds, 417 000 states |
| `reliable_delivery` | is every change delivered? | 1 experiment, 1 fault | **violated** |
| `sdk` | what does a client promise against any environment? | 5 payloads of 2 experiments and 2 layers, 3 messages, 1 failed read, any number of rebalances and restarts | holds, 1 380 000 states |
| `self_healing` | does a newer snapshot heal a running client? | 2 versions, 1 message, 2 snapshots | **violated** |
| `platform` | is the cache the table, and the last snapshot the newest? | 2 experiments, 2 layers, 3 changes (2 beside `snapshot-initial.json`), 2 snapshots, restarts | holds, 1 610 000 states |
| `platform_liveness` | does every change reach a client that stays up? | 1 experiment, 2 changes, 1 repetition, 1 loss, 1 snapshot, 1 failed read | holds, 141 000 states |
| `snapshot_names` | is the last name always the newest snapshot? | 2 experiments, 3 changes, 2 snapshots | **violated** |
| `decision` | do the SDK and the API agree, over every history? | 2 experiments, 2 layers, 3 users, 10 contexts, each evaluated operator and one that is not, `UintSize` 32 | holds, 4 200 states |
| `assignments` | what becomes of an assignment event? | 2 calls, 2 events, 1 write fault, 2 read faults, either reader | holds, 194 000 states |

*Why the bounds are enough.* Every property of `CentralApi` is about one
experiment and the requests that meet on it; three requests are the least with
which an update can read, a delete commit and another update commit between its
steps, and three versions and four events let all three run to their end. In
the relay, batches of two with four events leave some behind, so a poll can
fall between two events of an experiment; two faults allow a rollback followed
by a lost or repeated write. In the SDK three messages let a version be
overtaken, repeated and followed by a deletion, and one failed read with a
rebalance lets a message be passed over and read after all; one of the payloads
is outside the client's layers. In `platform`, three changes are the least with
which the newest of two experiments is stopped between two snapshots, or an
experiment moves between layers and is deleted. Beside `snapshot-initial.json`
two are enough (`MaxChangesBesideInitial`): a client then never sees what a
generator uploads, and what is checked is that it goes on from nothing. In `decision`, requests say
something for every operator, for negative bounds, overlapping inclusion and
exclusion, an end time, and numbers of seven digits; the states are few but
each one is checked for every user and every context. In `assignments`, two
events are the least of which one can be on its way while the other is
repeated, lost, or cut off by `Close`. Deadlock is not checked: the models
stop when their bounds are used up, and an idle system is legitimate.

*Conditions of the properties.* Each was looked for by TLC: without it the
property fails, so each names something the code does not do.

- `CacheIsTable` needs a client that has applied everything (`CaughtUp`), in the
  order of versions, and whose snapshot is not older than what its group has
  already read (`SnapshotCoversStart`): deltas read before a restart from an older
  snapshot are lost. It excepts deleted and moved experiments, which a running
  client keeps: a DELETE event carries no version, and the old layer is not
  searched.
- `ReplayYieldsTable` allows the outbox ghosts beyond the table: a PUT whose `UPDATE`
  runs after a DELETE matches no row and still commits its UPSERT
  (`repository.go:129-145`), so the replay ends with an experiment the table does not
  have. No other experiment is in excess, and every row is in the replay as stored.
- `LatestByNameIsLatest` excepts an experiment that was stopped after it was the
  newest: see `snapshot_names`. With `snapshot-initial.json` in the bucket it says
  what the code does: that object is the last for ever, and every client starts from
  nothing.
- `ClientAgreesWithApi` excepts orphans of that kind, and attributes that JSON or the
  SDK's `toFloat64` makes another value of (`Distorted`): integers of seven digits or
  more, printed otherwise than their float64; unsigned and short integers, which are
  no numbers for the SDK; and a `float32` that is not exact. Each kind is in the
  contexts of `decision`, and without its exception TLC finds the two disagreeing.
- `SortAppPicksOne` excepts a user who is forced into two variants.
- `BucketsAsDocumented` excepts negative bounds: they become huge numbers, so that
  a negative lower bound admits nobody and a negative upper bound everybody above
  the lower one.
- `TopicEndsAtTable` leaves out stray events, as `PerExperimentOrder` does.
- `ReportedOnce` is about decisions whose context marshals. It allows what the broker
  lost or repeated, and says nothing once somebody closes the client or the process
  ends.
- `DecisionReachesReader` names every other end of an event: a context that does not
  marshal, a message the broker lost, one that a commit error or a crash of the reader
  passed over, and an event that was not in the writer when the client was closed, or
  not in the topic when the process ended.

*Fairness.* `OutboxRelay` assumes weak fairness of `Poll`, `Publish` and
`Finish`: the ticker fires every two seconds (`main.go:38-43`) and a
transaction that meets no error goes on. `SdkClient` and `Platform` assume it of
the steps of `NewClient` and of the consumer loop (`client.go:137-168`), whose goroutine never
waits for another, and `Platform` of the first delivery of each event, which is
what `OutboxDrains` gives. `Assignments` assumes it of each goroutine and its write,
and of a reader that is up. Nothing is assumed of requests, of MinIO, of the broker, or
that anybody starts or closes a client. Faults are bounded, which says that
failures stop in the end; without it nothing drains. (Rebalances need no bound:
they only repeat what was not committed.)

### Where the code and its documents differ

1. `version_order`: `experiment.go:52` says that the version gives the
   chronological order. `UpdateExperiment` draws it before its transaction, so
   of two concurrent PUTs the older version can commit last.
2. `reliable_delivery`: the repository's `README.md:16-17` says that every change is
   reliably delivered to Kafka. Without acknowledgements, a message the broker
   did not store is deleted from the outbox. `NothingForgotten` says what does
   hold: nothing is lost between the outbox and the producer.
3. `self_healing`: `README.md:32` says that the SDK periodically compares itself
   with MinIO. It reads MinIO once, in `NewClient`.
4. `snapshot_names`: `client.go:256` says that the order of the names is right,
   since a version is a UUIDv7. snapshot-generator names an object after the
   newest version *in* it (`main.go:95`). When that experiment is paused or deleted,
   the next snapshot has an older name, and clients go on loading the stale one.
   `LastNameIsNewest` is about generated names only; `snapshot-initial.json`, whose
   name is no version, is the matter of `LatestByNameIsLatest`.

## 4. The proofs

`CentralApiProofs` proves for every set of experiments, layers, salts and
requests, and without the bounds of the runs:

| theorem | says |
|---|---|
| `ApiInvariant` | `ApiSpec => []IInv` |
| `ApiTyping` | `TypeOK` |
| `ReplayedTable` | `ReplayYieldsTable` |
| `LifeOfRow` | `RowLivesUntilDeleted` |
| `OneDelete` | `DeletedOnce` |
| `OneSalt` | `SaltStable` |
| `ApiImplementsTable` | `TableRefinement`: the handlers implement `ExperimentTable` |

None of the four invariants is inductive: whether a COMMIT keeps them depends
on what the transaction knew when it ran its statement. `IInv` says that:

- a transaction that matched a row is the only one that does (the row lock),
  and the row is there until it ends;
- an update that matched nothing works behind a committed DELETE;
- a create's id is nobody else's, and no event of it is committed;
- the event a lock holder has staged is newer than all committed ones of its
  experiment, and a staged event's `created_at` is nobody else's;
- the salt an update carries is the one of all committed versions;
- the newest event of a stored experiment is its row (`RowMatchesNewestEvent`).

The last gives the rows of the replay. That there is nothing else in it but ghosts
(`ReplayedTable`) needs the others: an UPSERT that is the last of its experiment has
no row only if a DELETE is committed, as `RowLivesUntilDeleted` says, and that DELETE
came before it (`GhostsFollowDeletes`).

TLC checked `IInv` as an invariant of the instance of `central_api` before it
was proved. The proof has one lemma per action (`CreateExperimentStep`,
`UpdateRowStep`, ...), and for `Commit` one per part of `IInv` (`CommitTable`,
`CommitNewest`, `CommitLife`, ...). The refinement follows from `IInv` alone:
every step but COMMIT leaves both tables as they are, and what `IInv` knows of
the staged event of a COMMIT is the guard of `Insert`, `Replace`, `Stray` or
`Remove` (`CommitRecords`, `StepRefines`). The assumptions used are those of
`ConstantsAssumption`: the empty string is neither an id nor a salt, and the
bounds are numbers.

`OutboxRelayProofs` proves about the relay, for every batch size and number of
faults:

| theorem | says | workers |
|---|---|---|
| `RelayInvariant` | `Spec => []RelayInv` | any |
| `RelayTyping` | `RelayTypeOK` | any |
| `NoEventForgotten` | `NothingForgotten` | any |
| `WorkersApart` | `BatchesDisjoint` | any |
| `NoNeedlessRepetition` | `RepeatedOnlyAfterFault` | any |
| `OrderInvariant` | `Spec => []OrderInv` | one |
| `TopicInOrder` | `PerExperimentOrder` | one |
| `RelayImplementsFeed` | `Spec => FeedRefinement` | one |
| `EndInvariant` | `Spec => []EndInv` | one |
| `TopicEnd` | `TopicEndsAtTable` | one |
| `RelayImplementsTable` | `Spec => TableRefinement` | any |

A step of central-api matters here only through the event its COMMIT adds
(`ApiEffect`): its `created_at` is new, and it is the newest event of its
experiment or a stray one. That is where `IInv` is needed, and so `RelayInv`
contains it. `RelayInv` adds that what a worker's loop is done with is in the
topic or lost (`SentIsDone`), which makes `NothingForgotten` survive the DELETE,
and that without faults a pending row in the topic is in the `sent` of the worker
that holds it (`PublishedIsSent`), which keeps it from being published again.
`OrderInv` adds that a batch contains every pending event that comes before one
of its own (`BatchIsOldest`): true when it is polled, since one worker sees the
whole outbox in order, and kept because an event that commits later has no place
before an older one. From it follows that the row at hand has its turn
(`NextIsInTurn`), which is both the order of the topic and the guard of
`DeltaFeed`'s `Deliver` and `Lose`. With two workers `BatchIsOldest` fails, as
`Free` leaves out what the other one holds.

The order says nothing of repetitions: it, and `DeltaFeed`, would allow a write to
be repeated after later ones, and then the topic would end at an old version. That
it ends at the table needs `EndInv`: no pending event comes before one that has
left the outbox (`OldestLeaveFirst`) or that the open transaction is past
(`SentInOrder`), so whatever is published, again or not, is followed by every
later event of its experiment the worker is done with (`CaughtUp`). A message with
nothing after it is then the newest event of its experiment, and by `IInv` that is
its row. TLC checked the parts of `EndInv` on the instance of `relay_refinement`
first. `RelayImplementsTable` adds that the workers are invisible to the tables, so
one behaviour of the relay is one of `ExperimentTable` and of `DeltaFeed` at once:
the two specifications `Platform` composes.

`RelayAssumption` says that the batch size is positive and the bound of faults a
number.

`SdkClientProofs` proves about the client, for every set of payloads and layers,
in an environment that may deliver anything:

| theorem | says |
|---|---|
| `SdkTyping` | `SdkTypeOK` |
| `OneCopy` | `OneCopyPerLayer` |
| `VersionOfCache` | `VersionIsOfCache` |
| `NeverGoesBack` | `CacheNeverGoesBack` |
| `SdkInvariant` | `SdkSpec => []SdkInv` |
| `DeltasKept` | `DeltaKeptUnlessOvertaken` |

That `NewestIn` is a number, and a bound, needs that a finite set of payloads has a
newest member: the sets "newer than p" are well-founded under strict inclusion
(`NewestExists`). `CacheInv` then says that a snapshot holds one version of an
experiment wherever it is, and that `configVersion` is the newest in the cache, so
an applied delta is newer than all it meets (`AppliedIsNewest`). For
`DeltaKeptUnlessOvertaken` the invariant ties the reader to the group: the message
in hand is the last one committed (`HandIsLast`), and the version of the cache
comes from the snapshot or from a message at or before the committed offset
(`VersionHasOrigin`). Therefore a rebalance never goes back over it, no failed read
can turn it into a message the reader passed over, and a stale delta always has
something that overtook it. TLC checked `SdkInv` on the instance of `sdk` first.
`SdkAssumption` says that versions and bounds are numbers.

`PlatformProofs` proves about the composition, for any number of experiments,
changes, repetitions, losses and snapshots:

| theorem | says |
|---|---|
| `TableImplemented` | `Spec => Table!TableSpec`: the table's part is `ExperimentTable` |
| `FeedImplemented` | `Spec => Feed!FeedSpec`: the feed's part is `DeltaFeed` |
| `ClientImplementsSdk` | `Spec => Sdk!SdkSpec`: the client's part is `SdkClient` |
| `PlatformTyping` | `PlatformTypeOK` |
| `LatestSnapshot` | `LatestByNameIsLatest` |
| `ClientPromises` | `SdkTypeOK`, `OneCopyPerLayer`, `VersionIsOfCache` and `DeltaKeptUnlessOvertaken` of this client |
| `ClientNeverGoesBack` | `CacheNeverGoesBack` of this client |
| `CacheIsCopy` | `CacheIsTable` |

`Platform` writes its steps with the actions of its parts and guards of its own; the
first three theorems say that this makes no behaviour the parts do not have. The
client's is a matter of the world alone: the platform delivers what is a payload,
and the bucket gets no snapshot that `PutSnapshot` could not put there
(`StepIsSdkStep`). `SdkAssumption` holds of the values the platform gives
(`ClientAssumption`), so the theorems of `SdkClientProofs` are cited as they are
(`CP`), and the client's promises need no second proof.

What is new is what a snapshot and a cache have to do with the table. The
inductive invariant has four parts:

- the table (`TableInv`): versions and times of events are the numbers of the
  commits, and a row is the newest event of its experiment (`RowsInv`). Without it
  two rows with the same version could change places under a name;
- the feed (`FeedInv`): what is delivered or lost was committed;
- the bucket (`BucketInv`): whatever has been read from the table, by a generator
  that has not uploaded yet too, has all rows that are active and not newer than
  its newest version, and no older version of any row (`ReadFrom`); and an object
  with a later name than the one uploaded last, or than the one the generator is
  about to upload, is named after an experiment that was stopped (`OverAll`). This is
  about generated objects; `snapshot-initial.json` sorts after all of them, since no
  version is above the number of commits (`InitialSortsLast`), and is never replaced;
- the client (`CopyInv`): up to the version of its snapshot, the cache has what the
  table has or had (`AgreesUpTo`, `HasUpTo`). Deltas cannot break this, as an
  applied one is newer than everything in the cache.

`CacheIsCopy` then follows for rows newer than the snapshot from the feed: each was
delivered, its first delivery (`FirstDelivery`) was not passed over and not followed
by a newer version of its experiment (`RowArrived`), so the promise
`DeltaKeptUnlessOvertaken` leaves only that it is in the cache. TLC checked the
invariant on the instance of `platform` before it was proved. `PlatformAssumption`
says that the bounds are numbers.

`DecisionProofs` proves about the decisions, for every set of experiments, bodies,
layers, users and attributes:

| theorem | says |
|---|---|
| `DecisionTyping` | `DecisionTypeOK` |
| `Agreement` | `ClientAgreesWithApi` |
| `Buckets` | `BucketsAsDocumented` |
| `Stability` | `ChangesOnlyItsOwn` |
| `OneSort` | `SortAppPicksOne`, if the client asks for one layer |

The inductive invariant `DecisionInv` adds to the types that a row's id is its key
and that the lists are in step (`InStep`): of each row of its layer a list has the row
itself, if it is active, and never another version. `ClientAgreesWithApi` alone
says nothing of rows that take nobody now, and a rule can change that. `PutFacts`
says what `applyDelta` does to a list, `OrdersFacts` that any order of a layer's
active rows is a list in step, which needs that an injection between finite sets of
one size is onto. The rest of `Agreement` is that the two copies of the evaluation
agree (`SameAnswers`): where JSON does not distort an attribute it is printed alike and
both `toFloat64` make the same number of it, and a rule has no other types than those of
JSON. `Buckets`
and `Stability` do not hang on the lists' contents: the first is about the
conversion to `uint64` (`Unsigned`), the second about the first taker in a list one
member of which has changed (`PutDecides`). `OneSort` has a hypothesis that
`example-sort-app` meets (`main.go` names one layer): with two layers `Decide` may
return two assignments, and `sortHandler` takes either. The assumptions are
`DecisionAssumption` and `BodiesAssumption`.

`AssignmentsProofs` proves about the events, for every finite set of experiments,
either reader and any number of calls and faults:

| theorem | says |
|---|---|
| `AssignmentsTyping` | `AssignmentsTypeOK` |
| `ReportsOnce` | `ReportedOnce` |
| `SilentOnceClosed` | `ClosedIsSilent` |
| `PrintsOnce` | `PrintedOnce` |
| `OneLossPerFault` | `OneMessagePerFault` |

`AssignmentsTyping` says, too, that nothing of an event that did not marshal is sent.
`ReportedOnce` is made inductive by counting the events that are in the topic and
still in the writer (`ReportsCovered`): the broker's fault is counted when the write
breaks off, the repetition when the retry succeeds. `OneMessagePerFault` is proved
of the reader's place instead of the group's offset (`FaultsCovered`), since a failed
commit leaves the two apart until the next one succeeds.

Only model-checked: the liveness properties (`OutboxDrains`, `ChangeReachesClient`,
`DecisionReachesReader`), as TLAPS has no rule for `WF` and `ENABLED` here; and the
four properties the code violates, of which TLC gives the behaviour. Every
invariant and every action property of the passing runs is a theorem. Some are
theorems under a condition that the properties do not state: one worker
(`PerExperimentOrder`, `TopicEndsAtTable`, `FeedRefinement`), one layer
(`SortAppPicksOne`).

## 5. Plan

Done: all components, the abstract specifications `ExperimentTable` and `DeltaFeed`
with their refinements, the composition `Platform`, and the proofs of all safety
properties. Left:

1. An abstract specification of the reporting of assignments, with the proof that
   `Assignments` implements it.
2. `Platform` with overlapping requests, from `CentralApi` instead of
   `ExperimentTable`, as far as TLC gets.

## 6. Not modelled, and assumptions

- GET `/experiments/{id}`, `/health` and `/metrics`: they change nothing.
- The topic `ab_snapshots_meta`: snapshot-generator announces its uploads there and
  nobody reads it.
- Configuration and connection set-up: a failure ends the program before it has
  any state. The SDK's metrics: nobody reads them back.
- Clocks: `created_at` neither repeats nor goes back. UUIDv7 values are
  monotone, which `google/uuid` guarantees within a process; there is one
  central-api.
- The topics have one partition (`docker-compose.yml:39`). With more, the producer's
  `LeastBytes` balancer would spread one experiment over several.
- Kafka's retention never removes a message; a group always has a committed
  offset or begins at the first message, as kafka-go does by default.
- `Config.KafkaGroupID` is set, as in example-sort-app, and each client has a group of
  its own: of several clients in one group each gets a part of the deltas only.
- Payloads always decode: they are what central-api encoded.
- outbox-worker skips a row whose `Scan` fails (`main.go:73-75`). The columns of `outbox`
  are NOT NULL and of the types of `OutboxEvent`, so this happens only when the
  connection breaks; then the DELETE fails as well, which is `Rollback`.
- Generators do not overlap: nothing in the repository starts two.
- Attributes that JSON cannot carry to `POST /decide` at all, or not as a basic type:
  NaN, named types, composite values, and strings that are not UTF-8.
- Time and load: a consumer whose error stays reads on without a pause
  (`client.go:152`). The status `""` of a PUT without one (`experiment_handler.go:263`)
  is a status that is not ACTIVE, like any other.
- The context of an assignment event beyond whether it marshals, and with it the race between `trackAssignment`,
  which marshals the caller's attributes later, and a caller who changes them.
  An override changes the answer of `Decide` (in `Decision`) but not the event.
- A call of `Decide` sees one state of the cache (it holds the read lock) and one
  reading of the clock.
- Nine of the thirteen declared operators (`NOT_EQUALS`, `CONTAINS`, `LESS_THAN` ...,
  `experiment.go:20-41`) have no case in either `evaluateRule`. They are the `OTHER` of
  `EvaluateRule`: such a rule is never met.
