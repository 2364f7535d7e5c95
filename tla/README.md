# CivitasOne Suite: TLA+ models of the event backbone

CivitasOne is an ERP of some seventy Node.js services, each with its own PostgreSQL
database, a gateway, a web client and a Flutter app. The services write their own tables
inside HTTP handlers and command consumers, and tell each other what happened through a
message bus. Almost all of the suite's 1.26 million lines are sequential code over one row or one
response: routes, queries, screens, reports, schemas. What is concurrent, fails in parts and
has to agree with itself is small and lies below them: the transactional outbox, the buses,
the life of their queues, the consumers' dedupe and stored results, the read-through cache,
the circuit breaker, the committee vote, the offline outbox of the app. This directory
models these. TLC checks them on small instances, and TLAPS proves every safety property of
the nine that TLC checks, for every value of the constants.

Paths below are relative to the repository (the manifest writes them with `src/` in front).

## 1. The system

```
 HTTP handler / consumer                     another service
   business tx  --+                            +-> onOutcome hooks -> command_results
   (rows + outbox)|                            |        |
                  v                            |        v
            outbox rows --relay--> publish --> queue --> poll loop --> handlers
            (packages/outbox)     (fan-out to   (SQS,     (bus.ts)      tx: markProcessed
   ^    |                          every known   RabbitMQ,                   + the write
   |    +-> invalidate the cache   subscriber)   memory)   |
   |                                                       +-> DLQ, delete, or retry
 mobile app: write_outbox --pushPending--> gateway
```

### Components

| component | code | state it keeps | operations |
|---|---|---|---|
| transactional outbox | `packages/outbox/src/index.ts` | `_outbox.events` rows (`published_at`) | `enqueue` in the business transaction, `purgeOutbox` |
| relay | same file, `relayOnce`, `startRelay` | per process: `running`, `relayBackoff` | select, publish in waves, one UPDATE, back off |
| SQS publish | `services/queue-service/src/bus.ts`, `SqsQueue.publish` | per process: `subUrlCache` with TTL, `subUrlRefresh` | resolve subscribers, fan out, forget a lost queue |
| SQS consumer | same file, `pollTopic`, `routeToDlq`, `emitOutcome` | queue copies, receive counts, visibility | receive, validate, handlers in turn, DLQ, outcome, delete |
| queue lifecycle | same file, `start`, `stop`, `getOrCreateQueue`, `getOrCreateDlq` | queues, DLQs, redrive policies; per process the url caches and loops | warm up detached, create, attach the policy, re-create a lost queue, stop |
| inbox dedupe | `packages/outbox/src/index.ts`, `markProcessed` | `_inbox.processed` | claim a key inside the handler's transaction |
| command results | `packages/outbox/src/command-result.ts` | `_inbox.command_results` | `recordCommandOutcome` (first wins), `recordCommandResult` (a success is final) |
| in-memory bus | `bus.ts`, `MemoryQueue` | per subscriber: seen ids, retry timers | publish, retry, stop |
| RabbitMQ adapter | `services/queue-service/src/adapters/rabbitmq.ts` | queues, buckets, self-stamped delivery count | declare, consume, ack, republish through a backoff bucket, reject |
| circuit breaker | `packages/circuit-breaker/src/index.ts` | state, failures, probe flag, epoch | `call` with concurrent callers |
| cache | `packages/cache/src/index.ts` | entries, invalidation epochs, loads in flight | single-flight read-through, invalidate after commit |
| committee quorum | `services/workflow-service/src/modules/quorum` | decision, votes, audits | `castVoteTx` under the row lock, `tallyQuorum`, consistent read |
| mobile write outbox | `apps/mobile/lib/core/sync` | pending, syncing, synced, dead entries | enqueue, `pushPending`, `retryDead`, purge |
| tenant router | `packages/db/src/tenant-router.ts` | LRU of silo clients | `sqlFor`, deferred close of an evicted client |
| numbering | `packages/numbering/src/allocate.ts` | one counter row per series | upsert under the row lock |
| GL posting | `services/finance-service/src/modules/gl` | journals, periods | post from source events, refuse back |
| the rest | gateway, domain CRUD, screens | rows | one request, one row |

### How they interact

- **Shared database.** `enqueue` runs in the caller's transaction; so do `markProcessed`
  and the write it protects. A row exists, and a claim exists, exactly if the rest of its
  transaction committed. The committee's vote is such a handler, with a row lock besides.
- **Messages.** A relay's publish becomes one SQS send per subscriber service, or one frame to
  a RabbitMQ fanout exchange. Every queue is read by every worker process of its service.
  Nothing is ordered; everything may be sent or received twice.
- **Callbacks.** `onOutcome` hooks run between the handlers and the delete and write
  `command_results`, which the HTTP status endpoint reads.
- **Shared process state.** All publishes of a process share one subscriber cache per topic;
  a relay cycle and the interval timer share `running` and `relayBackoff`; loads and
  invalidations of a process share the epochs; all callers of `pushPending` share `_pushing`.
- **Shared broker and store.** Processes of one service create the same queues beside one
  another; the api and the worker process of a service read and write one Redis.

### What is hard

Two relay processes with no row locks; a crash or a failed UPDATE after the sends; a cache
served stale while one refresh runs and an old "queue does not exist" arrives; a visibility
timeout that makes two workers process one copy side by side; one of several handlers failing;
the DLQ send, the hooks and the delete failing one by one in between; a warm-up still creating
queues when `stop()` comes; a broker that forgets every queue between two calls of one creation; a
connection cut between the frames of a republish and its ack; a load that began before a
commit and settles after its invalidation; two votes, one of them late, and a reader between
their statements; an app that dies with a write on the way. `PROJECT.json` lists each hazard
with its line and the property that watches it.

### What makes each component correct

- **outbox and relay**: no row is dropped that the bus did not take; an audit row is never
  dropped on a publish that reached nobody; duplicates only where a process lost the memory
  of a send; rows that are refused for ever do not starve the others.
- **publish**: success means a copy for every subscriber known and alive; an audit event
  reaches someone; a queue that stays becomes known.
- **consumer, dedupe, results**: a write is committed at most once per command whatever is
  delivered; a stored success is true and final; a copy leaves the queue only applied or
  dead-lettered; every copy leaves the queue.
- **queue lifecycle**: no queue without its redrive policy unless a fault cut its creation
  short; nothing runs after `stop()`; a lost queue comes back.
- **RabbitMQ**: no message vanishes between two frames; a bounded number of attempts; each
  message is settled while the service listens.
- **cache**: no load that began before an invalidation leaves its value behind it, and
  nobody joins such a load; whatever is missed expires.
- **quorum**: one announcement, which no vote still to come could have changed; the audit trail
  says of each vote whether it counted; a reader sees one moment.
- **mobile outbox**: a write is applied twice only for a lost answer, and ends synced or dead.
- **circuit breaker**: one probe at a time; calls of a past state change nothing.

## 2. The modules

| module | models | theorems |
|---|---|---|
| `OutboxRelay` | enqueue, relay cycles of several processes, purge | `OutboxRelayProofs` |
| `SqsFanout` | publish, the subscriber cache and its refresh | `SqsFanoutProofs` |
| `PublishContract` | abstract: what the caller of publish may rely on | refined by `SqsFanout` |
| `SqsConsumer` | poll loops, handlers with their claims, hooks, DLQ, delete | `SqsConsumerProofs` |
| `CommandContract` | abstract: what a command's sender may rely on | refined by `SqsConsumer` |
| `QueueLifecycle` | start, creation of queues call by call, re-creation, stop | `QueueLifecycleProofs` |
| `RabbitBus` | the RabbitMQ adapter with its broker | `RabbitBusProofs` |
| `CacheEpochs` | the read-through cache of a service's processes | `CacheEpochsProofs` |
| `CommitteeQuorum` | votes, their transactions, the reader | `CommitteeQuorumProofs` |
| `CommitteeBallot` | abstract: a ballot decided when it is sure | refined by `CommitteeQuorum` |
| `MobileSync` | the app's offline outbox and its push cycle | `CallerProofs` |
| `CircuitBreaker` | overlapping calls of one breaker | `CallerProofs` |
| `MC*` | instances for TLC | |

Operators commented `Fault:` are no part of the models: each is an action or helper with a
plausible slip, and `PROJECT.json` names the property that finds it out.

### OutboxRelay

One service database and the relay processes on it. `row` is the table (`absent` until the
business transaction commits, `unpublished`, `published`, `purged`). Each process has its
`phase` (`running` is the flag of `startRelay`), the timer's `due`, the batch it still has
to launch (`todo`), the publishes in flight (`wave`), and `succeededIds` (`ok`). The Map
`relayBackoff` is `delay` (0: no entry), `wait` (intervals until `nextAt`) and `before` (the
insertion order, which decides who is evicted at the cap).

`StartCycle` is the SELECT, with the rows in backoff excluded and ties of `created_at` broken
either way. `LaunchWave` starts a chunk when the last one has settled. A publish settles in
one of four ways: `PublishDelivered`, `PublishVoid` (it resolves although there is no subscriber; not
with `requireSubscribers`), `PublishRefused` and `PublishFaults` (it rejects, a copy may be
out all the same). `MarkPublished` is the one UPDATE at the end, `MarkFails` its failure.
`Crash` drops everything in memory; of the publishes in flight any number has left its copy,
and these count among what the process forgot. The bus is seen from outside here: `subscribed` says
whether a publish finds a queue; `SqsFanout` is its inside. Time is counted in relay
intervals: `Tick` fires every live timer and shrinks the waits; a cycle may outlast its
interval, which counts as a fault.

### SqsFanout and PublishContract

One topic in one process. `cold`, `known` and `left` are the cache entry, `refresh`,
`unlisted` and `found` the single listing in flight: `ListQueues` is paginated, so each
service's queue is looked for in a page of its own (`ListPage`), and queues come and go between
the pages. Each call of `publish` is a slot that is reused:
`asked` is the list of urls it got, `pending` the sends not answered, `refused` those answered
"does not exist" whose `catch` has not run yet, `sent` the copies taken. A call that gets a
stale entry goes on with it and only starts a refresh; a cold one waits. `SendFails` rejects
the whole call at once, as `Promise.all` does, and the other sends go on by themselves.
`SendRefused` and `ForgetQueue` are two steps, since the answer travels: by the time
`forgetSubscriberQueue` runs, the queue may exist again and be listed again.

`PublishContract` is what is left of this for the caller of `publish`, the relay: a publish that
resolves is over, with a copy on some queue if one was required; without an error it is turned
down only if one was required and nobody took it; a publish broken by an error may have left copies,
and may leave more after it has rejected; no service gets two copies of one publish. These are the
outcomes `OutboxRelay` gives a publish (`PublishDelivered`, `PublishVoid`, `PublishRefused`,
`PublishFaults`). `ImplementsPublish` maps the stages of a call to its `outcome` and `sent` to `took`.

### SqsConsumer and CommandContract

One queue, any number of workers. `place`, `visible`, `receives` and `grave` are the broker's
(a DLQ copy whose send failed is `dropped`); `pc`, `held`, `cur`, `next`, `clean`
(`allHandled`) and `verdict` are one poll loop; `processed`, `applied` and `result` are the
database. A handler is written as the outbox package asks: `Claim` opens the transaction
with `markProcessed`, which waits for another transaction holding the key as
`INSERT ... ON CONFLICT` does; `Commit` ends it with the write, `Throw` and `Refuse` roll it
back. An unparseable body, a body with nobody to report to, a retryable and a
non-retryable error, exhaustion, and each best-effort call that fails are all steps. The hooks
are awaited one after another (`EmitOutcome`; `told` are those past), so that a crash or the other
copy's hooks may fall between two of them.
`VisibilityExpires` may come at any time, also while the copy is being worked on.

In `CommandContract` two things happen to a command: its effect on each handler is applied,
once, and its result becomes known and, once `succeeded`, final and true. `ImplementsContract`
maps `applied` and `result` of `SqsConsumer` to it. It forbids what the stages of the loop could
get wrong together: a success stored before the writes, a late `failed` of one copy over
the `succeeded` of another, a second commit.

### QueueLifecycle

The worker processes of one service and the broker. `queue`, `dlq` and `policy` are the
broker's; `urls` and `dlqUrls` are the two caches of a process, `known` the url a poll loop
holds in a local variable, which outlives the cache entry. `at` is where the call for a topic
stands: `find` (`GetQueueUrl`), `create`, `dlq`, `attach` are the SDK calls of
`getOrCreateQueue` in turn, each a step of its own, so that processes and a broker restart
fall between them. While `mode` is `warming` the calls are those of the detached task of
`start`, one topic after another; when it is over, `GoLive` starts the loops unless `polling`
has been taken back. A failing call behaves as its `catch`: `Find` goes on to create, `Create`
gives up and waits, `Dlq` and `Attach` log and use the queue without. `torn` remembers the
queues that a fault left so. `Missing` is the branch of `isQueueMissingError`, which forgets
both urls.

### RabbitBus

One topic with several services. A copy of a message at a service is `[msg, count, stage]`:
`ready`, `parked` in the service's backoff bucket, or in the hands of the consumer, where the
stage is the frame on its way (`resend`: the republished copy, then its ack; `acked`,
`requeued`, `rejected`). `count` is the header `x-delivery-count` that the adapter has to
stamp itself. `Disconnect` returns everything unacknowledged to the queue and loses the
frames on the way; `FrameLost` loses a publish. `Resend` lets `sendToQueue` report a full
write buffer although it took the copy, which leaves two. Nothing calls `start` again after a
lost connection, so `Consume` has no fairness. `runs` and `disturbed` are the history
`AttemptsBounded` is about: a message that no fault met is tried at most `MaxRetries` times.

### CacheEpochs

The processes of one service on one store. A load is `[epoch, v, joinable, excuse]`: the epoch
captured at its start, the version it read, whether it is still in `_inflight`, and the
history that may excuse an old value. `resEpoch`, `keyEpoch` and `epochSeq` are the code's,
with the clearing of the full map. `Commit` and `Invalidate` are two steps, since services
invalidate after their transaction: until then a stale entry is owed. A `Del` that fails may
have deleted some of its keys, since the one of a resource is a scan. `StaleExplained` then
says what the epochs are for: when nothing is owed, an old value in the store was either
`missed` (a process died or its DEL failed) or written by a load of a process `elsewhere`,
whose epochs the invalidation cannot move. Never is it the work of a load of the process that
invalidated. `ClampTtl` bounds every lifetime, which is what `Heals` rests on.

### CommitteeQuorum and CommitteeBallot

One decision. `Majority`, `Unanimous` and `Threshold` are `tallyQuorum`; a transaction goes
through `Claim` (the dedupe row, which makes a second delivery wait), `Lock` (`SELECT ... FOR
UPDATE`), `Insert` and `Commit`, and may be rolled back anywhere. A command's `nth` stands for its
messageId: a second click is a second command, for the same choice or another. The branch of the
consumer for a decision that does not exist is left out because it cannot be reached: the route
reads the decision before it publishes the vote, and nothing deletes decisions. `votes` are rows
that nobody deletes; the unique index keeps one per voter. `verdict` is what the audit event says.
The reader takes the decision and the votes in two statements of one repeatable-read
transaction: `ReadDecision` takes the snapshot, `ReadVotes` uses it.

`CommitteeBallot` counts one vote at a time and announces an outcome only when it is `Sure`:
whatever the pending members vote, the approvals do, or do not, reach the number `need`.
`ImplementsBallot` maps the transactions to it, with `Needed` for the three rules. It is also
the reference the tally is checked against: a tie decided too early or too late is no ballot.

### MobileSync

The rows of `write_outbox` with the order of their creation (`older`), and `pushPending` for
several callers behind the flag `_pushing`: `Push` takes the snapshot of pending rows with
their `retry_count` (`todo`, a set: the oldest of it is the next in the list), then each
entry comes to hand and is marked syncing (`Take`; one without an endpoint too, before it is
moved to dead), sent (`Send`, where the write may be applied and the answer lost), and handled as `Synced`, `Refused`, `Invalid` or `Failed`. A cycle ends early if the token
cannot be read (`NoToken`), if the refresh callback throws (`RefreshThrows`), or if the app dies
(`AppDies`). What was in hand then stays `syncing`; no code takes it up again, so `Pushed`
excepts the entries `stranded` (see section 5).

### CircuitBreaker

One breaker. A step is what JavaScript runs without an await: the admission of a call with
the getter's lazy transition (`Admit`; a refused call or a reader of the state is `Look`),
and the handling of an outcome with the `finally` (`Succeed`, `Fail`, `Abort` for an error
that `countsAsFailure` excludes). `epoch` and `began` are the code's; `stale` is the history
they are judged by: the calls in flight while the state changed, computed from the state alone.
`wait` is what is left of the recovery window.

## 3. The runs

| run | what it asks | result |
|---|---|---|
| `relay` | two workers, an audit and a plain row, batches of one and of two, a backoff map of one entry: `PublishedWasAccepted`, `RequiredNeverVoid`, `DuplicatesExplained`, `EventuallyPublished` | holds |
| `consumer_safety` | two workers, one command sent twice, two handlers, hooks of both kinds, refusal, native redrive: `AppliedAtMostOnce`, `SucceededIsTrue`, `NothingVanishes`, `ImplementsContract` | holds |
| `consumer_progress` | a good, a poison and an unparseable copy: `EventuallySettled` | holds |
| `consumer_loses_failed` | `FailedIsKept` | violated: finding 1 |
| `fanout` | an audit and a plain publish share the cache, two services: `NobodySkipped`, `EventuallyKnown`, `ImplementsPublish` | holds |
| `lifecycle` | two processes create, lose, re-create and stop: `RedriveAttached`, `StopIsFinal`, `Recreated` | holds |
| `rabbit` | two services, retries and cut connections: `NothingVanishes`, `AttemptsBounded`, `Settles` | holds |
| `rabbit_dead_letters` | `DeadLettersAreOwn` | violated: finding 2 |
| `cache` | loads, commits, invalidations of two keys: `StaleExplained`, `JoinedIsFresh`, `Heals` | holds |
| `quorum` | late, repeated, changed and rolled-back votes, every rule: `AnnouncedOnce`, `VerdictIsTrue`, `ReadsAgree`, `EveryVoteAnswered`, `ImplementsBallot` | holds |
| `mobile` | two callers, lost answers, the app dies: `TwiceOnlyWhenLost`, `Pushed` | holds |
| `breaker` | three overlapping calls: `OneProbe`, `StaleIsIgnored`, `ClosesForGood` | holds |

Each of the nine concrete modules has one passing run that checks its `TypeOK` (`MobileTypeOK`) too. Every
property of a passing run has a mutant in `PROJECT.json`: a plausible slip in one action under
which the run fails.

### Bounds, and why they are enough

- `MaxFaults` (the app's `MaxMishaps`) counts all faults of a behaviour together. Two let one failure fall into the
  recovery of another (a crash after a failed UPDATE, a lost queue during a failed listing);
  the lifecycle and the mobile app get three, since there a creation cut short, a lost broker
  and a crash may follow one another. Where liveness is the heavier question one is enough:
  after the last fault every behaviour is a fault-free one from some reachable state.
- *relay*: two workers give every interleaving of two cycles. `relayOnce` is called
  with a batch of one or of two, cycle by cycle (`Batches`; `startRelay` passes 100). Two rows in
  one wave are neighbours before one UPDATE: either may fail beside the other's success, which
  `PublishedWasAccepted` is about. A batch of one, with a younger plain row behind an audit
  row that may be refused for ever, is the smallest case of starvation. The backoff map has
  one entry: room for the one row that can fail for ever, and a fault of the other row evicts
  it. `BackoffBase = 2`, `BackoffMax = 3` let the cap of the doubling bite.
- *consumer*: two copies of one command and two workers: side-by-side processing, and an old
  copy after a newer one. Two handlers: one succeeds, the other does not. `MaxReceive = 2`:
  one retry and then exhaustion; `receives` saturates there, as the code only compares it
  with that.
- *fan-out*: one queue lost while the other stays, both lost, and two calls with different
  views of the cache. `Ttl = 1 < Recheck = 2` is the configuration where the early recheck
  could postpone a refresh.
- *lifecycle*: two processes beside one another are all that can race for one queue. Topics
  share nothing but the order of the warm-up; two of them were checked with one fault
  (514,564 states) and hold as well, and the proofs have no bound.
- *rabbit*: one message and two services: the topics' exchanges are shared, the queues are
  not. Two attempts: one retry and the last one. Two faults: a doubled copy and a cut.
- *cache*: two keys with room for one epoch, so that the map overflows; two loads of a key at
  once (the disowned one and its successor); lifetimes asked for below, above and beyond any
  bound. One process is checked: with two, `elsewhere` excuses what the second one writes,
  which is a limit of the design (section 5), and the question left is that of
  one process.
- *quorum*: committees of two and three with two voters: a majority before everybody has
  voted, a tie, a committee that cannot complete. (A committee of one is decided by its first
  vote, as is one with a threshold of one; it was checked in a longer run and holds.) Three
  commands: a voter who repeats his vote or changes his mind, beside another. One rollback.
- *mobile*: two writes and one without an endpoint; two attempts; the count of attempts can
  outgrow `MaxPushes` only through faults.
- *breaker*: a probe, a straggler of an earlier round and a refused caller. Five faults trip it
  (two), reopen it from a probe (one) and leave two for stale outcomes.

No symmetry is used: most runs are temporal, and rows, commands and calls are told apart by
their class.

`CHECK_DEADLOCK FALSE` stands where a bounded number of inputs is consumed and then nothing is
left to do: the consumer's runs, the two of RabbitMQ, the quorum and the mobile outbox.

### Fairness

Only steps the code or the platform keeps taking are fair, and no fault is.

- *Relay*: `setInterval` keeps firing; a publish settles, since the SDK's request timeout
  bounds it; a dead worker is restarted by the process manager (`ecosystem.config.js`).
- *Consumer*: a poll loop runs until `stop`; a visibility timeout runs out on the broker;
  the native redrive, where attached, moves what it should. Sending is not fair: the property
  is about copies on the queue. `consumer_progress` runs without the native policy, the weaker
  setting.
- *Fan-out*: the clock runs, SDK calls are answered, and the topic keeps being published to.
  The last is an assumption about use, and the property says so: a topic nobody publishes to
  refreshes nothing.
- *Lifecycle*: a process that is down is started, SDK calls are answered, waits end. `stop()`
  need not come.
- *RabbitMQ*: the broker routes and delivers, handlers return, TTLs end. A consumer that has
  lost its connection is not assumed to come back, because nothing in the adapter does it.
- *Cache*: the store's clock runs, a service that has committed runs its invalidation, a load
  settles.
- *Quorum*: the queue delivers each message, and a transaction goes on. `Lock` is strongly fair:
  PostgreSQL queues the waiters of a row lock, so one is not passed over for ever, though the
  lock is taken again and again.
- *Mobile*: someone calls `pushPending` again and again, and a cycle that runs goes on. In the
  repository nobody calls it (section 5); the property is about the service as written.
- *Breaker*: the clock runs, requests keep coming, and every `fn` settles. The last is the callers'
  duty (the gateway and the adapters race their requests against a timeout); a probe that never
  settled would keep the breaker refusing.

## 4. What is proved

All theorems are about the same modules the runs check, with no bound on rows, workers,
copies, commands, handlers, hooks, services, topics, messages, attempts, processes, keys,
lifetimes, voters, committees, callers, calls or faults. They rest on the one named assumption
of each module (`RelayAssumption`, `ConsumerAssumption`, `FanoutAssumption`,
`LifecycleAssumption`, `RabbitAssumption`, `CacheAssumption`, `QuorumAssumption`,
`MobileAssumption`, `BreakerAssumption`): types of the constants, subsets, positive limits. Only
`QuorumAssumption` asks for a finite set, the voters, because the tally counts.

**OutboxRelayProofs.** `TypeCorrect` (no backoff leaves `0..BackoffMax`).
`PublishedAccepted` needs that a row in some worker's `succeededIds` was accepted, since
the UPDATE trusts that set long after the publish. `RequiredDelivered` needs the same for
delivery. `DuplicatesAreExplained` needs an exact account of where a sent row can be: a
worker may hold a row in its batch, its wave or its successes, in only one of them, and the copies it
sent are covered by its losses plus one if the row is in `ok` or already marked.

**SqsConsumerProofs.** `Base` is the shape of the state with what a worker holds at each place
of its loop. `Claims` says that a key is held by at most one open transaction, that it is not
processed while one is open, and that `applied` is 1 exactly where the key is in `processed`:
`AppliedAtMostOnce` is not inductive without the exclusion. `Ledger` adds what a worker's
place implies (`Facts`): a worker that has seen no error has all earlier handlers' writes in; past
the handlers a verdict of success means all writes are in, and any other means the copy went
to the DLQ path. From it follow `SucceededTrue`, `NoneVanishes` and `Refinement`: every step
is an `Apply`, a `Report` or a stutter of `CommandContract`. The emission step is the hard one:
it tells one hook at a time and must show that whatever the other copy of the command stored in
between, the guarded upsert and the first-wins insert only ever move the result as the contract
allows.

**SqsFanoutProofs.** `Heard` (a url whose answer is still to be handled belonged to a queue that
was lost) and `Account` (each url a call set out for has its copy, is unanswered, or lost its
queue) give `RequiredReaches` and `NobodyIsSkipped`. `Quiet` (nothing is on its way for a call that
has not begun to send, and what is on its way has not arrived) gives `Refinement`: every step is a
`Begin`, `Deliver`, `Resolve`, `Refuse` or `Break` of `PublishContract`, or a stutter. A listing that
fails is one `Break` of all the calls that waited for it. What `RequiredReaches` says is part of
that contract too, and is not checked by TLC on its own.

**QueueLifecycleProofs.** `Mode` says what a process may have in progress while it warms up,
runs or has stopped: that the warm-up's calls are only those it still owes, and that `stop()`
returned with every loop exited. `StoppedForGood` follows. `Cached` relates the two caches to
the call in progress: a topic being created has no cached url, and a DLQ url is never cached
without the queue's while a lost queue may still be found missing. Without it `RedriveAttached`
is not inductive: a process that had kept a dead DLQ's url would skip creating the DLQ and fail
to attach. `Attended` then gives each queue without a policy a worker that is about to attach
one and will find the DLQ to name in it, unless a crash or a failed call left it `torn`
(`RedriveIsAttached`). That is all that is claimed: a worker that finds the queue while another
is still at it consumes from it before the policy is there.

**RabbitBusProofs.** A message is safe while it has a copy to spare: `Alive` says that one that
reached a service and is neither handled nor in its DLQ has a copy whose ack is not yet on its
way. It holds across a retry only because the republished copy exists before the old one is
acked, and it needs `Held`: what is about to be rejected has been given up on, so its arrival in
the DLQ settles it. `NoneVanishes` follows. For `RunsBounded` the count a copy carries has to be
tied to what happened: `Single` says that a message no fault has met has exactly one copy that
is not acked, and that the count on it is the number of runs so far (one less while it waits to
be run); `Fresh`, that a message still to be routed has no copies and no runs.
`DeadLettersExplained` is what finding 2 leaves of the comment: what is in a service's DLQ was
given up on by some service, not necessarily by this one.

**CacheEpochsProofs.** Epochs only grow, by resource and then by key. `Epochs` says that a load
began in the present epoch or an earlier one, and in an earlier one if an invalidation took it
out of `_inflight`: the comparison before the store is then enough, and
`DisownedIsNeverStored` is an action property proved from it. `StaleExplained` and
`JoinedIsFresh` are not inductive each alone, since an old value in the store becomes the next
reader's and a joined load's becomes the store's; together they are. `Map` bounds what
`_keyEpochs` holds by the counter it is filled from; `TypeCorrect` adds that it never outgrows
`MAX_TRACKED_EPOCHS`, overflow and clearing included. The proof also corrected the model's
type invariant: a lifetime is clamped to at least `MinTtl` when it is set, but then runs down to 1.

**CommitteeQuorumProofs.** `Locking` is what the row lock is worth: one transaction holds it,
what that transaction read of the decision is still so, and its plan for the vote (insert,
duplicate or late) is the right one at its commit. `Counted` says that the stored outcome is the
tally of the stored votes. The lemmas are about `tallyQuorum` for any committee: a new row adds
one to one count (`CountAdd`), an open tally leaves a seat (`OpenSeat`: no rule waits for a vote
that nobody can cast), and a tally that is not open is `Sure` (`TallyIsSure`). They give the
bound on votes in `TypeCorrect`, `AnnouncedTrue`, `VerdictsTrue`, `ReadersAgree`, and
`Refinement`: a commit is one vote of `CommitteeBallot`, every other step a stutter.

**CallerProofs** holds the theorems about both components on the calling side of a service that
may fail.

The breaker: `Rounds` says what an epoch is worth: a call in flight remembers one
that is over if the state changed under it, or if the breaker is not closed and the call is
not the probe. That second half is what keeps the breaker half-open around its probe
(`ProbeIsAlone`); `PastIsIgnored` proves the action property `StaleIsIgnored`.

The mobile outbox: `OneCycle` is what `_pushing` is worth: one cycle runs, the rows of its
snapshot are still pending, each once, and the row in hand is the only one it has marked
syncing. Without it a row could be in two hands. `NotAgain` is the strengthening of
`TwiceOnlyWhenLost`: a row that may still be sent (pending, dead, or in hand without an "ok")
was applied at most as often as answers were lost; only a row answered with "ok" has its one
application to spare, and that one is synced or stays syncing for good. It gives `NotSentTwice`,
whatever overlaps and whenever the app dies, and `SyncedMeansApplied` is the safety half of
`Pushed`: a row shown as synced was applied. `MobileTypeCorrect` needs `Counted`, which pays
for each retry with a mishap.

**Only model-checked**: the liveness properties (`EventuallyPublished`, `EventuallySettled`,
`EventuallyKnown`, `Recreated`, `Settles`, `Heals`, `EveryVoteAnswered`, `Pushed`,
`ClosesForGood`), since TLAPS does not reason about fairness and `ENABLED`; and of course what
is refuted. Every invariant and every action property of a run that holds is a theorem.

## 5. Findings

Two statements of the repository that the code does not keep, with a run that gives the trace:

1. **A failing message "does NOT silently vanish"** (`services/queue-service/src/bus.ts:1196-1198`):
   when the DLQ send fails, it is deleted with only a log line left.
2. **"DLQ: a separate exchange + queue per service+topic"**
   (`services/queue-service/src/adapters/rabbitmq.ts:10`): the exchange is named after the topic
   alone and is a fanout, so what one service rejects lands in the DLQ of every service.

Observations made while modelling, which the passing runs work around or depend on:

- **Relay.** The backoff map evicts rows that still wait (`packages/outbox/src/index.ts:373`):
  with more failing rows than entries, some failing row is always eligible, against the comment
  at 333-336. At the real cap this takes more than 10 000 failing rows. A publish of a topic
  outside the required ones resolves when there is no subscriber, and the row is done
  (`bus.ts:932-943`, on purpose; `index.ts:14-15` promises delivery).
- **Outcomes.** An `onOutcome` hook's error is swallowed and the message deleted, while
  `bus.ts:1216-1218` wants the result durable first; `bus.ts:1052` wants it best effort.
- **Discovery.** "within TTL + one ListQueues round-trip" (`bus.ts:526-527`): only a publish
  refreshes, and that publish is served the stale list (`bus.ts:885`), so the first event after
  a quiet period misses a queue of any age.
- **Redrive.** `bus.ts:818` takes a queue that exists to carry its policy. A crash or a failed
  call between `CreateQueue` and `SetQueueAttributes` leaves one that never gets it: these are
  the `torn` queues `RedriveAttached` excepts.
- **RabbitMQ.** `publish` resolves without a confirm and ignores `requireSubscribers`. After a
  lost connection `healthCheck` reconnects and reports healthy, but nobody consumes again.
- **Cache.** "With no load in flight no stale writer can exist"
  (`packages/cache/src/index.ts:563-564`) is true within a process only: the worker's
  invalidation does not move the epochs of the api, whose load may store an old value after it.
  Its TTL bounds that.
- **Quorum.** A second, different vote of the same voter is not counted and is audited as a
  success, like the duplicate it is taken for.
- **Mobile.** Nothing takes up an entry left `syncing` when the app died
  (`apps/mobile/lib/core/sync/write_outbox.dart:179`), and `pushPending` has no caller in the
  app. Its doc says it stops on 401 or 429; the loop goes on to the next entry. `retryDead`
  resets whatever row has the id, dead or not (218); the model calls it for dead rows, as its doc
  says. Between two attempts of `pushWithRetry` its row is pending, so a `pushPending` beside
  it could send the write again with no answer lost: `TwiceOnlyWhenLost` and `NotSentTwice` hold
  for `pushPending` alone.

## 6. Not modelled, and why

- **Domain CRUD, routes, screens, reports, schemas** make up nearly all of the suite: each is
  sequential code over one row or one response with no protocol of its own. A model would
  restate it line by line, so the modelled lines are a small part of the suite.
- **Tenant router** (`packages/db/src/tenant-router.ts`): an LRU of clients closed after a grace
  period; one hazard (a client closed while a slow caller uses it). **Numbering**: one upsert
  under a row lock. **General ledger**: deterministic ids over the same dedupe as
  `SqsConsumer`, and a refusal sent back. **MemoryQueue**: the development driver.
- Handlers that commit the claim in one transaction and act in another
  (`services/helpdesk-service/src/modules/ml-breach/consumer.ts`): `SqsConsumer` models the
  documented form.
- Retention clocks: a row may be purged any time after it is published; the purges of
  `_inbox.processed` and `command_results` are left out, so a replay after the purge is not seen.
- Within modelled components: `getOrLoadWithNegative`, `put` and `incr` of the cache;
  `pushWithRetry` (which has no caller in the app; see section 5) and the wall-clock backoff; `healthCheck`, prefetch and the several
  buckets of RabbitMQ; `consolidateParallel` of the quorum, a pure fold.
- Envelope contents, signatures, tracing, metrics, logging: no property depends on them.

## 7. Plan

1. The composition of relay, fan-out and consumer through one topic: `PublishContract` and
   `CommandContract` are the two ends it would be stated with.
2. `TenantRouter` and `GlPosting`; the retention variant of `SqsConsumer` with the purge windows
   against DLQ redrive.
