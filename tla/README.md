# A formal model of the Aliyun Log Service SDK for Go

TLA+ specifications of the parts of this SDK that keep state and run
concurrently, the TLC configurations that check them on small instances, and
theorems checked by TLAPS. Modelled are the log producer (`src/producer`); the
consumer library (`src/consumer`): the consumer of one shard with its checkpoint
tracker, and the group of consumers with their workers and heartbeats; and the
client below both (`src/*.go`): every call of the service's API through wrapper,
operation, retries and exchange, and the two ways of renewing credentials.

## 1. The system

### Components

| Part | State it keeps | Operations | Used by |
|---|---|---|---|
| **Producer: accumulator** (`producer.go`, `log_accumulator.go`, `producer_batch.go`) | map from key to open batch, bytes cached, shutdown flag | the `Send…` functions: wait for space, join or open a batch | the program's goroutines |
| **Producer: mover** (`mover.go`, `retry_queue.go`) | a heap of batches that wait for their next attempt | sends lingering batches and due retries, flushes on shutdown | one goroutine |
| **Producer: thread pool** (`io_thread_pool.go`) | list of tasks, shutdown flag | `addTask`, `popTask`, dispatch | one goroutine |
| **Producer: io worker** (`io_worker.go`, `result.go`) | `taskCount`, the slots of `maxIoWorker`, a WaitGroup | posts a batch, makes its callbacks, retries | one goroutine per batch in flight |
| **Producer: close** (`producer.go`) | four flags | `Close(ms)`, `SafeClose()` | the program |
| **Consumer: worker** (`consumer/worker.go`) | map from shard to shard consumer | main loop, clean-up, `StopAndWait` | one goroutine |
| **Consumer: shard consumer** (`shard_worker.go`, `tasks.go`) | status machine, fetched data, cursors | initialise, pull, process, shut down: one task at a time, each in its own goroutine | worker |
| **Consumer: checkpoint tracker** (`checkpoint_tracker.go`) | next, pending and saved cursors | `SaveCheckPoint`, `flushCheckPoint` | tasks, the user's processor |
| **Consumer: heartbeat** (`heart_beat.go`) | held shards, heart shards | heartbeat loop, `removeHeartShard` | one goroutine, worker, tracker |
| **Token auto-update client** (`token_auto_update_client.go`) | expiry of the token, time of the last fetch, count of failures | `fetchSTSToken`, `flushSTSToken`, `processError`, `Close`, 181 wrappers | every call of the client, one goroutine |
| **Credentials providers** (`credentials_provider.go`) | cached credentials and expiry, two atomic values | `GetCredentials` | every request |
| **Requests and retries** (`request.go`, `client_request.go`, `retry.go`) | per call: deadline, last error | `request` (retries), `Client.request` (one attempt) | API operations |
| **API operations** (`client*.go`, `log_project.go`, `log_store.go`, …) | none; the open body of a response | about 200 methods that make a request and read its answer | the program, producer, consumer |
| **Signing, data types, generated code** | none | | requests |

### How the producer works

A *call* of a `Send…` function first waits for space (`waitTime`) and reads
`shutDownFlag`, both without a lock. It then takes the accumulator's lock and
joins the open batch of its key, or opens one. A batch leaves the accumulator
when it is full (the call itself queues it), when it has lingered long enough
(the mover) or when the producer shuts down (the mover's flush). It then goes
through the thread pool's list to the dispatcher goroutine, which waits for a
slot and starts a goroutine that posts it. After an error that may be retried
the batch goes into the retry queue, from which the mover moves it back to the
thread pool. When a batch is settled each of its calls gets one callback.

`Close` and `SafeClose` set `moverShutDownFlag`, the accumulator's
`shutDownFlag` and `retryQueueShutDownFlag` one after the other, wait for the
mover, and set `threadPoolShutDownFlag`. `SafeClose` then waits for the
dispatcher and for the posting goroutines; `Close` polls two counters until
they are zero or its time is over.

What is hard here: a batch passes through containers with four different locks
and through the hands of three kinds of goroutine; the flags are read without
any lock, and acted upon later; a retry can race with the shutdown; the byte
counter is raised in one place and lowered in three.

### How a shard is consumed

A worker keeps one *shard consumer* for every shard the service assigned to it.
Each round of the worker's loop calls `consume` on every shard consumer, which
starts at most one goroutine, the *task* of its status: find the cursor to start
from, pull log groups, let the user's processor process them, or shut down.
The last thing a task does is `updateStatus`, which decides the next status from
the result and from `shutdownFlag`; an error keeps the status, so the task is
repeated. A processor that is done with its groups calls `SaveCheckPoint`, which
takes the cursor behind them as pending checkpoint; `flushCheckPoint` sends it,
at once (a forced save), when the auto-commit interval is over, or at shutdown.
The service accepts it, rejects it (another consumer owns the shard now) or does
not answer. When all is done the shard is taken out of the heartbeat, and the
service may give it to another consumer, which starts from the checkpoint.

What is hard here: the cursors move on before the data is processed; the
checkpoint is one step behind and flushed at three places; the process may die
between any two steps; an answer may be lost after the service acted on it;
shards move while a task is in flight; the shutdown waits for a task and then
needs the service.

### How shards are shared

Each consumer of a group runs a heartbeat goroutine. It reports `heartShards`, the
shards it is working on, and takes the answer as `heldShards`, the shards that
are its own from now on. Every round the worker takes a snapshot of `heldShards`,
creates the shard consumers that are missing, tells those to shut down whose shard
is not in the snapshot, and, when one is complete, has its shard removed from
`heartShards` and deletes it. The service gives a shard to another consumer when it
is no longer reported. `StopAndWait` stops the loop and the heartbeats and returns
when no shard consumer is left.

What is hard here: the report is computed from two fields without the lock and
written back later, while the worker and the tasks remove from it; a snapshot is
old when it is used; a shard may come back to a consumer that is just shutting down
its consumption of it; a complete shard consumer is deleted only if the heartbeat
still knows its shard; heartbeats and answers get lost.

### How a call reaches the service

A call of the API passes through up to four layers. The *wrapper* (only with a
`TokenAutoUpdateClient`) repeats the call, at most `maxTryTimes` times, when its error
is a 401 and `fetchSTSToken` gave it a new token. The *operation* checks and encodes its
arguments, makes its request, turns an error into the one it returns, and reads and
closes the body of an answer; a few have two requests, and the `…ToCompleted` queries
poll. The *request* either makes one attempt (`Client.request`) or repeats it until it
succeeds, fails for good or is late (`request` with `RetryWithCondition`); what may be
repeated differs for GETs and others. The *exchange* may lose the request, or its
answer after the service acted on it, or bring an answer that cannot be read.

What is hard here: each layer decides on the *type* of an error the layer below made;
an answer 5xx does not tell whether the request was carried out; about 200 methods do
the same by hand, each a little differently, and no test meets their failures.

### How credentials are renewed

The token client fetches a new token in a denied call and in the goroutine
`flushSTSToken`, which sleeps for a part of the token's time. `fetchSTSToken` holds its
lock only to skip a fetch that comes less than a second after another, to set the
back-off, and to note the expiry of the new token; the fetch itself and
`ResetAccessKeyToken` run without it. The adapter for providers has no lock: each
request reads the credentials and then their expiry, and fetches if they are due.

What is hard here: fetches overlap, and their results are applied in any order; a key
and its expiry are written apart; a failed or skipped fetch must neither end the
background refresh nor leave a caller waiting; `Close` and the shutdown channel stop
the goroutine in two different places.

## 2. The modules

| Module | Models | Correspondence |
|---|---|---|
| `ProducerState` | constants, their assumption, all variables, `TypeOK`, `Init` | one variable per field the code keeps, one program counter per goroutine; `posts` and `answered` are history variables |
| `LogAccumulator` | the `Send…` functions | `PassWaitTime`/`SleepInWaitTime`: the unlocked part; `OpenBatch`, `AddLog`, `AddLogAndSend`, `SendAndOpenBatch`: the four outcomes of the locked part |
| `Mover` | the mover and the retry queue | one action per lock it takes; `MoverSend` and `MoverResend` queue one batch |
| `IoThreadPool` | the dispatcher and `startSendTask` | `PopTask`, `PoolIdle` (flag read after the empty pop), `CountTask`, `StartGoroutine` |
| `IoWorker` | `sendToServer`, `closeSendTask` | one action per outcome of the post; the push into the retry queue and the two halves of the deferred clean-up are steps of their own |
| `ProducerClose` | `Close`, `SafeClose` | one action per flag, per wait and per read of a counter |
| `LogProducer` | the composition, fairness and all properties | `Next` is the disjunction of the parts |
| `LogDelivery` | the abstract specification: a log is refused, or accepted and settled once | `LogProducer` implements it (`ImplementsDelivery`) |
| `MCLogProducer` | values of the constants for TLC | |
| `LogProducerProofs` | types and places of batches | checked by TLAPS |
| `ProducerDeliveryProofs` | answers, sealed batches, refinement of `LogDelivery`, the byte counter | checked by TLAPS |
| `ProducerWorkerProofs` | slots, attempts, closing | checked by TLAPS |
| `ShardConsumer` | `ShardConsumerWorker`, its tasks, its `DefaultCheckPointTracker` | one variable per field; `task` is where the goroutine is, one action per call it makes that another party can see. The service, other consumers, writers and the death of the process are the actions of *The surroundings* |
| `ShardConsumption` | the abstract specification: data is processed in order, and a checkpoint is saved only behind processed data | `ShardConsumer` implements it (`ImplementsConsumption`) |
| `MCShardConsumer` | values of the constants for TLC | |
| `ShardConsumerProofs` | types, what a task finds | checked by TLAPS |
| `ShardCheckpointProofs` | no data loss, refinement of `ShardConsumption`, graceful shutdown | checked by TLAPS |
| `GroupState` | all variables of a group of consumers, `TypeOK`, `Init` | one variable per field and per local that is used after a lock was released |
| `HeartBeat` | `heartBeatRun`, `removeHeartShard` | `ReadShards`, `SetHeartShards`, `SendHeartBeat`: lines 69, 70 and 71 |
| `ConsumerWorker` | `run`, `cleanShardConsumer`, `shutDownAndWait`, `StopAndWait` | one action per visit of a shard in a round; a shard consumer is only working, shutting down or complete here |
| `ConsumerGroup` | the composition with the service, fairness, properties | the service is external |
| `MCConsumerGroup` | values of the constants for TLC | |
| `ConsumerGroupProofs` | types, quiet after `StopAndWait`, order of release | checked by TLAPS |
| `Operations` | how a method that calls the service is described: one row of nine facts | see *Abstractions of the client* |
| `ProjectOperations`, `LogStoreOperations`, `ClientOperations` | the methods of `LogProject`, `LogStore` and `Client` | one set of rows for the methods that are alike and stand together in the source |
| `ClientCalls`, `TokenCalls` | the methods of `Client` that hand on to those, the wrappers of `TokenAutoUpdateClient`, and the consumer's loop around `GetCheckpoint` | sets of names, by section of the source |
| `ServiceCall` | one call through all layers, for any row | one action per return, attempt, answer and decision of a layer |
| `MCServiceCall` | the rows as a constant: 397 calls | |
| `ServiceCallProofs` | the types and safety properties of `ServiceCall` for every table of rows | checked by TLAPS |
| `CredentialState` | the credentials of a client and the goroutines that use them | one variable per field; the service is external |
| `TokenAutoUpdate` | `fetchSTSToken`, `processError`, `flushSTSToken`, `Close` | one action per locked section and per call outside of it |
| `CredentialsProvider` | `UpdateFuncProviderAdapter.GetCredentials` with its fetcher | one action per atomic load and store |
| `ClientCredentials` | both ways of renewing credentials, fairness, properties | `way` is fixed in `Init` |
| `MCClientCredentials` | values of the constants for TLC | |
| `ClientCredentialsProofs` | types, expiry of the stored token, tokens handed out | checked by TLAPS |
| `HashBuckets` | `AdjustHash` | a function of a digest; its assumption compares it with the reference |

Abstractions of the producer. A call is a model value with a key, a number of logs and two
sizes as parameters. A batch is named by the call that opened it. Clocks are
replaced by the set `due` of batches whose linger time or back-off is over;
`TimePasses` adds to it, so any order of expiry is possible. An answer of the
server is one of success, an error that must not be retried, another error.
Atomic operations of Go and critical sections of one lock are single steps;
what lies between two of them is where other goroutines run. The mover holds
the accumulator's lock during a whole pass (`LockedByMover`), while a call
takes it within one step.

Abstractions of the shard consumer. A cursor is a position of the shard; `Data`
are the positions that hold log groups.
The service answers a pull with all groups before some later cursor. Time is left
open: `shouldFetch` and the auto-commit interval may say yes or no. The processor
is the one the documentation describes, with parameters: it processes all groups
or fails or panics, saves only after a success (`Saves`: not, lazily, by force),
may ask for data again (`Resets`), may save in its `Shutdown` (`ShutdownSaves`).
The tracker is used by the running task alone, so what happens to it between two
calls of the service is one step. `shutdownFlag` is written by the worker and read
by tasks without a lock; the outcomes are those of a write that comes earlier or
later, which the interleavings have. `CursorPosition` is the beginning or the end
of the shard; a time (`SPECIAL_TIMER_CURSOR`) is a position in between.

Abstractions of the group. The slices of shards are sets. A shard consumer is what
`ShardConsumer` shows of it: it starts to work, is told to shut down, completes, and
may have a checkpoint rejected at any time when the service does not count the shard
as its own. Time is open: a heartbeat without an answer may or may not reset
`heldShards`. The service answers with the shards that are for this consumer and that
nobody else has, takes a shard back that is not reported any more, changes its mind
`MaxMoves` times, and gives up a consumer that sends no heartbeats any more. `Nobody`
stands for no consumer or one outside the model.

Abstractions of the client. A row (`Operation`) says through which of the two request
functions a method goes, whether it is a GET, how it can end before its request, whether
it wraps an error into an `*Error`, what it does with an answer that breaks off or is not
understood, whether it closes the body, whether it polls, and what its code does with an
error (for instance touch a nil pointer). These nine facts are what tells methods apart
for the properties; paths, headers and JSON are left out. The rows describe the code as
it is: six methods that never close a body, the deprecated ones that panic after an
error, and those that some answers make panic say so. Errors are values with a type and a code. Of an answer the classes matter that
the code distinguishes: 401, "not exist", other refusals, 500/502/503, other 5xx, 200; each
can be unreadable. Whether the service has carried a request out is the set `applied`. Arguments
are the same in all tries, so checks that were passed once are passed again.

Abstractions of the credentials. A token is named by the epoch it was issued in; when
the epoch ends (`TokensExpire`) it is refused. The time differences the code computes
are open but for their order: a fetch is `recent` until `IntervalPasses`, the flush
goroutine's sleep ends at any time, a provider may refresh in advance. The user's token
function returns a token of the present epoch or fails; other denials of the service
do not occur. The history variable `pair` tells whether the stored token and the noted expiry
go together: `"kept"`, or `"mixed"` since two fetches overlapped, or `"renewing"` while a fetch
that began alone after that is under way; when it succeeds alone they are `"kept"` again.

## 3. What TLC checks

| Run | Instance | Question |
|---|---|---|
| `producer_safety` | 3 calls of size 2 and one key against a limit of 1, at most 2 per batch, 2 slots, 1 retry, one poll | no batch is lost, in two places, changed after it was sealed, answered twice or posted too often; nothing happens after `SafeClose`; the byte counter never exceeds what is cached before a close; the slot counters agree with the goroutines; the producer implements `LogDelivery` |
| `producer_live` | 2 calls of one key, size limit, 1 slot, 1 retry, unlimited waiting | liveness, below |
| `shard_any` | 2 positions with data, everything a processor and the service may do, 1 crash | types; a task that processes has groups and a cursor behind them |
| `shard_safety` | 3 positions, data at 0 and 2, saves of every kind, shards move, 1 crash | no data is lost for the group or within a consumer; the consumer implements `ShardConsumption` |
| `shard_live` | the same, the shard stays with this consumer | a shutdown saves everything; liveness, below |
| `group` | one consumer, two shards, one change of mind, any number of lost heartbeats, a stop at any moment | what is held gets consumed, what is taken gets released, in order; `StopAndWait` returns to quiet |
| `client_calls` | all 397 calls, 3 tries, 2 rounds of polling, every answer at every attempt | a nil error means it was done; bodies are closed; a write whose fate is unknown is not repeated; a 401 is retried; a call of the producer or the consumer panics only on a 200 that the API does not describe, and never for a failure, and the error of a send is an `*Error`; every call returns (285,542 states) |
| `client_token` | two callers and the flush goroutine, two epochs, either way of renewing | the expiry kept is the token's; a token that had expired when it was asked for is not handed out; calls return, tokens recover, the goroutine ends (168,355 states) |

Each of the producer's runs includes both ways of closing at any moment. They are small
but every interesting case happens in them: a batch with two calls and one that
leaves because the next does not fit, a second batch queued behind the first,
the slot taken while another is popped, a retry that meets the shutdown, the
counter above its limit, two batches of one key posted at the same time. A fourth
call, a second retry or a third slot adds repetitions of these; that a pass of the
mover may meet batches of several keys is covered by the theorems only. Every counter is bounded by the instance itself (calls
end, `Retries` bounds posts, `MaxBlockSec` bounds polls); no state constraint
is used. Symmetry over the calls is used only in runs without liveness.

The shard of `shard_safety` is written up to `LastCursor` (3), with a gap of
empty positions between data, so that fetches are empty, partial and complete,
and batches of one and of two groups exist; a crash and any number of moves to
another consumer and back can happen at any step. More data repeats the cycle
pull, process, save; a second crash finds what the first one found, for nothing
but the checkpoint survives. `shard_any` has one position less and END_CURSOR.

In `client_calls` the number of attempts is not bounded at all: a loop of attempts is a
loop of states, and the deadline is a flag. Three tries are those of the code. Two
rounds of polling show the one that goes on and the one that ends. In `client_token` two
callers make every pair of a fetch in a call with another and with the flush goroutine;
one expiry can come at any moment, in a fetch too, so that an old token is installed
after a new one. With one expiry a caller needs no more than two tries, so
`MaxTryTimes` is 2; the properties relate one expiry to the renewal after it. The assumption `HashKeepsFirstBits` compares `AdjustHash` with "the first *k* bits
of the digest" for all buckets from 1 to 256 and all digests in the digits that matter.

**Fairness of the producer.** `Fairness` assumes what the Go runtime and the HTTP client give:
a goroutine that can run eventually does (weak fairness of the mover, the
dispatcher, each posting goroutine, a call that has passed `waitTime`, a close
that has begun), an HTTP call returns (the client has a time-out; the answer may
always be an error), and time passes. `TimeIsUp` has strong fairness because
the time limit of `Close` is over at some point although the polling loop
disables the step again and again. Calling `Send` or `Close` is up to the
program and has no fairness. A call in `waitTime` is not fair either:
`SpaceComesBack` says the space is there, not that a given call wins it.

**Liveness.** Unless the producer is closed every accepted log is answered and
space comes back; a close that began returns; afterwards the dispatcher and all
posting goroutines end, even if `Close` gave up.

**Fairness of the shard consumer.** The worker's loop calls each shard consumer
again and again, and a task that was started runs (weak fairness of `Consume` and
`TaskNext`). What the code tries again for ever succeeds in the end (strong
fairness): the service answers again and again, the processor gets through, the
intervals pass. The code itself justifies no more: if the processor's `Shutdown`
fails every time, so does the shutdown. Crashes are bounded, and nobody is made to
write, to shut down or to move a shard.

**The group.** The run `group` has one consumer, for what another consumer does
reaches it only through the service, which has all its freedom here; two shards are
needed for a round that is half done. `group_removed` has two consumers.
The fairness is that of the Go runtime (the heartbeat loop, the worker's
loop, the rest of a `StopAndWait` that has begun); beyond it, a shutdown task gets
through (what `ShardConsumer` shows under its own fairness) and of the heartbeats that are
sent for ever some are answered (strong fairness of `AnswerHeartBeat`).

**Fairness of the client.** In `ServiceCall` the goroutine runs, an exchange ends (the HTTP
client has a time-out) and time passes, so that the deadline comes; nothing is assumed of
the answers. In `ClientCredentials` goroutines run and intervals pass. `TokenRecovers`
needs more, and only this property does: a token function that is called for ever
succeeds now and then, and the flush goroutine is not beaten to its fetch for ever by
calls less than a second before it (strong fairness of `TokenUpdated` and of
`FetchStart(Flush)`; when a call beats it, that call fetches the token).

### Disagreements between code and documentation

Four runs expect a violation; each ends in a trace of the code as it is.

| Run | What happens |
|---|---|
| `safe_close` | a call that read `shutDownFlag` in time adds its log after the mover's last flush: `SafeClose` returns and the log stays for ever. A worker that read `retryQueueShutDownFlag` in time can do the same to the retry queue, and the mover to the thread pool whose dispatcher has just found nothing |
| `shard_reset` | a processor saves lazily and later resets the consumer to an earlier cursor. The saved checkpoint is still pending in the tracker when the consumer has gone back, and the next flush sends it; TLC's trace has a graceful shutdown right after the reset. The next consumer starts behind the data that was to be consumed again. Other consumers, crashes and forced saves are switched off in this run: none of them is needed |
| `group_removed` | a shard is removed from `heartShards` between lines 69 and 70 of `heart_beat.go`; line 70 writes it back. No shard consumer is left that would have it removed again, so the consumer reports a shard that it does not consume, and the service gives it to nobody else, until the process ends |
| `client_denied` | a call is denied while another goroutine, in the trace the flush goroutine, fetches a token and installs it; the call, less than a second later, has its fetch skipped (`errSTSFetchHighFrequency`), takes this for a failure, and returns the 401 although the new token is there |

They contradict `src/producer/README.md:73`, the log lines at
`src/consumer/shard_worker.go:99` and `src/consumer/worker.go:162`,
`src/consumer/README.md:15` and `src/client_interface.go:54`.

Four more disagreements are excluded by conditions of properties, assumptions of theorems or rows
of the tables, and have no run:

* The log that opens a batch is not counted in `producerLogGroupSize`
  (`log_accumulator.go:75`), so the limit of `src/producer/README.md:115` can be exceeded;
  `NoFalseShortage` states the other direction.
* With END_CURSOR a consumer that dies before its first checkpoint skips what was written
  meanwhile (`src/consumer/config.go:20`); and a rejected checkpoint counts as saved, so
  a shutdown after the shard came back does not send it (`src/consumer/README.md:9`).
* Six methods do not close the body of a response, which the comment at
  `src/request.go:149` asks for.
* Overlapping fetches can leave an older token with the expiry of a newer one
  (`PairKept`, `HandsOutCurrent` except them); the next denied call, or the flush, repairs it.

`src/consumer/README.md:12` also says that nothing is consumed twice; what the model
shows is delivery at least once, since a process may die between `Process` and the
flush of its checkpoint. `src/producer/README.md:122` says that a result keeps its
most recent attempts; the code keeps the first ones.

## 4. What is proved

Every theorem is about all behaviours of `Spec` and every value of the constants
that the module's assumption allows (`ProducerAssumption`: what
`validateProducerConfig` establishes, a finite set of calls, and that the size a call
subtracts is at most the size it added;
`ConsumerAssumption`: data lies within the shard; `GroupAssumption`: `Nobody` is no
consumer; `CallAssumption` and `OperationAssumption`: calls are made of rows, and a call
of two requests of simple ones; `SendAssumption`: the methods that send logs wrap their
errors; `MCServiceCall`'s run evaluates all three for the real table;
`CredentialAssumption`: there are epochs and tries, and the flush goroutine is no caller).

| Theorem | Says | Inductive invariant |
|---|---|---|
| `LogProducerProofs!TypeCorrect` | `[]TypeOK` | `PlaceInv` |
| `LogProducerProofs!BatchInOnePlace` | `[]OnePlace` | `PlaceInv` |
| `LogProducerProofs!AcceptedLogsAreHeld` | `[]AcceptedIsHeld` | `PlaceInv` |
| `ProducerDeliveryProofs!LogsAnsweredOnce` | `[]AnsweredOnce` | `DeliveryInv` |
| `ProducerDeliveryProofs!SealedBatches` | `SealedAfterAccumulator` | `PlaceInv` |
| `ProducerDeliveryProofs!ProducerDelivers` | `ImplementsDelivery` | `DeliveryInv` |
| `ProducerDeliveryProofs!SpaceIsReleased` | `[]NoFalseShortage` | `SpaceInv` |
| `ProducerWorkerProofs!WorkersAreBounded` | `[]WorkersBounded` | `Counted` |
| `ProducerWorkerProofs!AttemptsAreBounded` | `[]AttemptsBounded` | `AttemptsCounted` |
| `ProducerWorkerProofs!QuietAfterClose` | `QuietAfterSafeClose` | `CloseOrder`, `QuietInv` |
| `ShardConsumerProofs!TypeCorrect` | `[]TypeOK` | `ShapeInv` |
| `ShardConsumerProofs!ProcessTaskHasGroups` | `[]ProcessingHasGroups` | `ShapeInv` |
| `ShardCheckpointProofs!NothingIsLost` | `LossContract => []NoDataLoss` | `LossInv` |
| `ShardCheckpointProofs!FetchedDataIsKept` | `LossContract => []FetchedIsKept` | `LossInv` |
| `ShardCheckpointProofs!ShardIsConsumed` | `LossContract => ImplementsConsumption` | `LossInv` |
| `ShardCheckpointProofs!ShutdownIsGraceful` | `SaveContract => ShutdownSavesAll` | `SaveInv` |
| `ConsumerGroupProofs!TypeCorrect` | `[]TypeOK` | `TypeOK` |
| `ConsumerGroupProofs!QuietWhenStopped` | `[]QuietAfterStop` | `EmptyAfterStop` |
| `ConsumerGroupProofs!ReleasedInOrder` | `ReleasedWhenComplete` | `UploadCovers` |
| `ServiceCallProofs!TypeCorrect` | `[]TypeOK` | `IInv` |
| `ServiceCallProofs!NilIsDone` | `[]NilMeansDone` | `IInv` |
| `ServiceCallProofs!ResponsesAreClosed` | `[]BodiesAreClosed` | `IInv` |
| `ServiceCallProofs!WritesNotRepeated` | `[]UnknownFateIsNotRepeated` | `IInv` |
| `ServiceCallProofs!TokenErrorsRetried` | `[]UnauthorizedIsRetried` | `IInv` |
| `ServiceCallProofs!SendErrorsAreKnown` | `[]SendErrorIsKnown`, a part of `WorkersSurvive` | `IInv`, `ErrorIsKnown` |
| `ClientCredentialsProofs!TypesOfCredentials` | `[]TypeOK` | `CredentialInv` |
| `ClientCredentialsProofs!ExpiryIsKept` | `[]PairKept` | `CredentialInv` |
| `ClientCredentialsProofs!CurrentIsHandedOut` | `HandsOutCurrent` | `CredentialInv` |

**Producer.** `OnePlace` alone is not inductive: that a batch may be moved from one
container to the next without being in a third follows from where the holders of
batches are in their code. `PlaceInv` therefore joins the types, `OnePlace`,
`AcceptedIsHeld` and `HoldersAgree` (the mover's hand is empty outside a resend,
the dispatcher holds a batch exactly between its pop and its start). The other
invariants build on it: answers follow the results (`DeliveryInv`), the four slot
counters are tied to the set of posting goroutines (`Counted`), `attemptCount` to
`posts` (`AttemptsCounted`), and the order of the flags to what has ended
(`CloseOrder`, `QuietInv`).

`NoFalseShortage` compares `producerLogGroupSize` with what is cached, a sum over the calls
in unsettled batches. The sum is written as the number of bytes: a byte of a call is a pair
of the call and a position (`Bytes`), and `CachedBytes` is the cardinality of the bytes that
are held. A step then adds or removes the bytes of one call or of one batch, and the facts
about finite sets give the change without an induction over the calls. A batch subtracts
its own `totalDataSize` when it is settled, so `SpaceInv` says of every batch that what it
will subtract covers the bytes it holds (`SizesCover`). This needs that a log is added with
at most the size its group will be counted with: `GetLogSizeCalculate` (`src/producer/utils.go:28`)
counts four bytes beside the contents, and the encoding (`src/log.pb.go:864-946`), with the
time that is required, takes at least as many. A log without contents and time would be the
exception.

**Shard consumer.** `ShapeInv` says which status goes with which task and what
the cursors are then. `LossInv` says for each of the places that hold a
cursor (fetch cursor, pending, saved and service checkpoint) what must have been
processed before it. `LossContract` excludes END_CURSOR, resets and saves in
`Shutdown`. Each condition is needed: with END_CURSOR a consumer that dies before its
first checkpoint skips what was written meanwhile, the run `shard_reset` shows what a
reset does, and a save in `Shutdown` takes the end of data that may not have been
processed. `SaveInv` orders the cursors; `SaveContract` also demands that every success
is saved and that the shard stays with its consumer: the service rejects the checkpoint
of a shard that is elsewhere, and `flushCheckPoint` counts a rejected one as saved.

**Group.** The write of line 70 brings removed shards back (`group_removed`), but it
never drops one: between lines 69 and 70 others only remove from `heartShards`, so what
is about to be written contains what is there (`UploadCovers`). A release is therefore
always a `removeHeartShard`, by the clean-up of a complete shard consumer or after a
rejected checkpoint. That nothing runs after `StopAndWait` needs that the map stays empty
once `run` has returned (`EmptyAfterStop`).

**Client.** The properties are about the return of a call, when most of what they
speak of has been forgotten, so each needs an account of every point on the way.
`Accounted` ties the number of open bodies to the control point: one while an answer is
in hand, none elsewhere, unless an operation that does not close its body has ended.
`Progress` says that the steps behind are done and that a step that ends with nil is
too. `ErrorTells` says what the error in hand reveals of the last answer and the last
request, `FateAllows` that a write is only sent after an answer which excludes that the
one before was carried out, and `TokenErrorKept` that a 401 stays an error that
`processError` recognises on its way up. `IInv` is their conjunction with the types. The
theorems hold for any table of operations and any number of tries, so a new method of
the SDK is covered once its row meets the assumptions. `SendErrorIsKnown` needs one more fact,
that of the step before: when an operation of a send has ended with an error, this is an
`*Error` already (`ErrorIsKnown`), and neither the wrapper nor a skipped or failed fetch makes
another of it. The other part of `WorkersSurvive`, that a call panics only on an answer the API
does not describe, depends on each method of the real table, and TLC checks it there.

**Credentials.** The token and its expiry are written one after the other by goroutines that
no lock keeps apart, so while two fetches overlap nothing relates the two values. The
invariant speaks of the time when none overlap, as the history `pair` records:
`LoneFetch` says that the history misses no overlap, `Fits` which of the two values a fetch
that runs alone has written (the wrapper notes the expiry first, the provider stores the
token first), and that they agree when none is at work. For `HandsOutCurrent` a call that
goes on with the stored token must be compared with the time it asked, so `BringsNewer` says
that what a lone fetch brings is no older than what it replaces, nor than what another call
has asked for in the meantime; `NotAhead` that the noted expiry is never ahead of the token; `FetchedSince`
that a call which fetched has a token of the time since it asked. TLC checked `CredentialInv`
on the instance of `client_token` and with three epochs (882,294 states) before it was proved;
the theorems hold for any number of callers and epochs.

Only model-checked: everything about liveness, which the prover cannot reach, and the part of
`WorkersSurvive` about panics. All other properties that the passing runs check are theorems as well, some of them under the
conditions named above (`LossContract`, `SaveContract`).

## 5. What is not modelled

* **Attempts and back-off.** Which attempts a `Result` keeps, the series of back-off
  times with its 64-bit product, and the order of the retry heap. None of them changes
  where a batch goes: the mover of the model takes any due batches, after any time.
* **The pack id** of a batch (`producer_batch.go:54-66`), which nothing else reads.
* **`ShardConsumer` and `ConsumerGroup` are checked apart**: the worker, the heartbeats
  and other consumers appear in the first as far as one shard sees them, a shard
  consumer in the second as far as the worker sees it.
* **The slices behind the sets of shards**: `removeHeartShard` shifts the elements of a
  slice that the heartbeat loop may be reading.
* **The limits of `shouldFetch` and of the auto-commit interval**: time is open.
* **The `Query` of the configuration**: `pullLogs` does not send it
  (`consumer_client.go:143`), although `src/consumer/README.md:67` says it filters.
* **Creating the consumer group**, and the merge of defaults, at the start of a consumer.
* **A second `Close`** of the producer (it panics on a closed channel), and the panic of a
  worker after a compress error, which an invalid `CompressType` gives: the process ends.
* **Contents of requests and answers**: URLs, headers (with `CommonHeaders`), signatures,
  JSON, protobuf and compression. A request is encoded and signed, or the step fails.
* **Generated code and data types**, logging, configuration files, examples.
* **The ECS RAM role fetcher**: one more update function of the adapter in
  `CredentialsProvider`. The static provider is a constant.
* **Races on single words**: `Client.request` reads `credentialsProvider` outside the
  lock under which `ResetAccessKeyToken` writes it (`client_request.go:60`). The model
  has the old and the new pointer, not a reordering of the stores behind it.
* **Code that nothing uses**: `AdjustHashOld`, `Retry`, `RetryWithBackOff`.

Found while modelling, without a property: `attemptCount` is compared with
`maxReservedAttempts` before it is increased, so the first attempts are kept
(`io_worker.go:61`); a list of logs can take a batch over `MaxBatchCount`
(`log_accumulator.go:39`); the back-off overflows `int64` after some 50 retries
(`io_worker.go:94`), and the batch is retried at once; `UpdateMeteringMode` touches a nil
response after an error (`log_store.go:1232`); the wrapper `UpdateResourceRecordString`
calls `UpdateResourceString` (`token_auto_update_client.go:1753`); and
`PublishAlertEvent` of the token client is repeated after every error, a lost answer
included (`token_auto_update_client.go:1955`), so `UnknownFateIsNotRepeated` excepts it.

Some answers 200 make the SDK panic, and with it a goroutine of the consumer or the caller: a
`null` in a list of consumer groups (`client_consumer.go:133`), of checkpoints
(`consumer_client.go:130`) or of ETL metadata (`log_project.go:963`), and a body size in a header
for which no buffer can be made, such as an absurd one in `GetLogsBytesWithQuery`
(`log_store.go:579`) or a negative one in `getLogsV3Internal` (`log_store.go:975`). The rows of these
methods say `"assumes"`, and `PanicsOnlyOnBadAnswer` excepts such answers.

## 6. Plan

| Step | Modules | Properties aimed at |
|---|---|---|
| 1 (done) | `ProducerState` … `LogProducer`, `LogDelivery` | a batch is in one place; answered once; slots; space; closing |
| 2 (done) | `LogProducerProofs`, `ProducerDeliveryProofs`, `ProducerWorkerProofs` | types, one place, answers, attempts, slots, refinement of `LogDelivery`, quiet after closing |
| 3 (done) | `ShardConsumer`, `ShardConsumption`, proofs | at-least-once: the saved checkpoint never passes data that was not processed; shutdown saves everything and completes |
| 4 (done) | `GroupState`, `HeartBeat`, `ConsumerWorker`, `ConsumerGroup`, proofs | a removed shard does not come back; held shards are consumed, taken ones released; `StopAndWait` returns |
| 5 (done) | `Operations` … `ClientCalls`, `TokenCalls`, `ServiceCall`, proofs | nil means done, bodies closed, writes not repeated, 401 retried |
| 6 (done) | `CredentialState`, `TokenAutoUpdate`, `CredentialsProvider`, `ClientCredentials` | key and expiry belong together; no expired token; renewal goes on and ends |
| 7 (done) | `HashBuckets` | `AdjustHash` against its reference |
| 8 (done) | `ClientCredentialsProofs`; the byte counter in `ProducerDeliveryProofs`, `SendErrorIsKnown` in `ServiceCallProofs` | the safety properties that were only model-checked |
| 9 | composition of `ShardConsumer` with `ConsumerGroup`, an abstract `ShardLease` | what a group promises for a shard while it moves |

A module for the list of attempts and the back-off series was planned and given up: its
properties would repeat single lines of the code.

A theorem worth proving next: that every shard in use is reported or was taken by the
service, except after a lost answer and in the windows that `group_removed` is about.
