--------------------------- MODULE ProducerState ---------------------------
(***************************************************************************)
(* The state of one log producer (src/producer), shared by the modules     *)
(* that model its parts:                                                   *)
(*   LogAccumulator  the Send calls and the batches being filled           *)
(*   Mover           the goroutine that empties accumulator, retry queue   *)
(*   IoThreadPool    the dispatcher goroutine and its task queue           *)
(*   IoWorker        one goroutine per batch being posted to the server    *)
(*   ProducerClose   the goroutine that calls Close or SafeClose           *)
(* LogProducer composes them.                                              *)
(*                                                                         *)
(* A "call" is one call of a Send function with its payload (a log or a    *)
(* list of logs).  A batch is named by the call that opened it, so Batch   *)
(* and Call are the same set.                                              *)
(***************************************************************************)
EXTENDS Integers, Sequences, FiniteSets, FiniteSetsExt

CONSTANTS
  Call,              \* calls of the Send functions
  Key,               \* accumulator keys: project, logstore, topic, hash, source
  NoBatch,           \* the nil *ProducerBatch
  KeyOf,             \* KeyOf[c]: the key of the logs of c (after AdjustHash)
  LogCount,          \* LogCount[c]: how many logs c carries
  LogSize,           \* LogSize[c]: GetLogSizeCalculate / GetLogListSize of c
  GroupSize,         \* GroupSize[c]: logGroup.Size() of a group with c alone
  MaxBatchSize, MaxBatchCount, GroupSizeLimit,  \* GroupSizeLimit is 5242880
  TotalSizeLnBytes, MaxBlockSec, MaxIoWorkerCount, Retries

\* validateProducerConfig makes the four maxima positive; Retries and
\* MaxBlockSec are used as the caller gave them (a Retries below zero acts as 0).
\* GetLogSizeCalculate counts 4 bytes beside the contents of a log, the encoding of
\* its fields and of its time, which a log must have, takes at least as many.
ASSUME ProducerAssumption ==
  /\ IsFiniteSet(Call)
  /\ NoBatch \notin Call
  /\ KeyOf \in [Call -> Key]
  /\ LogCount \in [Call -> Nat] /\ LogSize \in [Call -> Nat] /\ GroupSize \in [Call -> Nat]
  /\ \A c \in Call : LogSize[c] <= GroupSize[c]
  /\ MaxBatchSize \in Nat \ {0} /\ MaxBatchCount \in Nat \ {0}
  /\ GroupSizeLimit \in Nat /\ MaxBatchSize <= GroupSizeLimit
  /\ TotalSizeLnBytes \in Nat \ {0} /\ MaxIoWorkerCount \in Nat \ {0}
  /\ MaxBlockSec \in Int /\ Retries \in Nat

Batch == Call

VARIABLES
  call,                  \* call[c]: "new", "passed" (shutDownFlag seen unset), "accepted", "refused"
  polls,                 \* polls[c]: rounds c has slept in waitTime
  batchOf,               \* batchOf[c]: the batch that holds the logs of c
  logGroupData,          \* the accumulator's map from key to open batch
  totalDataSize,         \* per batch
  producerLogGroupSize,  \* the producer's counter of cached bytes
  due,                   \* batches whose createTimeMs + LingerMs, or nextRetryMs, has passed
  flags,                 \* the shutdown flags that are set
  moverPc, moverHand,    \* the mover, and the batches getRetryBatch gave it
  retryQueue,            \* batches waiting for their next attempt
  queue,                 \* the thread pool's list of tasks
  poolPc, poolHand,      \* the dispatcher, and the batch it has popped
  taskCount,             \* IoWorker.taskCount
  maxIoWorker,           \* tokens in the channel maxIoWorker
  waitGroup,             \* counter of ioWorkerWaitGroup
  io,                    \* io[b]: where the goroutine posting b is in sendToServer
  returning, released,   \* goroutines in closeSendTask: before, after the channel receive
  attemptCount,          \* per batch
  result,                \* per batch: "pending", "success", "fail"
  posts,                 \* history: times b was handed to a goroutine that posts it
  answered,              \* history: Success or Fail callbacks made for the call
  closer, closeMode      \* the goroutine closing the producer, and how it closes

accumulatorVars == <<call, polls, batchOf, logGroupData, totalDataSize>>
moverVars == <<moverPc, moverHand>>
poolVars == <<poolPc, poolHand>>
slotVars == <<taskCount, maxIoWorker, waitGroup, returning, released>>
batchVars == <<attemptCount, result, posts, answered>>
closeVars == <<closer, closeMode, flags>>

vars == <<accumulatorVars, producerLogGroupSize, due, moverVars, retryQueue,
          queue, poolVars, slotVars, io, batchVars, closeVars>>

----------------------------------------------------------------------------
\* The calls whose logs are in the log group of b.
Members(b) == {c \in Call : batchOf[c] = b}

\* len(logGroup.GetLogs()), which getLogGroupCount returns.
LogGroupCount(b) == MapThenSumSet(LAMBDA c : LogCount[c], Members(b))

\* threadPool.addTask: PushBack under the pool's lock.
AddTask(b) == queue' = Append(queue, b)

\* logAccumulator.lock is held by the mover while it is in these two sections;
\* a Send call holds it only within one step.
LockedByMover == moverPc \in {"pass", "flush"}

----------------------------------------------------------------------------
CallState == {"new", "passed", "accepted", "refused"}
Flag == {"mover", "accumulator", "retryQueue", "threadPool"}
MoverState == {"loop", "pass", "retry", "resend", "flush", "finalDrain", "finalSend", "done"}
PoolState == {"pop", "start", "slot", "empty", "done"}
IoState == {"none", "sending", "retrying"}
CloserState == {"open", "setAccumulator", "setRetryQueue", "waitMover", "waitPool",
                "waitWorkers", "pollTaskCount", "pollQueue", "checkTime",
                "safeClosed", "closed", "timedOut"}

TypeOK ==
  /\ call \in [Call -> CallState]
  /\ polls \in [Call -> Nat]
  /\ batchOf \in [Call -> Batch \cup {NoBatch}]
  /\ logGroupData \in [Key -> Batch \cup {NoBatch}]
  /\ totalDataSize \in [Batch -> Nat]
  /\ producerLogGroupSize \in Int
  /\ due \in SUBSET Batch
  /\ flags \in SUBSET Flag
  /\ moverPc \in MoverState
  /\ moverHand \in SUBSET Batch
  /\ retryQueue \in SUBSET Batch
  /\ queue \in Seq(Batch)
  /\ poolPc \in PoolState
  /\ poolHand \in Batch \cup {NoBatch}
  /\ taskCount \in Int /\ maxIoWorker \in Int /\ waitGroup \in Int
  /\ returning \in Nat /\ released \in Nat
  /\ io \in [Batch -> IoState]
  /\ attemptCount \in [Batch -> Nat]
  /\ result \in [Batch -> {"pending", "success", "fail"}]
  /\ posts \in [Batch -> Nat]
  /\ answered \in [Call -> Nat]
  /\ closer \in CloserState
  /\ closeMode \in {"none", "Close", "SafeClose"}

Init ==
  /\ call = [c \in Call |-> "new"]
  /\ polls = [c \in Call |-> 0]
  /\ batchOf = [c \in Call |-> NoBatch]
  /\ logGroupData = [k \in Key |-> NoBatch]
  /\ totalDataSize = [b \in Batch |-> 0]
  /\ producerLogGroupSize = 0
  /\ due = {} /\ flags = {}
  /\ moverPc = "loop" /\ moverHand = {}
  /\ retryQueue = {} /\ queue = <<>>
  /\ poolPc = "pop" /\ poolHand = NoBatch
  /\ taskCount = 0 /\ maxIoWorker = 0 /\ waitGroup = 0
  /\ returning = 0 /\ released = 0
  /\ io = [b \in Batch |-> "none"]
  /\ attemptCount = [b \in Batch |-> 0]
  /\ result = [b \in Batch |-> "pending"]
  /\ posts = [b \in Batch |-> 0]
  /\ answered = [c \in Call |-> 0]
  /\ closer = "open" /\ closeMode = "none"

\* Time passes: the linger time of an open batch, or the back-off of a batch in
\* the retry queue, is over.
TimePasses(b) ==
  /\ b \notin due
  /\ b \in retryQueue \/ \E k \in Key : logGroupData[k] = b
  /\ due' = due \cup {b}
  /\ UNCHANGED <<accumulatorVars, producerLogGroupSize, moverVars, retryQueue,
                 queue, poolVars, slotVars, io, batchVars, closeVars>>
=============================================================================
