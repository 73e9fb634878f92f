--------------------------- MODULE LogAccumulator ---------------------------
(***************************************************************************)
(* The Send functions of the producer and the accumulator they fill        *)
(* (src/producer/producer.go, log_accumulator.go, producer_batch.go).      *)
(* A call waits for space and reads shutDownFlag WITHOUT the accumulator's *)
(* lock; only then does it take the lock and add its logs.  Other          *)
(* goroutines run between the two steps.                                   *)
(***************************************************************************)
EXTENDS ProducerState

\* waitTime finds space and addLogToProducerBatch reads shutDownFlag.
PassWaitTime(c) ==
  /\ call[c] = "new"
  /\ producerLogGroupSize <= TotalSizeLnBytes
  /\ call' = [call EXCEPT ![c] = IF "accumulator" \in flags THEN "refused" ELSE "passed"]
  /\ UNCHANGED <<polls, batchOf, logGroupData, totalDataSize, producerLogGroupSize, due,
                 moverVars, retryQueue, queue, poolVars, slotVars, io, batchVars, closeVars>>

\* waitTime finds the producer full: it sleeps a second, and refuses the call
\* once it has slept MaxBlockSec times.  A negative MaxBlockSec waits for ever.
SleepInWaitTime(c) ==
  /\ call[c] = "new"
  /\ producerLogGroupSize > TotalSizeLnBytes
  /\ MaxBlockSec >= 0
  /\ IF polls[c] + 1 >= MaxBlockSec
       THEN call' = [call EXCEPT ![c] = "refused"] /\ UNCHANGED polls
       ELSE polls' = [polls EXCEPT ![c] = @ + 1] /\ UNCHANGED call
  /\ UNCHANGED <<batchOf, logGroupData, totalDataSize, producerLogGroupSize, due, moverVars,
                 retryQueue, queue, poolVars, slotVars, io, batchVars, closeVars>>

\* The batch that addLogToProducerBatch finds under the key of c, its size with
\* the logs of c (added before anything is decided), and the count it compares:
\* the logs already there plus one, however many logs c carries.
Found(c) == logGroupData[KeyOf[c]]
SizeWith(c) == totalDataSize[Found(c)] + LogSize[c]
CountFits(c) == LogGroupCount(Found(c)) + 1 <= MaxBatchCount

Fits(c) == CountFits(c) /\ SizeWith(c) <= MaxBatchSize
FitsAndFills(c) == CountFits(c) /\ SizeWith(c) > MaxBatchSize /\ SizeWith(c) < GroupSizeLimit

\* The locked section of addLogToProducerBatch for call c.
EnterLocked(c) ==
  /\ call[c] = "passed"
  /\ ~LockedByMover
  /\ call' = [call EXCEPT ![c] = "accepted"]
  /\ UNCHANGED <<polls, moverVars, retryQueue, poolVars, slotVars, io, batchVars, closeVars>>

\* No open batch: createNewProducerBatch.  The counter is not increased.
OpenBatch(c) ==
  /\ EnterLocked(c)
  /\ Found(c) = NoBatch
  /\ logGroupData' = [logGroupData EXCEPT ![KeyOf[c]] = c]
  /\ batchOf' = [batchOf EXCEPT ![c] = c]
  /\ totalDataSize' = [totalDataSize EXCEPT ![c] = GroupSize[c]]
  /\ UNCHANGED <<producerLogGroupSize, queue, due>>

\* addOrSendProducerBatch, second branch: the logs fit.
AddLog(c) ==
  /\ EnterLocked(c)
  /\ Found(c) # NoBatch
  /\ Fits(c)
  /\ batchOf' = [batchOf EXCEPT ![c] = Found(c)]
  /\ totalDataSize' = [totalDataSize EXCEPT ![Found(c)] = SizeWith(c)]
  /\ producerLogGroupSize' = producerLogGroupSize + LogSize[c]
  /\ UNCHANGED <<logGroupData, queue, due>>

\* addOrSendProducerBatch, first branch: the logs fit and fill the batch, which
\* leaves for the thread pool (innerSendToServer).
AddLogAndSend(c) ==
  /\ EnterLocked(c)
  /\ Found(c) # NoBatch
  /\ FitsAndFills(c)
  /\ batchOf' = [batchOf EXCEPT ![c] = Found(c)]
  /\ totalDataSize' = [totalDataSize EXCEPT ![Found(c)] = SizeWith(c)]
  /\ producerLogGroupSize' = producerLogGroupSize + LogSize[c]
  /\ AddTask(Found(c))
  /\ due' = due \ {Found(c)}
  /\ logGroupData' = [logGroupData EXCEPT ![KeyOf[c]] = NoBatch]

\* addOrSendProducerBatch, last branch: the open batch leaves as it is, though
\* its totalDataSize already counts c, and c opens a new batch.
SendAndOpenBatch(c) ==
  /\ EnterLocked(c)
  /\ Found(c) # NoBatch
  /\ ~Fits(c) /\ ~FitsAndFills(c)
  /\ batchOf' = [batchOf EXCEPT ![c] = c]
  /\ totalDataSize' = [totalDataSize EXCEPT ![Found(c)] = SizeWith(c), ![c] = GroupSize[c]]
  /\ producerLogGroupSize' = producerLogGroupSize + LogSize[c]
  /\ AddTask(Found(c))
  /\ due' = due \ {Found(c)}
  /\ logGroupData' = [logGroupData EXCEPT ![KeyOf[c]] = c]

AddLogToProducerBatch(c) ==
  OpenBatch(c) \/ AddLog(c) \/ AddLogAndSend(c) \/ SendAndOpenBatch(c)
=============================================================================
