------------------------------ MODULE IoWorker ------------------------------
(***************************************************************************)
(* The goroutine that posts one batch (src/producer/io_worker.go).  The    *)
(* server's answer is any of: success, an error whose HTTP code is in      *)
(* NoRetryStatusCodeList, another error.  The goroutine's step after an    *)
(* error starts with its read of retryQueueShutDownFlag; the push into the *)
(* retry queue is a later step.                                            *)
(***************************************************************************)
EXTENDS ProducerState

WorkerUnchanged == UNCHANGED <<accumulatorVars, due, moverVars, queue, poolVars, posts, closeVars>>

\* The callbacks of b are made, one per call in it, and sendToServer returns.
Settle(b, r) ==
  /\ result' = [result EXCEPT ![b] = r]
  /\ answered' = [c \in Call |-> IF c \in Members(b) THEN answered[c] + 1 ELSE answered[c]]
  /\ io' = [io EXCEPT ![b] = "none"]
  /\ returning' = returning + 1
  /\ UNCHANGED <<retryQueue, taskCount, maxIoWorker, waitGroup, released>>
  /\ WorkerUnchanged

\* producerLogGroupSize is reduced by the batch's whole totalDataSize.
ReleaseSize(b) == producerLogGroupSize' = producerLogGroupSize - totalDataSize[b]

SendSucceeds(b) ==
  /\ io[b] = "sending"
  /\ Settle(b, "success")
  /\ ReleaseSize(b)
  /\ UNCHANGED attemptCount

\* Any error once retryQueueShutDownFlag is set: an attempt is counted and Fail
\* is called for each callback; the size is not released.
SendFailsAfterShutDown(b) ==
  /\ io[b] = "sending"
  /\ "retryQueue" \in flags
  /\ Settle(b, "fail")
  /\ attemptCount' = [attemptCount EXCEPT ![b] = @ + Cardinality(Members(b))]
  /\ UNCHANGED producerLogGroupSize

\* Mutants: no return after the callbacks, so the batch goes on to the retry queue
\* (io_worker.go:89); the size is not released.
SendFailsForGoodAndRetries(b) ==
  /\ io[b] = "sending"
  /\ "retryQueue" \notin flags
  /\ result' = [result EXCEPT ![b] = "fail"]
  /\ answered' = [c \in Call |-> IF c \in Members(b) THEN answered[c] + 1 ELSE answered[c]]
  /\ io' = [io EXCEPT ![b] = "retrying"]
  /\ attemptCount' = [attemptCount EXCEPT ![b] = @ + 1]
  /\ ReleaseSize(b)
  /\ UNCHANGED <<retryQueue, slotVars>>
  /\ WorkerUnchanged

SendFailsForGoodLeaks(b) ==
  /\ io[b] = "sending"
  /\ "retryQueue" \notin flags
  /\ Settle(b, "fail")
  /\ attemptCount' = [attemptCount EXCEPT ![b] = @ + 1]
  /\ UNCHANGED producerLogGroupSize

\* An error that must not be retried.
SendFailsForGood(b) ==
  /\ io[b] = "sending"
  /\ "retryQueue" \notin flags
  /\ Settle(b, "fail")
  /\ attemptCount' = [attemptCount EXCEPT ![b] = @ + 1]
  /\ ReleaseSize(b)

\* Mutants: one retry too many; Fail is called although the batch is retried.
SendFailsAndRetriesTooOften(b) ==
  /\ io[b] = "sending"
  /\ "retryQueue" \notin flags
  /\ attemptCount[b] <= Retries
  /\ attemptCount' = [attemptCount EXCEPT ![b] = @ + 1]
  /\ io' = [io EXCEPT ![b] = "retrying"]
  /\ UNCHANGED <<producerLogGroupSize, retryQueue, slotVars, result, answered>>
  /\ WorkerUnchanged

SendFailsAndRetriesAnswered(b) ==
  /\ io[b] = "sending"
  /\ "retryQueue" \notin flags
  /\ attemptCount[b] < Retries
  /\ attemptCount' = [attemptCount EXCEPT ![b] = @ + 1]
  /\ io' = [io EXCEPT ![b] = "retrying"]
  /\ answered' = [c \in Call |-> IF c \in Members(b) THEN answered[c] + 1 ELSE answered[c]]
  /\ UNCHANGED <<producerLogGroupSize, retryQueue, slotVars, result>>
  /\ WorkerUnchanged

\* Any other error with attempts left: the batch is on its way to the retry queue.
SendFailsAndRetries(b) ==
  /\ io[b] = "sending"
  /\ "retryQueue" \notin flags
  /\ attemptCount[b] < Retries
  /\ attemptCount' = [attemptCount EXCEPT ![b] = @ + 1]
  /\ io' = [io EXCEPT ![b] = "retrying"]
  /\ UNCHANGED <<producerLogGroupSize, retryQueue, slotVars, result, answered>>
  /\ WorkerUnchanged

\* Mutant: the size is not released.
SendFailsExhaustedLeaks(b) ==
  /\ io[b] = "sending"
  /\ "retryQueue" \notin flags
  /\ attemptCount[b] >= Retries
  /\ Settle(b, "fail")
  /\ UNCHANGED <<producerLogGroupSize, attemptCount>>

\* Any other error and no attempt left: Fail, and no attempt is counted.
SendFailsExhausted(b) ==
  /\ io[b] = "sending"
  /\ "retryQueue" \notin flags
  /\ attemptCount[b] >= Retries
  /\ Settle(b, "fail")
  /\ ReleaseSize(b)
  /\ UNCHANGED attemptCount

\* sendToRetryQueue under the queue's mutex, with a nextRetryMs in the future.
SendToRetryQueue(b) ==
  /\ io[b] = "retrying"
  /\ retryQueue' = retryQueue \cup {b}
  /\ io' = [io EXCEPT ![b] = "none"]
  /\ returning' = returning + 1
  /\ UNCHANGED <<producerLogGroupSize, taskCount, maxIoWorker, waitGroup, released,
                 attemptCount, result, answered>>
  /\ WorkerUnchanged

\* Mutants: closeSendTask runs for a goroutine that never started; the slot is not
\* given back.
ReleaseSlotAnyTime ==
  /\ returning' = returning - 1
  /\ released' = released + 1
  /\ maxIoWorker' = maxIoWorker - 1
  /\ UNCHANGED <<producerLogGroupSize, retryQueue, taskCount, waitGroup, io,
                 attemptCount, result, answered>>
  /\ WorkerUnchanged

ReleaseSlotLeaks ==
  /\ returning > 0
  /\ returning' = returning - 1
  /\ released' = released + 1
  /\ UNCHANGED <<producerLogGroupSize, retryQueue, taskCount, maxIoWorker, waitGroup, io,
                 attemptCount, result, answered>>
  /\ WorkerUnchanged

\* closeSendTask, deferred: first the slot is given back ...
ReleaseSlot ==
  /\ returning > 0
  /\ returning' = returning - 1
  /\ released' = released + 1
  /\ maxIoWorker' = maxIoWorker - 1
  /\ UNCHANGED <<producerLogGroupSize, retryQueue, taskCount, waitGroup, io,
                 attemptCount, result, answered>>
  /\ WorkerUnchanged

\* ... then taskCount and the WaitGroup go down.
FinishTask ==
  /\ released > 0
  /\ released' = released - 1
  /\ taskCount' = taskCount - 1
  /\ waitGroup' = waitGroup - 1
  /\ UNCHANGED <<producerLogGroupSize, retryQueue, maxIoWorker, returning, io,
                 attemptCount, result, answered>>
  /\ WorkerUnchanged

Answer(b) ==
  \/ SendSucceeds(b) \/ SendFailsAfterShutDown(b) \/ SendFailsForGood(b)
  \/ SendFailsAndRetries(b) \/ SendFailsExhausted(b)

WorkerNext ==
  \/ \E b \in Batch : Answer(b) \/ SendToRetryQueue(b)
  \/ ReleaseSlot \/ FinishTask
=============================================================================
