---------------------------- MODULE IoThreadPool ----------------------------
(***************************************************************************)
(* The dispatcher goroutine of the thread pool (io_thread_pool.go, start)  *)
(* and the slots of io_worker.go (startSendTask).  popTask and the test of *)
(* threadPoolShutDownFlag are two steps; so are popTask and the increment  *)
(* of taskCount.                                                           *)
(***************************************************************************)
EXTENDS ProducerState

PoolUnchanged == UNCHANGED <<accumulatorVars, producerLogGroupSize, due, moverVars, retryQueue,
                             attemptCount, result, answered, closeVars>>

\* popTask under the pool's lock.
PopTask ==
  /\ poolPc = "pop"
  /\ IF queue = <<>>
       THEN poolPc' = "empty" /\ UNCHANGED <<queue, poolHand>>
       ELSE poolPc' = "start" /\ poolHand' = Head(queue) /\ queue' = Tail(queue)
  /\ UNCHANGED <<slotVars, io, posts>>
  /\ PoolUnchanged

\* popTask returned nil: leave if threadPoolShutDownFlag is set, else sleep.
PoolIdle ==
  /\ poolPc = "empty"
  /\ poolPc' = IF "threadPool" \in flags THEN "done" ELSE "pop"
  /\ UNCHANGED <<poolHand, queue, slotVars, io, posts>>
  /\ PoolUnchanged

\* startSendTask: taskCount is counted before a slot is free.
CountTask ==
  /\ poolPc = "start"
  /\ poolPc' = "slot"
  /\ taskCount' = taskCount + 1
  /\ UNCHANGED <<poolHand, queue, maxIoWorker, waitGroup, returning, released, io, posts>>
  /\ PoolUnchanged

\* Mutant: one slot too many.
StartGoroutineTooMany ==
  /\ poolPc = "slot"
  /\ maxIoWorker <= MaxIoWorkerCount
  /\ maxIoWorker' = maxIoWorker + 1
  /\ waitGroup' = waitGroup + 1
  /\ io' = [io EXCEPT ![poolHand] = "sending"]
  /\ posts' = [posts EXCEPT ![poolHand] = @ + 1]
  /\ poolHand' = NoBatch
  /\ poolPc' = "pop"
  /\ UNCHANGED <<queue, taskCount, returning, released>>
  /\ PoolUnchanged

\* startSendTask: the send on maxIoWorker blocks while it holds
\* MaxIoWorkerCount tokens; then the goroutine for the batch starts.
StartGoroutine ==
  /\ poolPc = "slot"
  /\ maxIoWorker < MaxIoWorkerCount
  /\ maxIoWorker' = maxIoWorker + 1
  /\ waitGroup' = waitGroup + 1
  /\ io' = [io EXCEPT ![poolHand] = "sending"]
  /\ posts' = [posts EXCEPT ![poolHand] = @ + 1]
  /\ poolHand' = NoBatch
  /\ poolPc' = "pop"
  /\ UNCHANGED <<queue, taskCount, returning, released>>
  /\ PoolUnchanged

PoolNext == PopTask \/ PoolIdle \/ CountTask \/ StartGoroutine
=============================================================================
