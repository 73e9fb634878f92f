--------------------------- MODULE ProducerClose ---------------------------
(***************************************************************************)
(* The goroutine that closes the producer (src/producer/producer.go): the  *)
(* flags are set one after the other, then Close polls with a time limit   *)
(* and SafeClose waits for the goroutines.                                 *)
(***************************************************************************)
EXTENDS ProducerState

CloseUnchanged == UNCHANGED <<accumulatorVars, producerLogGroupSize, due, moverVars, retryQueue,
                              queue, poolVars, slotVars, io, batchVars>>

CloserGoes(from, to) == closer = from /\ closer' = to /\ CloseUnchanged

Raise(f) == flags' = flags \cup {f}

\* sendCloseProdcerSignal, one atomic Store at a time.
BeginClose(mode) ==
  /\ CloserGoes("open", "setAccumulator")
  /\ closeMode' = mode
  /\ Raise("mover")

SetAccumulatorFlag ==
  CloserGoes("setAccumulator", "setRetryQueue") /\ Raise("accumulator") /\ UNCHANGED closeMode

SetRetryQueueFlag ==
  CloserGoes("setRetryQueue", "waitMover") /\ Raise("retryQueue") /\ UNCHANGED closeMode

\* Mutant: SafeClose does not wait for the thread pool.
MoverEndedWorkersNext ==
  /\ CloserGoes("waitMover", IF closeMode = "SafeClose" THEN "waitWorkers" ELSE "pollTaskCount")
  /\ moverPc = "done"
  /\ Raise("threadPool")
  /\ UNCHANGED closeMode

\* moverWaitGroup.Wait(), then threadPoolShutDownFlag.
MoverEnded ==
  /\ CloserGoes("waitMover", IF closeMode = "SafeClose" THEN "waitPool" ELSE "pollTaskCount")
  /\ moverPc = "done"
  /\ Raise("threadPool")
  /\ UNCHANGED closeMode

\* SafeClose: ioThreadPoolWaitGroup.Wait(), then ioWorkerWaitGroup.Wait().
PoolEnded ==
  CloserGoes("waitPool", "waitWorkers") /\ poolPc = "done" /\ UNCHANGED <<flags, closeMode>>

WorkersEnded ==
  CloserGoes("waitWorkers", "safeClosed") /\ waitGroup = 0 /\ UNCHANGED <<flags, closeMode>>

\* Close: taskCount is read first, hasTask only if it was 0.
PollTaskCount ==
  /\ CloserGoes("pollTaskCount", IF taskCount = 0 THEN "pollQueue" ELSE "checkTime")
  /\ UNCHANGED <<flags, closeMode>>

PollQueue ==
  /\ CloserGoes("pollQueue", IF queue = <<>> THEN "closed" ELSE "checkTime")
  /\ UNCHANGED <<flags, closeMode>>

\* Close: the time limit is over, or it is not and Close polls again.
TimeIsUp == CloserGoes("checkTime", "timedOut") /\ UNCHANGED <<flags, closeMode>>

PollAgain == CloserGoes("checkTime", "pollTaskCount") /\ UNCHANGED <<flags, closeMode>>

CloseNext ==
  \/ \E mode \in {"Close", "SafeClose"} : BeginClose(mode)
  \/ SetAccumulatorFlag \/ SetRetryQueueFlag \/ MoverEnded
  \/ PoolEnded \/ WorkersEnded \/ PollTaskCount \/ PollQueue
  \/ TimeIsUp \/ PollAgain
=============================================================================
