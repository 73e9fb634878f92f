------------------------------- MODULE Mover -------------------------------
(***************************************************************************)
(* The mover goroutine (src/producer/mover.go) with the retry queue it     *)
(* reads (retry_queue.go).  The main loop sends the batches that have      *)
(* lingered long enough, then those whose back-off is over; after          *)
(* moverShutDownFlag it flushes both containers once and ends.             *)
(* Times are abstracted to the set "due"; a heap ordered by nextRetryMs    *)
(* popped while nextRetryMs < now yields the due batches.                  *)
(***************************************************************************)
EXTENDS ProducerState

MoverUnchanged == UNCHANGED <<call, polls, batchOf, totalDataSize, producerLogGroupSize,
                              poolVars, slotVars, io, batchVars, closeVars>>

\* The loop condition, then lock.Lock(): nothing that a Send call or another
\* goroutine does between the two depends on the order.
MoverLoop ==
  /\ moverPc = "loop"
  /\ moverPc' = IF "mover" \in flags THEN "flush" ELSE "pass"
  /\ UNCHANGED <<logGroupData, moverHand, retryQueue, queue, due>>
  /\ MoverUnchanged

\* Mutant: the batch is queued but stays in the map.
MoverSendKeeps(k) ==
  /\ \/ moverPc = "pass" /\ logGroupData[k] \in due
     \/ moverPc = "flush" /\ logGroupData[k] # NoBatch
  /\ AddTask(logGroupData[k])
  /\ due' = due \ {logGroupData[k]}
  /\ UNCHANGED <<logGroupData, moverVars, retryQueue>>
  /\ MoverUnchanged

\* mover.sendToServer for a batch that has lingered, or the flush of any batch:
\* addTask, and out of the map.
MoverSend(k) ==
  /\ \/ moverPc = "pass" /\ logGroupData[k] \in due
     \/ moverPc = "flush" /\ logGroupData[k] # NoBatch
  /\ AddTask(logGroupData[k])
  /\ logGroupData' = [logGroupData EXCEPT ![k] = NoBatch]
  /\ due' = due \ {logGroupData[k]}
  /\ UNCHANGED <<moverVars, retryQueue>>
  /\ MoverUnchanged

MoverUnlock ==
  /\ \/ /\ moverPc = "pass"
        /\ \A k \in Key : logGroupData[k] \notin due
        /\ moverPc' = "retry"
     \/ /\ moverPc = "flush"
        /\ \A k \in Key : logGroupData[k] = NoBatch
        /\ moverPc' = "finalDrain"
  /\ UNCHANGED <<logGroupData, moverHand, retryQueue, queue, due>>
  /\ MoverUnchanged

\* Mutant: a batch popped too early is not pushed back.
GetRetryBatchDrops ==
  /\ moverPc \in {"retry", "finalDrain"}
  /\ moverHand' = IF "mover" \in flags THEN retryQueue ELSE retryQueue \cap due
  /\ retryQueue' = {}
  /\ due' = due \ retryQueue
  /\ moverPc' = IF moverPc = "retry" THEN "resend" ELSE "finalSend"
  /\ UNCHANGED <<logGroupData, queue>>
  /\ MoverUnchanged

\* retryQueue.getRetryBatch(moverShutDownFlag.Load()): the due batches, or all
\* of them once the flag is set.
GetRetryBatch ==
  LET taken == IF "mover" \in flags THEN retryQueue ELSE retryQueue \cap due
  IN  /\ moverPc \in {"retry", "finalDrain"}
      /\ moverHand' = taken
      /\ retryQueue' = retryQueue \ taken
      /\ due' = due \ taken
      /\ moverPc' = IF moverPc = "retry" THEN "resend" ELSE "finalSend"
      /\ UNCHANGED <<logGroupData, queue>>
      /\ MoverUnchanged

\* addTask of one batch of the list getRetryBatch returned.
MoverResend(b) ==
  /\ moverPc \in {"resend", "finalSend"}
  /\ b \in moverHand
  /\ moverHand' = moverHand \ {b}
  /\ AddTask(b)
  /\ UNCHANGED <<moverPc, logGroupData, retryQueue, due>>
  /\ MoverUnchanged

MoverResendDone ==
  /\ moverPc \in {"resend", "finalSend"}
  /\ moverHand = {}
  /\ moverPc' = IF moverPc = "resend" THEN "loop" ELSE "done"
  /\ UNCHANGED <<moverHand, logGroupData, retryQueue, queue, due>>
  /\ MoverUnchanged

MoverNext ==
  \/ MoverLoop \/ MoverUnlock \/ GetRetryBatch \/ MoverResendDone
  \/ \E k \in Key : MoverSend(k)
  \/ \E b \in Batch : MoverResend(b)
=============================================================================
