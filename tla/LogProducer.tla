---------------------------- MODULE LogProducer ----------------------------
(***************************************************************************)
(* One log producer: Send calls, mover, dispatcher, posting goroutines and *)
(* the goroutine that closes it, interleaved.  Properties first state      *)
(* where a batch can be, then what the callers may rely on.                *)
(***************************************************************************)
EXTENDS LogAccumulator, Mover, IoThreadPool, IoWorker, ProducerClose

\* Everything has ended: the Send calls returned, Close or SafeClose returned,
\* and no goroutine of the producer is left.
Terminated ==
  /\ closer \in {"safeClosed", "closed", "timedOut"}
  /\ moverPc = "done" /\ poolPc = "done" /\ waitGroup = 0
  /\ \A c \in Call : call[c] \in {"accepted", "refused"}
  /\ UNCHANGED vars

Next ==
  \/ \E c \in Call : PassWaitTime(c) \/ SleepInWaitTime(c) \/ AddLogToProducerBatch(c)
  \/ \E b \in Batch : TimePasses(b)
  \/ MoverNext
  \/ PoolNext
  \/ WorkerNext
  \/ CloseNext
  \/ Terminated

Spec == Init /\ [][Next]_vars

\* The Go scheduler runs every goroutine that can run, every HTTP call returns
\* (the client has a timeout), and time passes: it ends a linger time or a
\* back-off, and a Close that polls again and again runs out of its limit.  The
\* user need not call Send nor Close; a call that passed waitTime and a Close
\* that began do go on.
Fairness ==
  /\ \A c \in Call : WF_vars(AddLogToProducerBatch(c))
  /\ \A b \in Batch : WF_vars(TimePasses(b))
  /\ WF_vars(MoverNext)
  /\ WF_vars(PoolNext)
  /\ \A b \in Batch : WF_vars(Answer(b) \/ SendToRetryQueue(b))
  /\ WF_vars(ReleaseSlot) /\ WF_vars(FinishTask)
  /\ WF_vars(closer # "open" /\ CloseNext)
  /\ SF_vars(TimeIsUp)

FairSpec == Spec /\ Fairness

----------------------------------------------------------------------------
(* Where a batch is *)

Born(b) == batchOf[b] = b
Settled(b) == result[b] # "pending"

Queued(q, b) == \E i \in 1 .. Len(q) : q[i] = b
NoRepeats(q) == \A i, j \in 1 .. Len(q) : q[i] = q[j] => i = j

Place == {"accumulator", "mover", "retryQueue", "queue", "dispatcher", "goroutine", "settled"}

At(b, p) ==
  \/ p = "accumulator" /\ logGroupData[KeyOf[b]] = b
  \/ p = "mover" /\ b \in moverHand
  \/ p = "retryQueue" /\ b \in retryQueue
  \/ p = "queue" /\ Queued(queue, b)
  \/ p = "dispatcher" /\ poolHand = b
  \/ p = "goroutine" /\ io[b] # "none"
  \/ p = "settled" /\ Settled(b)

\* A batch is nowhere before it is opened and in exactly one place afterwards:
\* two goroutines never hold the same batch (its fields are not locked), none
\* is lost between two containers and none is queued twice, whatever the
\* interleaving of Send, mover, dispatcher, workers and Close.
OnePlace ==
  /\ \A b \in Batch : Born(b) <=> \E p \in Place : At(b, p)
  /\ \A b \in Batch : \A p \in Place : At(b, p) => \A q \in Place \ {p} : ~At(b, q)
  /\ NoRepeats(queue)

\* A callback is made at most once for a call, and is made if and only if the
\* batch that holds its logs is settled, so no accepted log is answered twice
\* and none is answered while a retry of it may still be sent.
AnsweredOnce ==
  \A c \in Call : answered[c] =
    IF batchOf[c] # NoBatch /\ Settled(batchOf[c]) THEN 1 ELSE 0

\* A call that was refused left no log behind, and one that was accepted has its
\* logs in exactly one batch, which was opened under its key.
AcceptedIsHeld ==
  \A c \in Call :
    /\ call[c] = "accepted" <=> batchOf[c] # NoBatch
    /\ batchOf[c] # NoBatch => Born(batchOf[c]) /\ KeyOf[batchOf[c]] = KeyOf[c]

\* The logs of a batch never change once it has left the accumulator: retries
\* post what was posted first, and a goroutine that marshals the log group does
\* not race with a Send that appends to it.
SealedAfterAccumulator ==
  [][\A b \in Batch :
       (\E p \in Place \ {"accumulator"} : At(b, p)) => Members(b)' = Members(b)]_vars

----------------------------------------------------------------------------
(* Workers and attempts *)

Busy == {b \in Batch : io[b] # "none"}

\* At most MaxIoWorkerCount batches are being posted at a time (README:
\* MaxIoWorkerCount), and the three counters agree with the goroutines there are.
WorkersBounded ==
  /\ Cardinality(Busy) <= MaxIoWorkerCount
  /\ maxIoWorker = Cardinality(Busy) + returning
  /\ waitGroup = maxIoWorker + released
  /\ taskCount = waitGroup + (IF poolPc = "slot" THEN 1 ELSE 0)

\* A batch is posted at most once plus Retries times, through every path that
\* puts it back into the queue.
AttemptsBounded == \A b \in Batch : posts[b] <= Retries + 1

----------------------------------------------------------------------------
(* Space *)

\* The bytes of the logs of some calls, one by one.
Bytes(S) == UNION {{c} \X (1 .. LogSize[c]) : c \in S}

\* The calls whose logs were accepted and are not answered yet.
Held == {c \in Call : batchOf[c] # NoBatch /\ ~Settled(batchOf[c])}
CachedBytes == Cardinality(Bytes(Held))

\* README.md:117, a Send call blocks, or is refused, for want of space: while no
\* close is under way the counter that waitTime reads never says more than what
\* is cached, so no call waits for space that is there.  (Retries, errors and
\* batches settled out of order all release what was counted.)
NoFalseShortage ==
  "retryQueue" \notin flags => producerLogGroupSize <= CachedBytes

----------------------------------------------------------------------------
(* Closing *)

\* Once SafeClose has returned nothing of the producer runs any more: no batch is
\* posted and no callback is made behind the back of a caller that goes on to
\* tear down what its callbacks use.
QuietAfterSafeClose ==
  [][closer = "safeClosed" => posts' = posts /\ answered' = answered]_vars

\* README.md:73, "safe close waits until all data cached in the producer has
\* been sent": when SafeClose has returned no accepted log is left in a container.
SafeCloseSendsAll ==
  closer = "safeClosed" =>
    (\A k \in Key : logGroupData[k] = NoBatch) /\ retryQueue = {} /\ queue = <<>>

----------------------------------------------------------------------------
(* Liveness *)

\* Unless the producer is closed, the logs of every accepted call are eventually
\* answered, in spite of retries, of a full pool and of batches that are held
\* back by others under the same key.
AcceptedIsAnswered ==
  \A c \in Call :
    call[c] = "accepted" ~> (answered[c] = 1 \/ closer # "open")

\* Unless the producer is closed, a full producer has space again.
SpaceComesBack ==
  producerLogGroupSize > TotalSizeLnBytes ~>
    (producerLogGroupSize <= TotalSizeLnBytes \/ closer # "open")

\* Close and SafeClose return, for nobody waits for somebody who waits, and all goroutines of
\* the producer end, also after a Close that gave up.
Closed == closer \in {"safeClosed", "closed", "timedOut"}
CloseEnds == closer # "open" ~> [](Closed /\ poolPc = "done" /\ waitGroup = 0)

----------------------------------------------------------------------------
(* What the producer promises its callers, as LogDelivery states it *)

status == [c \in Call |->
  IF call[c] = "accepted" THEN result[batchOf[c]]
  ELSE IF call[c] = "refused" THEN "refused" ELSE "new"]

Delivery == INSTANCE LogDelivery WITH Log <- Call, status <- status

ImplementsDelivery == Delivery!Spec
=============================================================================
