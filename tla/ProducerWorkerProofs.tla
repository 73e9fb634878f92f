------------------------ MODULE ProducerWorkerProofs ------------------------
(***************************************************************************)
(* Theorems about the posting goroutines: their number and the counters    *)
(* kept of them, the number of attempts per batch, and the quiet after     *)
(* SafeClose has returned.                                                 *)
(***************************************************************************)
EXTENDS LogProducerProofs

----------------------------------------------------------------------------
(* Slots *)

LEMMA BusyFinite == IsFiniteSet(Busy) /\ Cardinality(Busy) \in Nat
<1>1. Busy \in SUBSET Call
  BY DEF Busy, Batch
<1>. QED BY <1>1, ProducerAssumption, FS_Subset, FS_CardinalityType DEF ProducerAssumption

\* Counting is by the set Busy: one more when a goroutine starts, one less when
\* it is done with its batch.
LEMMA BusyGrows ==
  ASSUME NEW b \in Batch, io \in [Batch -> IoState], io[b] = "none",
         io' = [io EXCEPT ![b] = "sending"]
  PROVE  Cardinality(Busy') = Cardinality(Busy) + 1
<1>1. Busy' = Busy \cup {b} /\ b \notin Busy
  BY DEF Busy
<1>. QED BY <1>1, BusyFinite, FS_AddElement

LEMMA BusyShrinks ==
  ASSUME NEW b \in Batch, io \in [Batch -> IoState], io[b] # "none",
         io' = [io EXCEPT ![b] = "none"]
  PROVE  Cardinality(Busy') = Cardinality(Busy) - 1
<1>1. Busy' = Busy \ {b} /\ b \in Busy
  BY DEF Busy
<1>. QED BY <1>1, BusyFinite, FS_RemoveElement

\* The counters, and the limit on the channel rather than on the goroutines.
Counted ==
  /\ maxIoWorker <= MaxIoWorkerCount
  /\ maxIoWorker = Cardinality(Busy) + returning
  /\ waitGroup = maxIoWorker + released
  /\ taskCount = waitGroup + (IF poolPc = "slot" THEN 1 ELSE 0)

LEMMA CountedBounds == TypeOK /\ Counted => WorkersBounded
<1>. SUFFICES ASSUME TypeOK, Counted PROVE WorkersBounded
  OBVIOUS
<1>1. Cardinality(Busy) \in Nat /\ returning \in Nat /\ MaxIoWorkerCount \in Nat
  BY BusyFinite, ProducerAssumption DEF TypeOK, ProducerAssumption
<1>. QED BY <1>1 DEF Counted, WorkersBounded

LEMMA CountedStep == PlaceInv /\ Counted /\ [Next]_vars => Counted'
<1>. SUFFICES ASSUME PlaceInv, Counted, [Next]_vars PROVE Counted'
  OBVIOUS
<1>0. /\ maxIoWorker \in Int /\ waitGroup \in Int /\ taskCount \in Int
      /\ returning \in Nat /\ released \in Nat /\ MaxIoWorkerCount \in Nat
      /\ Cardinality(Busy) \in Nat /\ io \in [Batch -> IoState]
  BY BusyFinite, ProducerAssumption DEF PlaceInv, TypeOK, ProducerAssumption
<1>1. CASE UNCHANGED <<io, slotVars>> /\ (poolPc' = "slot" <=> poolPc = "slot")
  BY <1>1 DEF Counted, Busy, slotVars
<1>2. CASE CountTask
  <2>1. /\ poolPc = "start" /\ poolPc' = "slot" /\ taskCount' = taskCount + 1
        /\ UNCHANGED <<io, maxIoWorker, waitGroup, returning, released>>
    BY <1>2 DEF CountTask
  <2>2. Busy' = Busy
    BY <2>1 DEF Busy
  <2>. QED BY <1>0, <2>1, <2>2 DEF Counted
<1>3. CASE StartGoroutine
  <2>1. /\ poolPc = "slot" /\ poolPc' = "pop" /\ maxIoWorker < MaxIoWorkerCount
        /\ maxIoWorker' = maxIoWorker + 1 /\ waitGroup' = waitGroup + 1
        /\ io' = [io EXCEPT ![poolHand] = "sending"]
        /\ UNCHANGED <<taskCount, returning, released>>
    BY <1>3 DEF StartGoroutine
  <2>2. poolHand \in Batch
    BY <2>1 DEF PlaceInv, HoldersAgree, TypeOK
  <2>3. io[poolHand] = "none"
    BY <2>2, AtIsAlone DEF At, Place
  <2>4. Cardinality(Busy') = Cardinality(Busy) + 1
    BY <1>0, <2>1, <2>2, <2>3, BusyGrows
  <2>. QED BY <1>0, <2>1, <2>4 DEF Counted
<1>4. ASSUME NEW b \in Batch, io[b] # "none", io' = [io EXCEPT ![b] = "none"],
             returning' = returning + 1,
             UNCHANGED <<taskCount, maxIoWorker, waitGroup, released, poolPc>>
      PROVE  Counted'
  <2>1. Cardinality(Busy') = Cardinality(Busy) - 1
    BY <1>0, <1>4, BusyShrinks
  <2>. QED BY <1>0, <1>4, <2>1 DEF Counted
<1>5. ASSUME NEW b \in Batch, Answer(b) PROVE Counted'
  <2>1. CASE SendFailsAndRetries(b)
    <3>1. UNCHANGED slotVars /\ poolPc' = poolPc
      BY <2>1 DEF SendFailsAndRetries, WorkerUnchanged, poolVars
    <3>2. Busy' = Busy
      BY <1>0, <2>1 DEF SendFailsAndRetries, Busy
    <3>. QED BY <3>1, <3>2 DEF Counted, slotVars
  <2>2. CASE ~SendFailsAndRetries(b)
    BY <1>4, <1>5, <2>2 DEF Answer, SendSucceeds, SendFailsAfterShutDown, SendFailsForGood,
                            SendFailsExhausted, Settle, WorkerUnchanged, poolVars
  <2>. QED BY <2>1, <2>2
<1>6. ASSUME NEW b \in Batch, SendToRetryQueue(b) PROVE Counted'
  BY <1>4, <1>6 DEF SendToRetryQueue, WorkerUnchanged, poolVars
<1>7. CASE ReleaseSlot
  <2>1. /\ returning' = returning - 1 /\ released' = released + 1 /\ maxIoWorker' = maxIoWorker - 1
        /\ UNCHANGED <<taskCount, waitGroup, io, poolPc>>
    BY <1>7 DEF ReleaseSlot, WorkerUnchanged, poolVars
  <2>2. Busy' = Busy
    BY <2>1 DEF Busy
  <2>. QED BY <1>0, <2>1, <2>2 DEF Counted
<1>8. CASE FinishTask
  <2>1. /\ released' = released - 1 /\ taskCount' = taskCount - 1 /\ waitGroup' = waitGroup - 1
        /\ UNCHANGED <<maxIoWorker, returning, io, poolPc>>
    BY <1>8 DEF FinishTask, WorkerUnchanged, poolVars
  <2>2. Busy' = Busy
    BY <2>1 DEF Busy
  <2>. QED BY <1>0, <2>1, <2>2 DEF Counted
<1>9. CASE ~WorkerNext /\ ~CountTask /\ ~StartGoroutine
  <2>1. CASE PopTask \/ PoolIdle
    BY <1>1, <2>1 DEF PopTask, PoolIdle
  <2>2. CASE MoverNext
    BY <1>1, <2>2 DEF MoverNext, MoverLoop, MoverUnlock, GetRetryBatch, MoverResendDone, MoverSend,
                      MoverResend, MoverUnchanged, poolVars
  <2>3. CASE CloseNext
    BY <1>1, <2>3 DEF CloseNext, BeginClose, SetAccumulatorFlag, SetRetryQueueFlag, MoverEnded,
                      PoolEnded, WorkersEnded, PollTaskCount, PollQueue, TimeIsUp, PollAgain,
                      CloserGoes, CloseUnchanged, poolVars
  <2>4. ASSUME NEW c \in Call, PassWaitTime(c) \/ SleepInWaitTime(c) \/ AddLogToProducerBatch(c)
        PROVE  Counted'
    BY <1>1, <2>4 DEF PassWaitTime, SleepInWaitTime, AddLogToProducerBatch, OpenBatch, AddLog,
                      AddLogAndSend, SendAndOpenBatch, EnterLocked, poolVars
  <2>5. CASE (\E b \in Batch : TimePasses(b)) \/ Terminated \/ UNCHANGED vars
    BY <1>1, <2>5 DEF TimePasses, Terminated, vars, poolVars
  <2>. QED BY <1>9, <2>1, <2>2, <2>3, <2>4, <2>5 DEF Next, PoolNext
<1>. QED BY <1>2, <1>3, <1>5, <1>6, <1>7, <1>8, <1>9 DEF WorkerNext

LEMMA CountedInit == Init => Counted
<1>. SUFFICES ASSUME Init PROVE Counted
  OBVIOUS
<1>1. Busy = {}
  BY DEF Init, Busy
<1>2. Cardinality(Busy) = 0
  BY <1>1, FS_EmptySet
<1>3. MaxIoWorkerCount \in Nat
  BY ProducerAssumption DEF ProducerAssumption
<1>. QED BY <1>2, <1>3 DEF Init, Counted

\* Never more than MaxIoWorkerCount posts at a time, and the counters are right.
THEOREM WorkersAreBounded == Spec => []WorkersBounded
<1>1. Init => PlaceInv /\ Counted
  BY PlaceInit, CountedInit
<1>2. (PlaceInv /\ Counted) /\ [Next]_vars => (PlaceInv /\ Counted)'
  BY PlaceStep, CountedStep
<1>3. PlaceInv /\ Counted => WorkersBounded
  BY CountedBounds DEF PlaceInv
<1>. QED BY <1>1, <1>2, <1>3, PTL DEF Spec

----------------------------------------------------------------------------
(* Attempts *)

\* A batch that is not settled was posted as often as it failed, and once more
\* while the answer is awaited.
AttemptsCounted ==
  \A b \in Batch :
    /\ posts[b] <= Retries + 1
    /\ ~Settled(b) => /\ attemptCount[b] <= Retries
                      /\ posts[b] = attemptCount[b] + (IF io[b] = "sending" THEN 1 ELSE 0)

LEMMA AttemptsStep == PlaceInv /\ AttemptsCounted /\ [Next]_vars => AttemptsCounted'
<1>. SUFFICES ASSUME PlaceInv, AttemptsCounted, [Next]_vars PROVE AttemptsCounted'
  OBVIOUS
<1>0. /\ posts \in [Batch -> Nat] /\ attemptCount \in [Batch -> Nat] /\ io \in [Batch -> IoState]
      /\ result \in [Batch -> {"pending", "success", "fail"}] /\ Retries \in Nat
  BY ProducerAssumption DEF PlaceInv, TypeOK, ProducerAssumption
<1>1. ASSUME UNCHANGED <<posts, attemptCount, io, result>> PROVE AttemptsCounted'
  BY <1>1 DEF AttemptsCounted, Settled
<1>2. ASSUME StartGoroutine PROVE AttemptsCounted'
  <2>1. /\ poolPc = "slot" /\ io' = [io EXCEPT ![poolHand] = "sending"]
        /\ posts' = [posts EXCEPT ![poolHand] = @ + 1]
        /\ UNCHANGED <<attemptCount, result>>
    BY <1>2 DEF StartGoroutine, PoolUnchanged
  <2>2. poolHand \in Batch
    BY <2>1 DEF PlaceInv, HoldersAgree, TypeOK
  <2>3. io[poolHand] = "none" /\ ~Settled(poolHand)
    BY <2>2, AtIsAlone DEF At, Place
  <2>4. ASSUME NEW b \in Batch
        PROVE  /\ posts'[b] <= Retries + 1
               /\ ~Settled(b) => /\ attemptCount[b] <= Retries
                                 /\ posts'[b] = attemptCount[b] + (IF io'[b] = "sending" THEN 1 ELSE 0)
    <3>1. CASE b = poolHand
      <4>1. posts[b] = attemptCount[b] /\ attemptCount[b] <= Retries
        BY <1>0, <2>3, <3>1 DEF AttemptsCounted
      <4>2. posts'[b] = posts[b] + 1 /\ io'[b] = "sending"
        BY <1>0, <2>1, <3>1
      <4>. QED BY <1>0, <4>1, <4>2
    <3>2. CASE b # poolHand
      BY <1>0, <2>1, <3>2 DEF AttemptsCounted
    <3>. QED BY <3>1, <3>2
  <2>. QED BY <2>1, <2>4 DEF AttemptsCounted, Settled
<1>3. ASSUME NEW b \in Batch, UNCHANGED posts,
             \A x \in Batch : x # b =>
               result'[x] = result[x] /\ attemptCount'[x] = attemptCount[x] /\ io'[x] = io[x],
             \/ result'[b] # "pending"
             \/ /\ result'[b] = result[b] /\ io[b] = "sending" /\ io'[b] = "retrying"
                /\ attemptCount[b] < Retries /\ attemptCount'[b] = attemptCount[b] + 1
             \/ result'[b] = result[b] /\ io[b] = "retrying" /\ io'[b] = "none"
                /\ attemptCount'[b] = attemptCount[b]
      PROVE  AttemptsCounted'
  <2>1. ASSUME NEW x \in Batch, x # b
        PROVE  /\ posts'[x] <= Retries + 1
               /\ result'[x] = "pending" => /\ attemptCount'[x] <= Retries
                      /\ posts'[x] = attemptCount'[x] + (IF io'[x] = "sending" THEN 1 ELSE 0)
    BY <1>3, <2>1 DEF AttemptsCounted, Settled
  <2>2. /\ posts'[b] <= Retries + 1
        /\ result'[b] = "pending" => /\ attemptCount'[b] <= Retries
               /\ posts'[b] = attemptCount'[b] + (IF io'[b] = "sending" THEN 1 ELSE 0)
    <3>1. /\ posts[b] <= Retries + 1
          /\ result[b] = "pending" => /\ attemptCount[b] <= Retries
                 /\ posts[b] = attemptCount[b] + (IF io[b] = "sending" THEN 1 ELSE 0)
      BY DEF AttemptsCounted, Settled
    <3>2. posts[b] \in Nat /\ attemptCount[b] \in Nat
      BY <1>0
    <3>. QED BY <1>0, <1>3, <3>1, <3>2
  <2>. QED BY <2>1, <2>2 DEF AttemptsCounted, Settled
<1>4. ASSUME NEW b \in Batch, Answer(b) \/ SendToRetryQueue(b) PROVE AttemptsCounted'
  <2>0. UNCHANGED posts
    BY <1>4 DEF Answer, SendSucceeds, SendFailsAfterShutDown, SendFailsForGood, SendFailsAndRetries,
                SendFailsExhausted, SendToRetryQueue, Settle, WorkerUnchanged
  <2>1. CASE SendFailsAndRetries(b)
    BY <1>0, <1>3, <2>0, <2>1 DEF SendFailsAndRetries
  <2>2. CASE SendToRetryQueue(b)
    BY <1>0, <1>3, <2>0, <2>2 DEF SendToRetryQueue
  <2>3. CASE Answer(b) /\ ~SendFailsAndRetries(b)
    <3>1. PICK r \in {"success", "fail"} : Settle(b, r)
      BY <2>3 DEF Answer, SendSucceeds, SendFailsAfterShutDown, SendFailsForGood, SendFailsExhausted
    <3>2. \A x \in Batch : x # b => attemptCount'[x] = attemptCount[x]
      BY <1>0, <2>3 DEF Answer, SendSucceeds, SendFailsAfterShutDown, SendFailsForGood, SendFailsExhausted
    <3>3. /\ result'[b] # "pending"
          /\ \A x \in Batch : x # b => result'[x] = result[x] /\ io'[x] = io[x]
      BY <1>0, <3>1 DEF Settle
    <3>. QED BY <1>3, <2>0, <3>2, <3>3
  <2>. QED BY <1>4, <2>1, <2>2, <2>3
<1>5. CASE MoverNext
  BY <1>1, <1>5 DEF MoverNext, MoverLoop, MoverUnlock, GetRetryBatch, MoverResendDone, MoverSend,
                    MoverResend, MoverUnchanged, batchVars
<1>6. CASE PopTask \/ PoolIdle \/ CountTask
  BY <1>1, <1>6 DEF PopTask, PoolIdle, CountTask, PoolUnchanged
<1>7. CASE ReleaseSlot \/ FinishTask
  BY <1>1, <1>7 DEF ReleaseSlot, FinishTask, WorkerUnchanged
<1>8. CASE CloseNext
  BY <1>1, <1>8 DEF CloseNext, BeginClose, SetAccumulatorFlag, SetRetryQueueFlag, MoverEnded,
                    PoolEnded, WorkersEnded, PollTaskCount, PollQueue, TimeIsUp, PollAgain,
                    CloserGoes, CloseUnchanged, batchVars
<1>9. ASSUME NEW c \in Call, PassWaitTime(c) \/ SleepInWaitTime(c) \/ AddLogToProducerBatch(c)
      PROVE  AttemptsCounted'
  BY <1>1, <1>9 DEF PassWaitTime, SleepInWaitTime, AddLogToProducerBatch, OpenBatch, AddLog,
                    AddLogAndSend, SendAndOpenBatch, EnterLocked, batchVars
<1>10. CASE (\E b \in Batch : TimePasses(b)) \/ Terminated \/ UNCHANGED vars
  BY <1>1, <1>10 DEF TimePasses, Terminated, vars, batchVars
<1>. QED BY <1>2, <1>4, <1>5, <1>6, <1>7, <1>8, <1>9, <1>10 DEF Next, PoolNext, WorkerNext

\* No batch is posted more than Retries + 1 times, whatever path it takes.
THEOREM AttemptsAreBounded == Spec => []AttemptsBounded
<1>1. Init => PlaceInv /\ AttemptsCounted
  <2>1. Init => AttemptsCounted
    BY ProducerAssumption DEF Init, AttemptsCounted, Settled, ProducerAssumption
  <2>. QED BY <2>1, PlaceInit
<1>2. (PlaceInv /\ AttemptsCounted) /\ [Next]_vars => (PlaceInv /\ AttemptsCounted)'
  BY PlaceStep, AttemptsStep
<1>3. PlaceInv /\ AttemptsCounted => AttemptsBounded
  BY DEF AttemptsCounted, AttemptsBounded
<1>. QED BY <1>1, <1>2, <1>3, PTL DEF Spec

----------------------------------------------------------------------------
(* Closing *)

\* SafeClose leaves its waits in the order dispatcher, then workers, so no new
\* goroutine starts after the WaitGroup was found at zero.
CloseOrder ==
  /\ closer \in {"waitWorkers", "safeClosed"} => poolPc = "done"
  /\ closer = "safeClosed" => waitGroup = 0

QuietInv == PlaceInv /\ Counted /\ CloseOrder

\* After SafeClose there is no goroutine in any part of its work.
LEMMA NobodyWorks ==
  ASSUME QuietInv, closer = "safeClosed"
  PROVE  /\ poolPc = "done" /\ released = 0 /\ returning = 0
         /\ \A b \in Batch : io[b] = "none"
<1>1. /\ Cardinality(Busy) \in Nat /\ IsFiniteSet(Busy) /\ returning \in Nat /\ released \in Nat
      /\ maxIoWorker \in Int
  BY BusyFinite DEF QuietInv, PlaceInv, TypeOK
<1>2. Cardinality(Busy) = 0 /\ returning = 0 /\ released = 0
  <2>1. waitGroup = 0 /\ waitGroup = maxIoWorker + released /\ maxIoWorker = Cardinality(Busy) + returning
    BY DEF QuietInv, Counted, CloseOrder
  <2>2. ASSUME NEW x \in Nat, NEW y \in Nat, NEW z \in Nat, (x + y) + z = 0
        PROVE  x = 0 /\ y = 0 /\ z = 0
    BY <2>2
  <2>. QED BY <1>1, <2>1, <2>2
<1>3. Busy = {}
  BY <1>1, <1>2, FS_EmptySet
<1>. QED BY <1>2, <1>3 DEF Busy, QuietInv, CloseOrder

LEMMA CloseOrderStep == QuietInv /\ [Next]_vars => CloseOrder'
<1>. SUFFICES ASSUME QuietInv, [Next]_vars PROVE CloseOrder'
  OBVIOUS
<1>0. CloseOrder
  BY DEF QuietInv
<1>1. ASSUME UNCHANGED <<closer, poolPc, waitGroup>> PROVE CloseOrder'
  BY <1>0, <1>1 DEF CloseOrder
<1>2. CASE PoolNext
  <2>1. poolPc # "done" /\ UNCHANGED closer
    BY <1>2 DEF PoolNext, PopTask, PoolIdle, CountTask, StartGoroutine, PoolUnchanged, closeVars
  <2>. QED BY <1>0, <2>1 DEF CloseOrder
<1>3. CASE WorkerNext
  <2>1. UNCHANGED <<closer, poolPc>>
    BY <1>3 DEF WorkerNext, Answer, SendSucceeds, SendFailsAfterShutDown, SendFailsForGood,
                SendFailsAndRetries, SendFailsExhausted, SendToRetryQueue, ReleaseSlot, FinishTask,
                Settle, WorkerUnchanged, closeVars, poolVars
  <2>2. CASE FinishTask
    <3>1. closer # "safeClosed"
      BY <2>2, NobodyWorks DEF FinishTask, QuietInv, PlaceInv, TypeOK
    <3>. QED BY <1>0, <2>1, <3>1 DEF CloseOrder
  <2>3. CASE ~FinishTask
    BY <1>1, <1>3, <2>1, <2>3
       DEF WorkerNext, Answer, SendSucceeds, SendFailsAfterShutDown, SendFailsForGood,
           SendFailsAndRetries, SendFailsExhausted, SendToRetryQueue, ReleaseSlot, Settle, slotVars
  <2>. QED BY <2>2, <2>3
<1>4. CASE CloseNext
  <2>1. UNCHANGED <<poolPc, waitGroup>>
    BY <1>4 DEF CloseNext, BeginClose, SetAccumulatorFlag, SetRetryQueueFlag, MoverEnded, PoolEnded,
                WorkersEnded, PollTaskCount, PollQueue, TimeIsUp, PollAgain, CloserGoes,
                CloseUnchanged, poolVars, slotVars
  <2>2. CASE PoolEnded
    BY <2>1, <2>2 DEF PoolEnded, CloserGoes, CloseOrder
  <2>3. CASE WorkersEnded
    BY <1>0, <2>1, <2>3 DEF WorkersEnded, CloserGoes, CloseOrder
  <2>4. CASE ~PoolEnded /\ ~WorkersEnded
    <3>1. closer' \notin {"waitWorkers", "safeClosed"}
      BY <1>4, <2>4 DEF CloseNext, BeginClose, SetAccumulatorFlag, SetRetryQueueFlag, MoverEnded,
                        PollTaskCount, PollQueue, TimeIsUp, PollAgain, CloserGoes
    <3>. QED BY <3>1 DEF CloseOrder
  <2>. QED BY <2>2, <2>3, <2>4
<1>5. CASE MoverNext
  BY <1>1, <1>5 DEF MoverNext, MoverLoop, MoverUnlock, GetRetryBatch, MoverResendDone, MoverSend,
                    MoverResend, MoverUnchanged, poolVars, slotVars, closeVars
<1>6. ASSUME NEW c \in Call, PassWaitTime(c) \/ SleepInWaitTime(c) \/ AddLogToProducerBatch(c)
      PROVE  CloseOrder'
  BY <1>1, <1>6 DEF PassWaitTime, SleepInWaitTime, AddLogToProducerBatch, OpenBatch, AddLog,
                    AddLogAndSend, SendAndOpenBatch, EnterLocked, poolVars, slotVars, closeVars
<1>7. CASE (\E b \in Batch : TimePasses(b)) \/ Terminated \/ UNCHANGED vars
  BY <1>1, <1>7 DEF TimePasses, Terminated, vars, poolVars, slotVars, closeVars
<1>. QED BY <1>2, <1>3, <1>4, <1>5, <1>6, <1>7 DEF Next

LEMMA QuietStep == QuietInv /\ [Next]_vars =>
                     [closer = "safeClosed" => posts' = posts /\ answered' = answered]_vars
<1>. SUFFICES ASSUME QuietInv, [Next]_vars, closer = "safeClosed"
              PROVE  posts' = posts /\ answered' = answered
  OBVIOUS
<1>1. poolPc = "done" /\ \A b \in Batch : io[b] = "none"
  BY NobodyWorks
<1>2. CASE PoolNext
  BY <1>1, <1>2 DEF PoolNext, PopTask, PoolIdle, CountTask, StartGoroutine
<1>3. CASE WorkerNext
  BY <1>1, <1>3 DEF WorkerNext, Answer, SendSucceeds, SendFailsAfterShutDown, SendFailsForGood,
                    SendFailsAndRetries, SendFailsExhausted, SendToRetryQueue, ReleaseSlot,
                    FinishTask, WorkerUnchanged
<1>4. CASE MoverNext
  BY <1>4 DEF MoverNext, MoverLoop, MoverUnlock, GetRetryBatch, MoverResendDone, MoverSend,
              MoverResend, MoverUnchanged, batchVars
<1>5. CASE CloseNext
  BY <1>5 DEF CloseNext, BeginClose, SetAccumulatorFlag, SetRetryQueueFlag, MoverEnded, PoolEnded,
              WorkersEnded, PollTaskCount, PollQueue, TimeIsUp, PollAgain, CloserGoes,
              CloseUnchanged, batchVars
<1>6. ASSUME NEW c \in Call, PassWaitTime(c) \/ SleepInWaitTime(c) \/ AddLogToProducerBatch(c)
      PROVE  posts' = posts /\ answered' = answered
  BY <1>6 DEF PassWaitTime, SleepInWaitTime, AddLogToProducerBatch, OpenBatch, AddLog,
              AddLogAndSend, SendAndOpenBatch, EnterLocked, batchVars
<1>7. CASE (\E b \in Batch : TimePasses(b)) \/ Terminated \/ UNCHANGED vars
  BY <1>7 DEF TimePasses, Terminated, vars, batchVars
<1>. QED BY <1>2, <1>3, <1>4, <1>5, <1>6, <1>7 DEF Next

\* After SafeClose has returned nothing is posted and no callback is made.
THEOREM QuietAfterClose == Spec => QuietAfterSafeClose
<1>1. Init => QuietInv
  BY PlaceInit, CountedInit DEF QuietInv, CloseOrder, Init
<1>2. QuietInv /\ [Next]_vars => QuietInv'
  BY PlaceStep, CountedStep, CloseOrderStep DEF QuietInv
<1>3. QuietInv /\ [Next]_vars =>
        [closer = "safeClosed" => posts' = posts /\ answered' = answered]_vars
  BY QuietStep
<1>. QED BY <1>1, <1>2, <1>3, PTL DEF Spec, QuietAfterSafeClose
=============================================================================
