------------------------- MODULE LogProducerProofs -------------------------
(***************************************************************************)
(* Theorems about LogProducer, for any set of calls and keys, any sizes    *)
(* and any limits that ProducerAssumption allows.                          *)
(***************************************************************************)
EXTENDS LogProducer, FiniteSetTheorems, TLAPS

----------------------------------------------------------------------------
(* Sequences without repetitions *)

\* What PushBack does to the tasks of the queue.
LEMMA AppendTask ==
  ASSUME NEW q \in Seq(Call), NEW e \in Call
  PROVE  /\ Append(q, e) \in Seq(Call)
         /\ \A b : Queued(Append(q, e), b) <=> Queued(q, b) \/ b = e
         /\ NoRepeats(q) /\ ~Queued(q, e) => NoRepeats(Append(q, e))
BY DEF Queued, NoRepeats

\* What removing the front does to them.
LEMMA RemoveTask ==
  ASSUME NEW q \in Seq(Call), q # <<>>
  PROVE  /\ Head(q) \in Call /\ Tail(q) \in Seq(Call)
         /\ \A b : Queued(q, b) <=> Queued(Tail(q), b) \/ b = Head(q)
         /\ NoRepeats(q) => NoRepeats(Tail(q)) /\ ~Queued(Tail(q), Head(q))
<1>1. Head(q) \in Call /\ Tail(q) \in Seq(Call) /\ Len(Tail(q)) = Len(q) - 1
  OBVIOUS
<1>2. ASSUME NEW b, Queued(q, b) PROVE Queued(Tail(q), b) \/ b = Head(q)
  <2>1. PICK i \in 1 .. Len(q) : q[i] = b
    BY <1>2 DEF Queued
  <2>2. CASE i = 1
    BY <2>1, <2>2
  <2>3. CASE i # 1
    <3>1. i - 1 \in 1 .. Len(Tail(q)) /\ Tail(q)[i - 1] = b
      BY <1>1, <2>1, <2>3
    <3>. QED BY <3>1 DEF Queued
  <2>. QED BY <2>2, <2>3
<1>3. ASSUME NEW b, Queued(Tail(q), b) PROVE Queued(q, b)
  <2>1. PICK i \in 1 .. Len(Tail(q)) : Tail(q)[i] = b
    BY <1>3 DEF Queued
  <2>2. i + 1 \in 1 .. Len(q) /\ q[i + 1] = b
    BY <1>1, <2>1
  <2>. QED BY <2>2 DEF Queued
<1>4. Queued(q, Head(q))
  <2>1. 1 \in 1 .. Len(q) /\ q[1] = Head(q)
    OBVIOUS
  <2>. QED BY <2>1 DEF Queued
<1>5. NoRepeats(q) => NoRepeats(Tail(q)) /\ ~Queued(Tail(q), Head(q))
  BY <1>1 DEF NoRepeats, Queued
<1>. QED BY <1>1, <1>2, <1>3, <1>4, <1>5

----------------------------------------------------------------------------
(* Type correctness *)

LEMMA ExceptType ==
  ASSUME NEW S, NEW T, NEW f \in [S -> T], NEW x, NEW e \in T
  PROVE  [f EXCEPT ![x] = e] \in [S -> T]
OBVIOUS

LEMMA CountType ==
  ASSUME NEW S, NEW f \in [S -> Nat], NEW x \in S, NEW n \in Nat
  PROVE  [f EXCEPT ![x] = @ + n] \in [S -> Nat]
OBVIOUS

LEMMA ReleaseType ==
  ASSUME TypeOK, NEW b \in Batch, ReleaseSize(b)
  PROVE  producerLogGroupSize' \in Int
<1>1. totalDataSize[b] \in Nat /\ producerLogGroupSize \in Int
  BY DEF TypeOK
<1>. QED BY <1>1 DEF ReleaseSize

LEMMA MembersFinite ==
  ASSUME NEW b PROVE Cardinality(Members(b)) \in Nat
BY ProducerAssumption, FS_Subset, FS_CardinalityType DEF ProducerAssumption, Members

LEMMA SizesAreNat ==
  ASSUME NEW c \in Call
  PROVE  KeyOf[c] \in Key /\ LogSize[c] \in Nat /\ GroupSize[c] \in Nat
BY ProducerAssumption DEF ProducerAssumption

LEMMA TypeInit == Init => TypeOK
BY ProducerAssumption DEF ProducerAssumption, Batch, Init, TypeOK, CallState, Flag, MoverState, PoolState, IoState, CloserState

LEMMA SizeWithIsNat ==
  ASSUME totalDataSize \in [Batch -> Nat], NEW c \in Call, Found(c) \in Batch
  PROVE  SizeWith(c) \in Nat
<1>1. totalDataSize[Found(c)] \in Nat
  OBVIOUS
<1>2. LogSize[c] \in Nat
  BY SizesAreNat
<1>3. ASSUME NEW x \in Nat, NEW y \in Nat PROVE x + y \in Nat
  OBVIOUS
<1>. QED BY <1>1, <1>2, <1>3 DEF SizeWith

LEMMA TypeSend ==
  ASSUME TypeOK, NEW c \in Call,
         PassWaitTime(c) \/ SleepInWaitTime(c) \/ AddLogToProducerBatch(c)
  PROVE  TypeOK'
<1>. USE DEF Batch, TypeOK
<1>0. KeyOf[c] \in Key /\ LogSize[c] \in Nat /\ GroupSize[c] \in Nat
  BY SizesAreNat
<1>1. CASE PassWaitTime(c)
  BY <1>1 DEF PassWaitTime, CallState, moverVars, poolVars, slotVars, batchVars, closeVars
<1>2. CASE SleepInWaitTime(c)
  <2>0. polls[c] + 1 \in Nat
    OBVIOUS
  <2>1. polls' \in [Call -> Nat]
    BY <1>2, <2>0, ExceptType DEF SleepInWaitTime
  <2>2. call' \in [Call -> CallState]
    BY <1>2 DEF SleepInWaitTime, CallState
  <2>. QED BY <1>2, <2>1, <2>2 DEF SleepInWaitTime, moverVars, poolVars, slotVars, batchVars, closeVars
<1>3. CASE OpenBatch(c)
  BY <1>3, <1>0 DEF OpenBatch, EnterLocked, CallState, moverVars, poolVars, slotVars, batchVars, closeVars
<1>4. CASE AddLog(c)
  <2>0. Found(c) \in Batch
    BY <1>4, <1>0 DEF AddLog, Found
  <2>1. SizeWith(c) \in Nat
    BY <2>0, SizeWithIsNat
  <2>2. producerLogGroupSize' \in Int
    BY <1>4, <1>0 DEF AddLog
  <2>3. totalDataSize' \in [Batch -> Nat] /\ batchOf' \in [Call -> Batch \cup {NoBatch}]
    BY <1>4, <2>0, <2>1, ExceptType DEF AddLog
  <2>. QED BY <1>4, <2>2, <2>3 DEF AddLog, EnterLocked, CallState, moverVars, poolVars, slotVars, batchVars, closeVars
<1>5. CASE AddLogAndSend(c)
  <2>0. Found(c) \in Batch
    BY <1>5, <1>0 DEF AddLogAndSend, Found
  <2>1. SizeWith(c) \in Nat
    BY <2>0, SizeWithIsNat
  <2>2. producerLogGroupSize' \in Int
    BY <1>5, <1>0 DEF AddLogAndSend
  <2>3. totalDataSize' \in [Batch -> Nat] /\ batchOf' \in [Call -> Batch \cup {NoBatch}]
    BY <1>5, <2>0, <2>1, <1>0, ExceptType DEF AddLogAndSend
  <2>4. queue' \in Seq(Batch)
    BY <1>5, <2>0, AppendTask DEF AddLogAndSend, AddTask
  <2>. QED BY <1>5, <2>1, <2>2, <2>3, <2>4 DEF AddLogAndSend, EnterLocked, CallState, moverVars, poolVars, slotVars, batchVars, closeVars
<1>6. CASE SendAndOpenBatch(c)
  <2>0. Found(c) \in Batch
    BY <1>6, <1>0 DEF SendAndOpenBatch, Found
  <2>1. SizeWith(c) \in Nat
    BY <2>0, SizeWithIsNat
  <2>2. producerLogGroupSize' \in Int
    BY <1>6, <1>0 DEF SendAndOpenBatch
  <2>3. totalDataSize' \in [Batch -> Nat] /\ batchOf' \in [Call -> Batch \cup {NoBatch}]
    BY <1>6, <2>0, <2>1, <1>0, ExceptType DEF SendAndOpenBatch
  <2>4. queue' \in Seq(Batch)
    BY <1>6, <2>0, AppendTask DEF SendAndOpenBatch, AddTask
  <2>. QED BY <1>6, <2>1, <2>2, <2>3, <2>4 DEF SendAndOpenBatch, EnterLocked, CallState, moverVars, poolVars, slotVars, batchVars, closeVars
<1>. QED BY <1>1, <1>2, <1>3, <1>4, <1>5, <1>6 DEF AddLogToProducerBatch

LEMMA TypeMover == ASSUME TypeOK, MoverNext PROVE TypeOK'
<1>. USE DEF Batch, TypeOK, MoverUnchanged, moverVars, poolVars, slotVars, batchVars, closeVars, MoverState
<1>1. CASE MoverLoop
  BY <1>1 DEF MoverLoop
<1>2. CASE MoverUnlock
  BY <1>2 DEF MoverUnlock
<1>3. CASE GetRetryBatch
  BY <1>3 DEF GetRetryBatch
<1>4. CASE MoverResendDone
  BY <1>4 DEF MoverResendDone
<1>5. ASSUME NEW k \in Key, MoverSend(k) PROVE TypeOK'
  <2>1. logGroupData[k] \in Call
    BY <1>5 DEF MoverSend
  <2>. QED BY <1>5, <2>1, AppendTask DEF MoverSend, AddTask
<1>6. ASSUME NEW b \in Batch, MoverResend(b) PROVE TypeOK'
  BY <1>6, AppendTask DEF MoverResend, AddTask
<1>. QED BY MoverNext, <1>1, <1>2, <1>3, <1>4, <1>5, <1>6 DEF MoverNext

LEMMA TypePool == ASSUME TypeOK, PoolNext PROVE TypeOK'
<1>. USE DEF Batch, TypeOK, PoolUnchanged, accumulatorVars, moverVars, poolVars, slotVars, closeVars, PoolState
<1>1. CASE PopTask
  <2>1. queue' \in Seq(Batch) /\ poolHand' \in Batch \cup {NoBatch}
    BY <1>1, RemoveTask DEF PopTask
  <2>. QED BY <1>1, <2>1 DEF PopTask
<1>2. CASE PoolIdle
  BY <1>2 DEF PoolIdle
<1>3. CASE CountTask
  BY <1>3 DEF CountTask
<1>4. CASE StartGoroutine
  <2>1. io' \in [Batch -> IoState]
    BY <1>4 DEF StartGoroutine, IoState
  <2>2. posts' \in [Batch -> Nat]
    <3>1. CASE poolHand \in Batch
      BY <1>4, <3>1 DEF StartGoroutine
    <3>2. CASE poolHand \notin Batch
      BY <1>4, <3>2 DEF StartGoroutine
    <3>. QED BY <3>1, <3>2
  <2>. QED BY <1>4, <2>1, <2>2 DEF StartGoroutine
<1>. QED BY PoolNext, <1>1, <1>2, <1>3, <1>4 DEF PoolNext

LEMMA TypeWorker == ASSUME TypeOK, WorkerNext PROVE TypeOK'
<1>. USE DEF Batch, TypeOK, WorkerUnchanged, accumulatorVars, moverVars, poolVars, slotVars, closeVars, IoState
<1>1. ASSUME NEW b \in Batch, Answer(b) PROVE TypeOK'
  <2>. DEFINE Types == /\ result' \in [Batch -> {"pending", "success", "fail"}]
                      /\ answered' \in [Call -> Nat]
                      /\ io' \in [Batch -> IoState]
                      /\ returning' \in Nat
  <2>0. ASSUME NEW r \in {"success", "fail"}, Settle(b, r) PROVE Types
    BY <2>0 DEF Settle
  <2>1. CASE SendSucceeds(b)
    <3>1. Types
      BY <2>0, <2>1 DEF SendSucceeds
    <3>2. producerLogGroupSize' \in Int
      BY <1>1, <2>1, ReleaseType DEF SendSucceeds
    <3>. QED BY <2>1, <3>1, <3>2 DEF SendSucceeds, Settle
  <2>2. CASE SendFailsAfterShutDown(b)
    <3>1. Types
      BY <2>0, <2>2 DEF SendFailsAfterShutDown
    <3>2. attemptCount' \in [Batch -> Nat]
      <4>1. attemptCount \in [Batch -> Nat] /\ Cardinality(Members(b)) \in Nat
        BY MembersFinite
      <4>2. attemptCount' = [attemptCount EXCEPT ![b] = @ + Cardinality(Members(b))]
        BY <2>2 DEF SendFailsAfterShutDown
      <4>. QED BY <1>1, <4>1, <4>2, CountType
    <3>. QED BY <2>2, <3>1, <3>2 DEF SendFailsAfterShutDown, Settle
  <2>3. CASE SendFailsForGood(b)
    <3>1. Types
      BY <2>0, <2>3 DEF SendFailsForGood
    <3>2. producerLogGroupSize' \in Int
      BY <1>1, <2>3, ReleaseType DEF SendFailsForGood
    <3>4. attemptCount' \in [Batch -> Nat]
      <4>1. attemptCount \in [Batch -> Nat]
        OBVIOUS
      <4>2. attemptCount' = [attemptCount EXCEPT ![b] = @ + 1]
        BY <2>3 DEF SendFailsForGood
      <4>. QED BY <1>1, <4>1, <4>2, CountType
    <3>. QED BY <2>3, <3>1, <3>2, <3>4 DEF SendFailsForGood, Settle
  <2>4. CASE SendFailsAndRetries(b)
    <3>1. attemptCount' \in [Batch -> Nat]
      <4>1. attemptCount \in [Batch -> Nat]
        OBVIOUS
      <4>2. attemptCount' = [attemptCount EXCEPT ![b] = @ + 1]
        BY <2>4 DEF SendFailsAndRetries
      <4>. QED BY <1>1, <4>1, <4>2, CountType
    <3>2. io' \in [Batch -> IoState]
      BY <2>4 DEF SendFailsAndRetries
    <3>. QED BY <2>4, <3>1, <3>2 DEF SendFailsAndRetries
  <2>5. CASE SendFailsExhausted(b)
    <3>1. Types
      BY <2>0, <2>5 DEF SendFailsExhausted
    <3>2. producerLogGroupSize' \in Int /\ attemptCount' \in [Batch -> Nat]
      BY <1>1, <2>5, ReleaseType DEF SendFailsExhausted
    <3>. QED BY <2>5, <3>1, <3>2 DEF SendFailsExhausted, Settle
  <2>. QED BY <1>1, <2>1, <2>2, <2>3, <2>4, <2>5 DEF Answer
<1>2. ASSUME NEW b \in Batch, SendToRetryQueue(b) PROVE TypeOK'
  <2>1. io' \in [Batch -> IoState] /\ returning' \in Nat
    BY <1>2 DEF SendToRetryQueue
  <2>. QED BY <1>2, <2>1 DEF SendToRetryQueue
<1>3. CASE ReleaseSlot
  BY <1>3 DEF ReleaseSlot
<1>4. CASE FinishTask
  BY <1>4 DEF FinishTask
<1>. QED BY WorkerNext, <1>1, <1>2, <1>3, <1>4 DEF WorkerNext

LEMMA TypeClose == ASSUME TypeOK, CloseNext PROVE TypeOK'
<1>. USE DEF Batch, TypeOK, CloseUnchanged, CloserGoes, Raise, accumulatorVars, moverVars, poolVars, slotVars, batchVars, CloserState, Flag
<1>1. ASSUME NEW mode \in {"Close", "SafeClose"}, BeginClose(mode) PROVE TypeOK'
  BY <1>1 DEF BeginClose
<1>2. CASE SetAccumulatorFlag \/ SetRetryQueueFlag \/ MoverEnded
  BY <1>2 DEF SetAccumulatorFlag, SetRetryQueueFlag, MoverEnded
<1>3. CASE PoolEnded \/ WorkersEnded \/ PollTaskCount \/ PollQueue \/ TimeIsUp \/ PollAgain
  BY <1>3 DEF PoolEnded, WorkersEnded, PollTaskCount, PollQueue, TimeIsUp, PollAgain
<1>. QED BY CloseNext, <1>1, <1>2, <1>3 DEF CloseNext

LEMMA TypeStep == TypeOK /\ [Next]_vars => TypeOK'
<1>. SUFFICES ASSUME TypeOK, [Next]_vars PROVE TypeOK'
  OBVIOUS
<1>1. ASSUME NEW b \in Batch, TimePasses(b) PROVE TypeOK'
  BY <1>1 DEF Batch, TypeOK, TimePasses, accumulatorVars, moverVars, poolVars, slotVars, batchVars, closeVars
<1>2. CASE UNCHANGED vars
  BY <1>2 DEF Batch, TypeOK, vars, accumulatorVars, moverVars, poolVars, slotVars, batchVars, closeVars
<1>. QED BY <1>1, <1>2, TypeSend, TypeMover, TypePool, TypeWorker, TypeClose DEF Next, Terminated

\* Every variable keeps its type: in particular no counter of goroutines in
\* closeSendTask falls below zero and the queue holds batches only.
THEOREM TypeCorrect == Spec => []TypeOK
<1>1. Init => TypeOK
  BY TypeInit
<1>2. TypeOK /\ [Next]_vars => TypeOK'
  BY TypeStep
<1>. QED BY <1>1, <1>2, PTL DEF Spec

----------------------------------------------------------------------------
(* Where a batch is *)

placeVars == <<batchOf, logGroupData, moverHand, retryQueue, queue, poolHand, io, result>>

\* What OnePlace needs to be inductive: the program counters say who holds a
\* batch, and the accumulator files a batch under its own key.
HoldersAgree ==
  /\ poolPc \in {"start", "slot"} <=> poolHand # NoBatch
  /\ moverHand # {} => moverPc \in {"resend", "finalSend"}
  /\ \A k \in Key : logGroupData[k] # NoBatch => KeyOf[logGroupData[k]] = k

PlaceInv == TypeOK /\ OnePlace /\ AcceptedIsHeld /\ HoldersAgree

\* A step that puts the batches of B where "to" says, and leaves all others
\* where they were, keeps every batch in one place.
LEMMA MovesKeepOnePlace ==
  ASSUME OnePlace, NEW B \in SUBSET Batch, NEW to \in [Batch -> Place],
         \A b \in Batch : Born(b)' <=> b \in B \/ Born(b),
         \A b \in Batch : \A p \in Place : At(b, p)' <=> IF b \in B THEN p = to[b] ELSE At(b, p),
         NoRepeats(queue)'
  PROVE  OnePlace'
<1>1. ASSUME NEW b \in Batch PROVE Born(b)' <=> \E p \in Place : At(b, p)'
  BY <1>1 DEF OnePlace
<1>2. ASSUME NEW b \in Batch, NEW p \in Place, NEW q \in Place, At(b, p)', At(b, q)'
      PROVE  p = q
  BY <1>2 DEF OnePlace
<1>. QED BY <1>1, <1>2 DEF OnePlace

LEMMA StayingKeepsOnePlace ==
  ASSUME OnePlace, UNCHANGED placeVars PROVE OnePlace'
BY DEF placeVars, OnePlace, Born, At, Settled, Queued, NoRepeats

\* The three facts a step must keep beside the types, when it touches no place,
\* no call and no program counter that holds a batch.
LEMMA StayingKeepsPlaceInv ==
  ASSUME PlaceInv, TypeOK', UNCHANGED placeVars,
         \A c \in Call : call'[c] = "accepted" <=> call[c] = "accepted",
         poolPc' \in {"start", "slot"} <=> poolPc \in {"start", "slot"},
         moverPc' = moverPc \/ moverHand = {}
  PROVE  PlaceInv'
<1>1. OnePlace'
  BY StayingKeepsOnePlace DEF PlaceInv
<1>2. AcceptedIsHeld'
  BY DEF PlaceInv, placeVars, AcceptedIsHeld, Born
<1>3. HoldersAgree'
  BY DEF PlaceInv, placeVars, HoldersAgree
<1>. QED BY <1>1, <1>2, <1>3 DEF PlaceInv

\* A batch in the accumulator is born, and nowhere else.
LEMMA FoundIsBorn ==
  ASSUME PlaceInv, NEW k \in Key, logGroupData[k] # NoBatch
  PROVE  /\ logGroupData[k] \in Batch /\ KeyOf[logGroupData[k]] = k
         /\ Born(logGroupData[k])
         /\ \A p \in Place : At(logGroupData[k], p) <=> p = "accumulator"
<1>. DEFINE b == logGroupData[k]
<1>1. b \in Batch /\ KeyOf[b] = k
  BY DEF PlaceInv, TypeOK, HoldersAgree
<1>2. "accumulator" \in Place /\ At(b, "accumulator")
  BY <1>1 DEF At, Place
<1>. QED BY <1>1, <1>2 DEF PlaceInv, OnePlace

\* The accumulator's map at a batch, without the other types.
LEMMA BatchKeys ==
  ASSUME PlaceInv
  PROVE  /\ NoBatch \notin Batch /\ KeyOf \in [Batch -> Key]
         /\ logGroupData \in [Key -> Batch \cup {NoBatch}]
BY ProducerAssumption DEF PlaceInv, TypeOK, Batch, ProducerAssumption

\* addTask puts a batch that is not in the queue at its end.
LEMMA AddTaskQueues ==
  ASSUME PlaceInv, NEW x \in Batch, ~At(x, "queue"), AddTask(x)
  PROVE  /\ NoRepeats(queue)'
         /\ \A b \in Batch : Queued(queue, b)' <=> Queued(queue, b) \/ b = x
<1>1. queue \in Seq(Call) /\ NoRepeats(queue) /\ ~Queued(queue, x) /\ x \in Call
  BY DEF PlaceInv, OnePlace, TypeOK, At, Batch
<1>. QED BY <1>1, AppendTask DEF AddTask

LEMMA PlaceSend ==
  ASSUME PlaceInv, TypeOK', NEW c \in Call,
         PassWaitTime(c) \/ SleepInWaitTime(c) \/ AddLogToProducerBatch(c)
  PROVE  PlaceInv'
<1>0. KeyOf[c] \in Key
  BY SizesAreNat
<1>1. CASE PassWaitTime(c) \/ SleepInWaitTime(c)
  <2>1. UNCHANGED placeVars /\ UNCHANGED poolPc /\ moverPc' = moverPc
    BY <1>1 DEF PassWaitTime, SleepInWaitTime, placeVars, moverVars, poolVars, batchVars
  <2>2. \A d \in Call : call'[d] = "accepted" <=> call[d] = "accepted"
    BY <1>1 DEF PassWaitTime, SleepInWaitTime, PlaceInv, TypeOK
  <2>. QED BY <2>1, <2>2, StayingKeepsPlaceInv
<1>2. ASSUME AddLogToProducerBatch(c) PROVE PlaceInv'
  <2>1. /\ EnterLocked(c)
        /\ call' = [call EXCEPT ![c] = "accepted"]
        /\ UNCHANGED <<moverPc, moverHand, retryQueue, poolHand, poolPc, io, result>>
    BY <1>2 DEF AddLogToProducerBatch, OpenBatch, AddLog, AddLogAndSend, SendAndOpenBatch,
                EnterLocked, moverVars, poolVars, batchVars
  <2>2. batchOf[c] = NoBatch /\ ~Born(c)
    BY <2>1, ProducerAssumption DEF EnterLocked, PlaceInv, AcceptedIsHeld, Born, ProducerAssumption
  <2>3. \A p \in Place : ~At(c, p)
    BY <2>2 DEF PlaceInv, OnePlace, Batch
  <2>4. AcceptedIsHeld'
    <3>1. batchOf' = [batchOf EXCEPT ![c] = c] \/ (batchOf' = [batchOf EXCEPT ![c] = Found(c)] /\ Found(c) # NoBatch)
      BY <1>2 DEF AddLogToProducerBatch, OpenBatch, AddLog, AddLogAndSend, SendAndOpenBatch
    <3>2. ASSUME NEW x \in Batch, x = c \/ Born(x), KeyOf[x] = KeyOf[c],
                 batchOf' = [batchOf EXCEPT ![c] = x]
          PROVE  AcceptedIsHeld'
      <4>1. x \in Call /\ x # NoBatch
        BY ProducerAssumption DEF ProducerAssumption, Batch
      <4>2. batchOf'[x] = x /\ batchOf'[c] = x /\ call'[c] = "accepted"
        BY <2>1, <3>2, <4>1 DEF Born, PlaceInv, TypeOK
      <4>3. ASSUME NEW d \in Call, d # c
            PROVE  /\ call'[d] = call[d] /\ batchOf'[d] = batchOf[d]
                   /\ batchOf[d] # NoBatch => batchOf'[batchOf[d]] = batchOf[d]
        BY <2>1, <2>2, <3>2, <4>3 DEF Born, PlaceInv, TypeOK, AcceptedIsHeld, Batch
      <4>. QED BY <3>2, <4>1, <4>2, <4>3 DEF Born, PlaceInv, AcceptedIsHeld
    <3>3. Found(c) # NoBatch => Found(c) \in Batch /\ KeyOf[Found(c)] = KeyOf[c] /\ Born(Found(c))
      BY <1>0, FoundIsBorn DEF Found
    <3>. QED BY <3>1, <3>2, <3>3 DEF Batch
  <2>5. HoldersAgree'
    <3>1. \/ logGroupData' = logGroupData
          \/ logGroupData' = [logGroupData EXCEPT ![KeyOf[c]] = c]
          \/ logGroupData' = [logGroupData EXCEPT ![KeyOf[c]] = NoBatch]
      BY <1>2 DEF AddLogToProducerBatch, OpenBatch, AddLog, AddLogAndSend, SendAndOpenBatch
    <3>2. ASSUME NEW k \in Key, logGroupData'[k] # NoBatch PROVE KeyOf[logGroupData'[k]] = k
      <4>1. logGroupData \in [Key -> Batch \cup {NoBatch}] /\ (logGroupData[k] # NoBatch => KeyOf[logGroupData[k]] = k)
        BY DEF PlaceInv, TypeOK, HoldersAgree
      <4>2. logGroupData'[k] = logGroupData[k] \/ (k = KeyOf[c] /\ logGroupData'[k] = c)
        BY <1>0, <3>1, <3>2, <4>1
      <4>. QED BY <3>2, <4>1, <4>2
    <3>. QED BY <2>1, <3>2 DEF PlaceInv, HoldersAgree
  <2>6. OnePlace'
    <3>1. CASE OpenBatch(c)
      <4>. DEFINE to == [b \in Batch |-> "accumulator"]
      <4>1. to \in [Batch -> Place] /\ {c} \in SUBSET Batch
        BY DEF Place, Batch
      <4>2. \A b \in Batch : Born(b)' <=> b \in {c} \/ Born(b)
        BY <3>1 DEF OpenBatch, Born, PlaceInv, TypeOK, Batch
      <4>3. NoRepeats(queue)'
        BY <3>1 DEF OpenBatch, PlaceInv, OnePlace
      <4>4. \A b \in Batch : \A p \in Place :
              At(b, p)' <=> IF b \in {c} THEN p = to[b] ELSE At(b, p)
        <5>1. \A b \in Batch : logGroupData'[KeyOf[b]] = b <=> b = c \/ logGroupData[KeyOf[b]] = b
          <6>1. /\ logGroupData[KeyOf[c]] = NoBatch
                /\ logGroupData' = [logGroupData EXCEPT ![KeyOf[c]] = c]
            BY <3>1 DEF OpenBatch, Found
          <6>. QED BY <1>0, <6>1, BatchKeys DEF Batch
        <5>2. queue' = queue
          BY <3>1 DEF OpenBatch
        <5>. QED BY <2>1, <2>3, <5>1, <5>2 DEF At, Settled, Place
      <4>. QED BY <4>1, <4>2, <4>3, <4>4, MovesKeepOnePlace DEF PlaceInv
    <3>2. ASSUME Found(c) # NoBatch
          PROVE  /\ Found(c) \in Batch /\ Found(c) # c /\ KeyOf[Found(c)] = KeyOf[c]
                 /\ Born(Found(c)) /\ logGroupData[KeyOf[c]] = Found(c)
                 /\ \A p \in Place : At(Found(c), p) <=> p = "accumulator"
      BY <1>0, <2>2, <3>2, FoundIsBorn DEF Found
    <3>3. CASE AddLog(c)
      <4>. DEFINE to == [b \in Batch |-> "accumulator"]
      <4>1. to \in [Batch -> Place] /\ {} \in SUBSET Batch
        BY DEF Place
      <4>2. \A b \in Batch : Born(b)' <=> b \in {} \/ Born(b)
        BY <2>2, <3>2, <3>3 DEF AddLog, Born, PlaceInv, TypeOK, Batch
      <4>3. logGroupData' = logGroupData /\ queue' = queue
        BY <3>3 DEF AddLog
      <4>4. NoRepeats(queue)'
        BY <4>3 DEF PlaceInv, OnePlace
      <4>5. \A b \in Batch : \A p \in Place :
              At(b, p)' <=> IF b \in {} THEN p = to[b] ELSE At(b, p)
        BY <2>1, <4>3 DEF At, Settled
      <4>. QED BY <4>1, <4>2, <4>4, <4>5, MovesKeepOnePlace DEF PlaceInv
    <3>4. CASE AddLogAndSend(c)
      <4>. DEFINE to == [b \in Batch |-> "queue"]
      <4>0. Found(c) # NoBatch /\ AddTask(Found(c))
        BY <3>4 DEF AddLogAndSend
      <4>1. to \in [Batch -> Place] /\ {Found(c)} \in SUBSET Batch
        BY <3>2, <4>0 DEF Place
      <4>2. \A b \in Batch : Born(b)' <=> b \in {Found(c)} \/ Born(b)
        BY <2>2, <3>2, <3>4 DEF AddLogAndSend, Born, PlaceInv, TypeOK, Batch
      <4>3. /\ NoRepeats(queue)'
            /\ \A b \in Batch : Queued(queue, b)' <=> Queued(queue, b) \/ b = Found(c)
        BY <3>2, <4>0, AddTaskQueues DEF Place
      <4>4. \A b \in Batch : logGroupData'[KeyOf[b]] = b <=> b # Found(c) /\ logGroupData[KeyOf[b]] = b
        <5>1. logGroupData' = [logGroupData EXCEPT ![KeyOf[c]] = NoBatch]
          BY <3>4 DEF AddLogAndSend
        <5>. QED BY <1>0, <3>2, <4>0, <5>1, BatchKeys
      <4>5. \A b \in Batch : \A p \in Place :
              At(b, p)' <=> IF b \in {Found(c)} THEN p = to[b] ELSE At(b, p)
        BY <2>1, <3>2, <4>0, <4>3, <4>4 DEF At, Settled, Place
      <4>. QED BY <4>1, <4>2, <4>3, <4>5, MovesKeepOnePlace DEF PlaceInv
    <3>5. CASE SendAndOpenBatch(c)
      <4>. DEFINE to == [b \in Batch |-> IF b = c THEN "accumulator" ELSE "queue"]
      <4>0. Found(c) # NoBatch /\ AddTask(Found(c))
        BY <3>5 DEF SendAndOpenBatch
      <4>1. to \in [Batch -> Place] /\ {c, Found(c)} \in SUBSET Batch
        BY <3>2, <4>0 DEF Place, Batch
      <4>2. \A b \in Batch : Born(b)' <=> b \in {c, Found(c)} \/ Born(b)
        <5>1. batchOf' = [batchOf EXCEPT ![c] = c] /\ batchOf \in [Batch -> Batch \cup {NoBatch}]
          BY <3>5 DEF SendAndOpenBatch, PlaceInv, TypeOK, Batch
        <5>. QED BY <3>2, <4>0, <5>1 DEF Born, Batch
      <4>3. /\ NoRepeats(queue)'
            /\ \A b \in Batch : Queued(queue, b)' <=> Queued(queue, b) \/ b = Found(c)
        BY <3>2, <4>0, AddTaskQueues DEF Place
      <4>4. \A b \in Batch : logGroupData'[KeyOf[b]] = b <=>
              b = c \/ (b # Found(c) /\ logGroupData[KeyOf[b]] = b)
        <5>1. logGroupData' = [logGroupData EXCEPT ![KeyOf[c]] = c]
          BY <3>5 DEF SendAndOpenBatch
        <5>. QED BY <1>0, <3>2, <4>0, <5>1, BatchKeys
      <4>5. \A b \in Batch : \A p \in Place :
              At(b, p)' <=> IF b \in {c, Found(c)} THEN p = to[b] ELSE At(b, p)
        BY <2>1, <2>3, <3>2, <4>0, <4>3, <4>4 DEF At, Settled, Place
      <4>. QED BY <4>1, <4>2, <4>3, <4>5, MovesKeepOnePlace DEF PlaceInv
    <3>. QED BY <1>2, <3>1, <3>3, <3>4, <3>5 DEF AddLogToProducerBatch
  <2>. QED BY <2>4, <2>5, <2>6 DEF PlaceInv
<1>. QED BY <1>1, <1>2

\* One batch moves to place p: the form in which the other steps use the lemma.
LEMMA MoveKeepsOnePlace ==
  ASSUME OnePlace, NEW x \in Batch, Born(x), NEW p \in Place,
         UNCHANGED batchOf, NoRepeats(queue)',
         \A b \in Batch : \A q \in Place : At(b, q)' <=> IF b = x THEN q = p ELSE At(b, q)
  PROVE  OnePlace'
<1>. DEFINE to == [b \in Batch |-> p]
<1>1. to \in [Batch -> Place] /\ {x} \in SUBSET Batch
  OBVIOUS
<1>2. \A b \in Batch : Born(b)' <=> b \in {x} \/ Born(b)
  BY DEF Born
<1>3. \A b \in Batch : \A q \in Place : At(b, q)' <=> IF b \in {x} THEN q = to[b] ELSE At(b, q)
  OBVIOUS
<1>. QED BY <1>1, <1>2, <1>3, MovesKeepOnePlace

\* A batch at a place is born, and nowhere else.
LEMMA AtIsAlone ==
  ASSUME PlaceInv, NEW b \in Batch, NEW p \in Place, At(b, p)
  PROVE  Born(b) /\ \A q \in Place : At(b, q) <=> q = p
BY DEF PlaceInv, OnePlace

\* Steps that leave the calls and their batches alone keep AcceptedIsHeld.
LEMMA SameCallsKeepHeld ==
  ASSUME PlaceInv, UNCHANGED <<call, batchOf>> PROVE AcceptedIsHeld'
BY DEF PlaceInv, AcceptedIsHeld, Born

LEMMA PlaceMover == ASSUME PlaceInv, TypeOK', MoverNext PROVE PlaceInv'
<1>0. UNCHANGED <<call, batchOf, poolPc, poolHand, io, result>>
  BY DEF MoverNext, MoverLoop, MoverUnlock, GetRetryBatch, MoverResendDone, MoverSend, MoverResend,
         MoverUnchanged, poolVars, batchVars
<1>1. CASE MoverLoop \/ MoverUnlock \/ MoverResendDone
  <2>1. UNCHANGED placeVars
    BY <1>0, <1>1 DEF MoverLoop, MoverUnlock, MoverResendDone, placeVars
  <2>2. moverHand = {}
    BY <1>1 DEF MoverLoop, MoverUnlock, MoverResendDone, PlaceInv, HoldersAgree
  <2>. QED BY <1>0, <2>1, <2>2, StayingKeepsPlaceInv
<1>2. AcceptedIsHeld'
  BY <1>0, SameCallsKeepHeld
<1>3. CASE GetRetryBatch
  <2>. DEFINE to == [b \in Batch |-> "mover"]
  <2>1. PICK taken \in SUBSET retryQueue :
          /\ moverHand' = taken /\ retryQueue' = retryQueue \ taken
          /\ moverHand = {} /\ moverPc' \in {"resend", "finalSend"}
          /\ UNCHANGED <<logGroupData, queue>>
    BY <1>3 DEF GetRetryBatch, PlaceInv, HoldersAgree
  <2>2. to \in [Batch -> Place] /\ taken \in SUBSET Batch
    BY DEF Place, PlaceInv, TypeOK
  <2>3. \A b \in taken : Born(b) /\ \A q \in Place : At(b, q) <=> q = "retryQueue"
    BY <2>2, AtIsAlone DEF At, Place
  <2>4. \A b \in Batch : Born(b)' <=> b \in taken \/ Born(b)
    BY <1>0, <2>3 DEF Born
  <2>5. NoRepeats(queue)'
    BY <2>1 DEF PlaceInv, OnePlace
  <2>6. \A b \in Batch : \A q \in Place : At(b, q)' <=> IF b \in taken THEN q = to[b] ELSE At(b, q)
    BY <1>0, <2>1, <2>3 DEF At, Settled, Place
  <2>7. OnePlace'
    BY <2>2, <2>4, <2>5, <2>6, MovesKeepOnePlace DEF PlaceInv
  <2>8. HoldersAgree'
    BY <1>0, <2>1 DEF PlaceInv, HoldersAgree
  <2>. QED BY <1>2, <2>7, <2>8 DEF PlaceInv
<1>4. ASSUME NEW k \in Key, MoverSend(k) PROVE PlaceInv'
  <2>. DEFINE b == logGroupData[k]
  <2>1. /\ b # NoBatch /\ AddTask(b)
        /\ logGroupData' = [logGroupData EXCEPT ![k] = NoBatch]
        /\ UNCHANGED <<moverPc, moverHand, retryQueue>>
    BY <1>4, BatchKeys DEF MoverSend, moverVars, PlaceInv, TypeOK
  <2>2. /\ b \in Batch /\ KeyOf[b] = k /\ Born(b)
        /\ \A p \in Place : At(b, p) <=> p = "accumulator"
    BY <2>1, FoundIsBorn
  <2>3. /\ NoRepeats(queue)'
        /\ \A x \in Batch : Queued(queue, x)' <=> Queued(queue, x) \/ x = b
    BY <2>1, <2>2, AddTaskQueues DEF Place
  <2>4. \A x \in Batch : logGroupData'[KeyOf[x]] = x <=> x # b /\ logGroupData[KeyOf[x]] = x
    BY <2>1, <2>2, BatchKeys
  <2>5. \A x \in Batch : \A q \in Place : At(x, q)' <=> IF x = b THEN q = "queue" ELSE At(x, q)
    BY <1>0, <2>1, <2>2, <2>3, <2>4 DEF At, Settled, Place
  <2>6. OnePlace'
    BY <1>0, <2>2, <2>3, <2>5, MoveKeepsOnePlace DEF PlaceInv, Place
  <2>7. HoldersAgree'
    BY <1>0, <2>1, BatchKeys DEF PlaceInv, HoldersAgree
  <2>. QED BY <1>2, <2>6, <2>7 DEF PlaceInv
<1>5. ASSUME NEW b \in Batch, MoverResend(b) PROVE PlaceInv'
  <2>1. /\ AddTask(b) /\ b \in moverHand /\ moverHand' = moverHand \ {b}
        /\ UNCHANGED <<moverPc, logGroupData, retryQueue>>
    BY <1>5 DEF MoverResend
  <2>2. At(b, "mover") /\ "mover" \in Place /\ "queue" \in Place
    BY <2>1 DEF At, Place
  <2>3. Born(b) /\ \A q \in Place : At(b, q) <=> q = "mover"
    BY <2>2, AtIsAlone
  <2>4. /\ NoRepeats(queue)'
        /\ \A x \in Batch : Queued(queue, x)' <=> Queued(queue, x) \/ x = b
    BY <2>1, <2>2, <2>3, AddTaskQueues
  <2>5. \A x \in Batch : \A q \in Place : At(x, q)' <=> IF x = b THEN q = "queue" ELSE At(x, q)
    BY <1>0, <2>1, <2>3, <2>4 DEF At, Settled, Place
  <2>6. OnePlace'
    BY <1>0, <2>2, <2>3, <2>4, <2>5, MoveKeepsOnePlace DEF PlaceInv
  <2>7. HoldersAgree'
    BY <1>0, <2>1 DEF PlaceInv, HoldersAgree
  <2>. QED BY <1>2, <2>6, <2>7 DEF PlaceInv
<1>. QED BY <1>1, <1>3, <1>4, <1>5 DEF MoverNext

LEMMA PlacePool == ASSUME PlaceInv, TypeOK', PoolNext PROVE PlaceInv'
<1>0. UNCHANGED <<call, batchOf, logGroupData, moverPc, moverHand, retryQueue, result>>
  BY DEF PoolNext, PopTask, PoolIdle, CountTask, StartGoroutine, PoolUnchanged, accumulatorVars, moverVars
<1>1. CASE PoolIdle \/ CountTask \/ (PopTask /\ queue = <<>>)
  <2>1. UNCHANGED placeVars /\ (poolPc' \in {"start", "slot"} <=> poolPc \in {"start", "slot"})
    BY <1>0, <1>1 DEF PoolIdle, CountTask, PopTask, slotVars, placeVars
  <2>. QED BY <1>0, <2>1, StayingKeepsPlaceInv
<1>2. AcceptedIsHeld'
  BY <1>0, SameCallsKeepHeld
<1>3. CASE PopTask /\ queue # <<>>
  <2>. DEFINE b == Head(queue)
  <2>1. /\ poolPc = "pop" /\ poolPc' = "start" /\ poolHand' = b /\ queue' = Tail(queue)
        /\ UNCHANGED io
    BY <1>3 DEF PopTask
  <2>2. poolHand = NoBatch
    BY <2>1 DEF PlaceInv, HoldersAgree
  <2>3. /\ b \in Batch /\ Queued(queue, b) /\ NoRepeats(queue') /\ ~Queued(queue', b)
        /\ \A x \in Batch : x # b => (Queued(queue', x) <=> Queued(queue, x))
    <3>1. queue \in Seq(Call) /\ NoRepeats(queue)
      BY DEF PlaceInv, OnePlace, TypeOK, Batch
    <3>. QED BY <1>3, <2>1, <3>1, RemoveTask DEF Batch
  <2>4. Born(b) /\ \A q \in Place : At(b, q) <=> q = "queue"
    BY <2>3, AtIsAlone DEF At, Place
  <2>5. \A x \in Batch : \A q \in Place : At(x, q)' <=> IF x = b THEN q = "dispatcher" ELSE At(x, q)
    BY <1>0, <2>1, <2>2, <2>3, <2>4, BatchKeys DEF At, Settled, Place
  <2>6. OnePlace'
    BY <1>0, <2>3, <2>4, <2>5, MoveKeepsOnePlace DEF PlaceInv, Place
  <2>7. HoldersAgree'
    BY <1>0, <2>1, <2>3, BatchKeys DEF PlaceInv, HoldersAgree
  <2>. QED BY <1>2, <2>6, <2>7 DEF PlaceInv
<1>4. CASE StartGoroutine
  <2>. DEFINE b == poolHand
  <2>1. /\ poolPc = "slot" /\ poolPc' = "pop" /\ poolHand' = NoBatch
        /\ io' = [io EXCEPT ![b] = "sending"] /\ UNCHANGED queue
    BY <1>4 DEF StartGoroutine
  <2>2. b \in Batch
    BY <2>1 DEF PlaceInv, HoldersAgree, TypeOK
  <2>3. Born(b) /\ \A q \in Place : At(b, q) <=> q = "dispatcher"
    BY <2>2, AtIsAlone DEF At, Place
  <2>4. \A x \in Batch : io'[x] # "none" <=> x = b \/ io[x] # "none"
    BY <2>1 DEF PlaceInv, TypeOK
  <2>5. NoRepeats(queue)'
    BY <2>1 DEF PlaceInv, OnePlace
  <2>6. \A x \in Batch : \A q \in Place : At(x, q)' <=> IF x = b THEN q = "goroutine" ELSE At(x, q)
    BY <1>0, <2>1, <2>2, <2>3, <2>4, BatchKeys DEF At, Settled, Place
  <2>7. OnePlace'
    BY <1>0, <2>2, <2>3, <2>5, <2>6, MoveKeepsOnePlace DEF PlaceInv, Place
  <2>8. HoldersAgree'
    BY <1>0, <2>1, BatchKeys DEF PlaceInv, HoldersAgree
  <2>. QED BY <1>2, <2>7, <2>8 DEF PlaceInv
<1>. QED BY <1>1, <1>3, <1>4 DEF PoolNext

LEMMA PlaceWorker == ASSUME PlaceInv, TypeOK', WorkerNext PROVE PlaceInv'
<1>. USE DEF WorkerUnchanged, accumulatorVars, moverVars, poolVars
<1>0. UNCHANGED <<call, batchOf, logGroupData, moverPc, moverHand, queue, poolPc, poolHand>>
  BY DEF WorkerNext, Answer, SendSucceeds, SendFailsAfterShutDown, SendFailsForGood,
         SendFailsAndRetries, SendFailsExhausted, SendToRetryQueue, ReleaseSlot, FinishTask, Settle
<1>1. AcceptedIsHeld'
  BY <1>0, SameCallsKeepHeld
<1>2. HoldersAgree'
  BY <1>0 DEF PlaceInv, HoldersAgree
<1>3. NoRepeats(queue)'
  BY <1>0 DEF PlaceInv, OnePlace
<1>4. ASSUME NEW b \in Batch, NEW r \in {"success", "fail"}, io[b] = "sending", Settle(b, r)
      PROVE  OnePlace'
  <2>1. At(b, "goroutine") /\ "goroutine" \in Place /\ "settled" \in Place
    BY <1>4 DEF At, Place
  <2>2. Born(b) /\ \A q \in Place : At(b, q) <=> q = "goroutine"
    BY <2>1, AtIsAlone
  <2>3. UNCHANGED retryQueue
    BY <1>4 DEF Settle
  <2>4. \A x \in Batch : /\ io'[x] # "none" <=> x # b /\ io[x] # "none"
                         /\ result'[x] # "pending" <=> x = b \/ result[x] # "pending"
    BY <1>4 DEF Settle, PlaceInv, TypeOK
  <2>5. \A x \in Batch : \A q \in Place : At(x, q)' <=> IF x = b THEN q = "settled" ELSE At(x, q)
    BY <1>0, <2>2, <2>3, <2>4 DEF At, Settled, Place
  <2>. QED BY <1>0, <1>3, <2>1, <2>2, <2>5, MoveKeepsOnePlace DEF PlaceInv
<1>5. ASSUME NEW b \in Batch, Answer(b) PROVE PlaceInv'
  <2>1. CASE SendFailsAndRetries(b)
    <3>1. \A x \in Batch : io'[x] # "none" <=> io[x] # "none"
      BY <2>1 DEF SendFailsAndRetries, PlaceInv, TypeOK
    <3>2. UNCHANGED <<retryQueue, result>>
      BY <2>1 DEF SendFailsAndRetries
    <3>3. OnePlace'
      BY <1>0, <3>1, <3>2 DEF PlaceInv, OnePlace, At, Born, Settled, Queued, NoRepeats
    <3>. QED BY <1>1, <1>2, <3>3 DEF PlaceInv
  <2>2. CASE ~SendFailsAndRetries(b)
    <3>1. io[b] = "sending" /\ \E r \in {"success", "fail"} : Settle(b, r)
      BY <1>5, <2>2 DEF Answer, SendSucceeds, SendFailsAfterShutDown, SendFailsForGood, SendFailsExhausted
    <3>. QED BY <1>1, <1>2, <1>4, <3>1 DEF PlaceInv
  <2>. QED BY <2>1, <2>2
<1>6. ASSUME NEW b \in Batch, SendToRetryQueue(b) PROVE PlaceInv'
  <2>1. /\ io[b] = "retrying" /\ io' = [io EXCEPT ![b] = "none"]
        /\ retryQueue' = retryQueue \cup {b} /\ UNCHANGED result
    BY <1>6 DEF SendToRetryQueue
  <2>2. At(b, "goroutine") /\ "goroutine" \in Place /\ "retryQueue" \in Place
    BY <2>1 DEF At, Place
  <2>3. Born(b) /\ \A q \in Place : At(b, q) <=> q = "goroutine"
    BY <2>2, AtIsAlone
  <2>4. \A x \in Batch : io'[x] # "none" <=> x # b /\ io[x] # "none"
    BY <2>1 DEF PlaceInv, TypeOK
  <2>5. \A x \in Batch : \A q \in Place : At(x, q)' <=> IF x = b THEN q = "retryQueue" ELSE At(x, q)
    BY <1>0, <2>1, <2>3, <2>4 DEF At, Settled, Place
  <2>6. OnePlace'
    BY <1>0, <1>3, <2>2, <2>3, <2>5, MoveKeepsOnePlace DEF PlaceInv
  <2>. QED BY <1>1, <1>2, <2>6 DEF PlaceInv
<1>7. CASE ReleaseSlot \/ FinishTask
  <2>1. UNCHANGED placeVars
    BY <1>0, <1>7 DEF ReleaseSlot, FinishTask, placeVars
  <2>. QED BY <1>0, <2>1, StayingKeepsPlaceInv
<1>. QED BY <1>5, <1>6, <1>7 DEF WorkerNext

LEMMA PlaceInit == Init => PlaceInv
<1>. SUFFICES ASSUME Init PROVE PlaceInv
  OBVIOUS
<1>0. NoBatch \notin Batch /\ KeyOf \in [Batch -> Key]
  BY ProducerAssumption DEF Batch, ProducerAssumption
<1>1. TypeOK
  BY TypeInit
<1>2. \A b \in Batch : ~Born(b) /\ \A p \in Place : ~At(b, p)
  BY <1>0 DEF Init, Born, At, Place, Settled, Queued, Batch
<1>3. OnePlace
  BY <1>2 DEF OnePlace, NoRepeats, Init
<1>4. AcceptedIsHeld /\ HoldersAgree
  BY DEF AcceptedIsHeld, HoldersAgree, Init
<1>. QED BY <1>1, <1>3, <1>4 DEF PlaceInv

LEMMA PlaceStep == PlaceInv /\ [Next]_vars => PlaceInv'
<1>. SUFFICES ASSUME PlaceInv, [Next]_vars PROVE PlaceInv'
  OBVIOUS
<1>1. TypeOK'
  BY TypeStep DEF PlaceInv
<1>2. CASE CloseNext \/ (\E b \in Batch : TimePasses(b)) \/ Terminated \/ UNCHANGED vars
  <2>1. UNCHANGED <<placeVars, call, poolPc, moverPc>>
    BY <1>2 DEF CloseNext, BeginClose, SetAccumulatorFlag, SetRetryQueueFlag, MoverEnded, PoolEnded,
                WorkersEnded, PollTaskCount, PollQueue, TimeIsUp, PollAgain, CloserGoes, CloseUnchanged,
                TimePasses, Terminated, vars, placeVars, accumulatorVars, moverVars, poolVars, batchVars
  <2>. QED BY <1>1, <2>1, StayingKeepsPlaceInv
<1>. QED BY <1>1, <1>2, PlaceSend, PlaceMover, PlacePool, PlaceWorker DEF Next

\* A batch is in one place from the moment it is opened, and nowhere before.
THEOREM BatchInOnePlace == Spec => []OnePlace
<1>1. Init => PlaceInv
  BY PlaceInit
<1>2. PlaceInv /\ [Next]_vars => PlaceInv'
  BY PlaceStep
<1>3. PlaceInv => OnePlace
  BY DEF PlaceInv
<1>. QED BY <1>1, <1>2, <1>3, PTL DEF Spec

\* The logs of an accepted call are in one batch, of the call's own key.
THEOREM AcceptedLogsAreHeld == Spec => []AcceptedIsHeld
<1>1. Init => PlaceInv
  BY PlaceInit
<1>2. PlaceInv /\ [Next]_vars => PlaceInv'
  BY PlaceStep
<1>3. PlaceInv => AcceptedIsHeld
  BY DEF PlaceInv
<1>. QED BY <1>1, <1>2, <1>3, PTL DEF Spec
=============================================================================
