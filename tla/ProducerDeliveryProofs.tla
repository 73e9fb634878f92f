----------------------- MODULE ProducerDeliveryProofs -----------------------
(***************************************************************************)
(* Theorems about what the callers of a producer are told: each accepted   *)
(* log is answered once, the logs of a batch on its way do not change,     *)
(* LogProducer implements LogDelivery, and no call waits for space that is *)
(* there.  All rest on PlaceInv.                                           *)
(***************************************************************************)
EXTENDS LogProducerProofs

DeliveryInv == PlaceInv /\ AnsweredOnce

----------------------------------------------------------------------------
(* How a step changes batchOf and result *)

\* Only the call that enters the accumulator gets a batch, an unsettled one of
\* the accumulator or its own.
LEMMA SendJoins ==
  ASSUME PlaceInv, NEW c \in Call, AddLogToProducerBatch(c)
  PROVE  /\ call[c] = "passed" /\ batchOf[c] = NoBatch /\ call' = [call EXCEPT ![c] = "accepted"]
         /\ \E x \in Batch : /\ batchOf' = [batchOf EXCEPT ![c] = x]
                             /\ \A p \in Place \ {"accumulator"} : ~At(x, p)
<1>0. KeyOf[c] \in Key
  BY SizesAreNat
<1>1. call[c] = "passed" /\ call' = [call EXCEPT ![c] = "accepted"]
  BY DEF AddLogToProducerBatch, OpenBatch, AddLog, AddLogAndSend, SendAndOpenBatch, EnterLocked
<1>2. batchOf[c] = NoBatch
  BY <1>1 DEF PlaceInv, AcceptedIsHeld
<1>3. \A p \in Place : ~At(c, p)
  BY <1>2, BatchKeys DEF PlaceInv, OnePlace, Born, Batch
<1>4. ASSUME Found(c) # NoBatch
      PROVE  Found(c) \in Batch /\ \A p \in Place \ {"accumulator"} : ~At(Found(c), p)
  BY <1>0, <1>4, FoundIsBorn DEF Found
<1>5. \/ batchOf' = [batchOf EXCEPT ![c] = c]
      \/ Found(c) # NoBatch /\ batchOf' = [batchOf EXCEPT ![c] = Found(c)]
  BY DEF AddLogToProducerBatch, OpenBatch, AddLog, AddLogAndSend, SendAndOpenBatch
<1>. QED BY <1>1, <1>2, <1>3, <1>4, <1>5 DEF Batch

\* A batch is settled by the goroutine that posts it, once, with all its calls.
LEMMA AnswerSettles ==
  ASSUME PlaceInv, NEW b \in Batch, Answer(b), ~SendFailsAndRetries(b)
  PROVE  /\ Born(b) /\ result[b] = "pending"
         /\ \E r \in {"success", "fail"} : result' = [result EXCEPT ![b] = r]
         /\ answered' = [c \in Call |-> IF batchOf[c] = b THEN answered[c] + 1 ELSE answered[c]]
<1>1. io[b] = "sending" /\ \E r \in {"success", "fail"} : Settle(b, r)
  BY DEF Answer, SendSucceeds, SendFailsAfterShutDown, SendFailsForGood, SendFailsExhausted
<1>2. At(b, "goroutine") /\ "goroutine" \in Place /\ "settled" \in Place
  BY <1>1 DEF At, Place
<1>3. Born(b) /\ ~At(b, "settled")
  BY <1>2, AtIsAlone
<1>. QED BY <1>1, <1>3 DEF Settle, At, Settled, Members, Born

\* Every other step leaves the calls' states and answers alone.
LEMMA OtherStepsAnswerNothing ==
  ASSUME [Next]_vars,
         \A c \in Call : ~PassWaitTime(c) /\ ~SleepInWaitTime(c) /\ ~AddLogToProducerBatch(c),
         \A b \in Batch : Answer(b) => SendFailsAndRetries(b)
  PROVE  call' = call /\ batchOf' = batchOf /\ result' = result /\ answered' = answered
<1>1. CASE MoverNext
  BY <1>1 DEF MoverNext, MoverLoop, MoverUnlock, GetRetryBatch, MoverResendDone, MoverSend,
              MoverResend, MoverUnchanged, batchVars
<1>2. CASE PoolNext
  BY <1>2 DEF PoolNext, PopTask, PoolIdle, CountTask, StartGoroutine, PoolUnchanged, accumulatorVars
<1>3. CASE WorkerNext
  BY <1>3 DEF WorkerNext, SendFailsAndRetries, SendToRetryQueue, ReleaseSlot, FinishTask,
              WorkerUnchanged, accumulatorVars
<1>4. CASE CloseNext
  BY <1>4 DEF CloseNext, BeginClose, SetAccumulatorFlag, SetRetryQueueFlag, MoverEnded, PoolEnded,
              WorkersEnded, PollTaskCount, PollQueue, TimeIsUp, PollAgain, CloserGoes,
              CloseUnchanged, accumulatorVars, batchVars
<1>5. CASE (\E b \in Batch : TimePasses(b)) \/ Terminated \/ UNCHANGED vars
  BY <1>5 DEF TimePasses, Terminated, vars, accumulatorVars, batchVars
<1>. QED BY <1>1, <1>2, <1>3, <1>4, <1>5 DEF Next

----------------------------------------------------------------------------
LEMMA SameAnswers ==
  ASSUME AnsweredOnce, UNCHANGED <<answered, result, batchOf>> PROVE AnsweredOnce'
BY DEF AnsweredOnce, Settled

LEMMA DeliveryStep == DeliveryInv /\ [Next]_vars => DeliveryInv'
<1>. SUFFICES ASSUME DeliveryInv, [Next]_vars PROVE DeliveryInv'
  OBVIOUS
<1>0. PlaceInv /\ AnsweredOnce
  BY DEF DeliveryInv
<1>1. PlaceInv'
  BY <1>0, PlaceStep
<1>2. /\ NoBatch \notin Batch /\ batchOf \in [Call -> Batch \cup {NoBatch}]
      /\ result \in [Batch -> {"pending", "success", "fail"}] /\ answered \in [Call -> Nat]
  BY <1>0, BatchKeys DEF PlaceInv, TypeOK
<1>3. ASSUME NEW c \in Call, AddLogToProducerBatch(c) PROVE AnsweredOnce'
  <2>1. UNCHANGED <<answered, result>>
    BY <1>3 DEF AddLogToProducerBatch, OpenBatch, AddLog, AddLogAndSend, SendAndOpenBatch,
                EnterLocked, batchVars
  <2>2. PICK x \in Batch : batchOf' = [batchOf EXCEPT ![c] = x] /\ ~Settled(x)
    <3>1. "settled" \in Place \ {"accumulator"}
      BY DEF Place
    <3>. QED BY <1>0, <1>3, <3>1, SendJoins DEF At
  <2>3. batchOf[c] = NoBatch
    BY <1>0, <1>3, SendJoins
  <2>4. ASSUME NEW d \in Call PROVE answered'[d] = IF batchOf'[d] # NoBatch /\ Settled(batchOf'[d]) THEN 1 ELSE 0
    BY <1>0, <1>2, <2>1, <2>2, <2>3 DEF AnsweredOnce
  <2>. QED BY <2>1, <2>4 DEF AnsweredOnce, Settled
<1>4. ASSUME NEW c \in Call, PassWaitTime(c) \/ SleepInWaitTime(c) PROVE AnsweredOnce'
  <2>1. UNCHANGED <<answered, result, batchOf>>
    BY <1>4 DEF PassWaitTime, SleepInWaitTime, batchVars
  <2>. QED BY <1>0, <2>1, SameAnswers
<1>5. ASSUME NEW b \in Batch, Answer(b), ~SendFailsAndRetries(b) PROVE AnsweredOnce'
  <2>1. UNCHANGED batchOf
    BY <1>5 DEF Answer, SendSucceeds, SendFailsAfterShutDown, SendFailsForGood, SendFailsExhausted,
                Settle, WorkerUnchanged, accumulatorVars
  <2>2. \A d \in Call : answered'[d] = IF batchOf[d] = b THEN answered[d] + 1 ELSE answered[d]
    BY <1>0, <1>5, AnswerSettles
  <2>3. /\ result[b] = "pending" /\ result'[b] # "pending"
        /\ \A x \in Batch : x # b => result'[x] = result[x]
    BY <1>0, <1>2, <1>5, AnswerSettles
  <2>4. ASSUME NEW d \in Call
        PROVE  answered'[d] = IF batchOf[d] # NoBatch /\ result'[batchOf[d]] # "pending" THEN 1 ELSE 0
    <3>1. answered[d] = IF batchOf[d] # NoBatch /\ result[batchOf[d]] # "pending" THEN 1 ELSE 0
      BY <1>0 DEF AnsweredOnce, Settled
    <3>. QED BY <1>2, <2>2, <2>3, <3>1
  <2>. QED BY <2>1, <2>4 DEF AnsweredOnce, Settled
<1>6. ASSUME \A c \in Call : ~PassWaitTime(c) /\ ~SleepInWaitTime(c) /\ ~AddLogToProducerBatch(c),
             \A b \in Batch : Answer(b) => SendFailsAndRetries(b)
      PROVE  AnsweredOnce'
  <2>1. answered' = answered /\ result' = result /\ batchOf' = batchOf
    BY <1>6, OtherStepsAnswerNothing
  <2>. QED BY <1>0, <2>1, SameAnswers
<1>7. AnsweredOnce'
  <2>1. CASE \E c \in Call : PassWaitTime(c) \/ SleepInWaitTime(c) \/ AddLogToProducerBatch(c)
    BY <1>3, <1>4, <2>1
  <2>2. CASE \E b \in Batch : Answer(b) /\ ~SendFailsAndRetries(b)
    BY <1>5, <2>2
  <2>. QED BY <1>6, <2>1, <2>2
<1>. QED BY <1>1, <1>7 DEF DeliveryInv

\* Each accepted log is answered once and only with its batch.
THEOREM LogsAnsweredOnce == Spec => []AnsweredOnce
<1>1. Init => DeliveryInv
  BY PlaceInit DEF DeliveryInv, AnsweredOnce, Init
<1>2. DeliveryInv /\ [Next]_vars => DeliveryInv'
  BY DeliveryStep
<1>3. DeliveryInv => AnsweredOnce
  BY DEF DeliveryInv
<1>. QED BY <1>1, <1>2, <1>3, PTL DEF Spec

----------------------------------------------------------------------------
LEMMA SealedStep == PlaceInv /\ [Next]_vars =>
  [\A b \in Batch :
     (\E p \in Place \ {"accumulator"} : At(b, p)) => Members(b)' = Members(b)]_vars
<1>. SUFFICES ASSUME PlaceInv, [Next]_vars, NEW b \in Batch, NEW p \in Place \ {"accumulator"}, At(b, p)
              PROVE  Members(b)' = Members(b)
  OBVIOUS
<1>1. CASE UNCHANGED batchOf
  BY <1>1 DEF Members
<1>2. ASSUME NEW c \in Call, AddLogToProducerBatch(c) PROVE Members(b)' = Members(b)
  <2>1. PICK x \in Batch : /\ batchOf' = [batchOf EXCEPT ![c] = x]
                           /\ \A q \in Place \ {"accumulator"} : ~At(x, q)
    BY <1>2, SendJoins
  <2>2. x # b /\ batchOf[c] # b
    BY <1>2, <2>1, SendJoins, BatchKeys
  <2>3. batchOf \in [Call -> Batch \cup {NoBatch}]
    BY DEF PlaceInv, TypeOK
  <2>. QED BY <2>1, <2>2, <2>3 DEF Members
<1>3. ASSUME NEW c \in Call, PassWaitTime(c) \/ SleepInWaitTime(c) PROVE UNCHANGED batchOf
  BY <1>3 DEF PassWaitTime, SleepInWaitTime
<1>4. ASSUME NEW x \in Batch, Answer(x) PROVE UNCHANGED batchOf
  BY <1>4 DEF Answer, SendSucceeds, SendFailsAfterShutDown, SendFailsForGood, SendFailsAndRetries,
              SendFailsExhausted, Settle, WorkerUnchanged, accumulatorVars
<1>5. CASE /\ \A c \in Call : ~PassWaitTime(c) /\ ~SleepInWaitTime(c) /\ ~AddLogToProducerBatch(c)
           /\ \A x \in Batch : ~Answer(x)
  BY <1>1, <1>5, OtherStepsAnswerNothing
<1>. QED BY <1>1, <1>2, <1>3, <1>4, <1>5

\* The logs of a batch that has left the accumulator never change.
THEOREM SealedBatches == Spec => SealedAfterAccumulator
<1>1. Init => PlaceInv
  BY PlaceInit
<1>2. PlaceInv /\ [Next]_vars => PlaceInv'
  BY PlaceStep
<1>3. PlaceInv /\ [Next]_vars =>
        [\A b \in Batch :
           (\E p \in Place \ {"accumulator"} : At(b, p)) => Members(b)' = Members(b)]_vars
  BY SealedStep
<1>. QED BY <1>1, <1>2, <1>3, PTL DEF Spec, SealedAfterAccumulator

----------------------------------------------------------------------------
(* The producer implements LogDelivery *)

LEMMA DeliveryInit == Init => Delivery!Init
BY DEF Init, Delivery!Init, status

\* A step after which one call c has status s, and all others what they had.
LEMMA StatusAfter ==
  ASSUME NEW c \in Call, NEW s, status'[c] = s,
         \A d \in Call : d # c => status'[d] = status[d]
  PROVE  status' = [status EXCEPT ![c] = s]
BY DEF status

\* The status of a call depends on these variables only.
LEMMA SameStatus ==
  ASSUME NEW c \in Call, call'[c] = call[c], batchOf'[c] = batchOf[c],
         result'[batchOf[c]] = result[batchOf[c]]
  PROVE  status'[c] = status[c]
BY DEF status

LEMMA DeliveryNext == PlaceInv /\ [Next]_vars => [Delivery!Next]_status
<1>. SUFFICES ASSUME PlaceInv, [Next]_vars PROVE [Delivery!Next]_status
  OBVIOUS
<1>0. /\ NoBatch \notin Batch /\ call \in [Call -> CallState]
      /\ batchOf \in [Call -> Batch \cup {NoBatch}]
      /\ result \in [Batch -> {"pending", "success", "fail"}]
      /\ \A c \in Call : call[c] = "accepted" <=> batchOf[c] # NoBatch
  BY BatchKeys DEF PlaceInv, TypeOK, AcceptedIsHeld
<1>1. ASSUME NEW c \in Call, PassWaitTime(c) \/ SleepInWaitTime(c) PROVE [Delivery!Next]_status
  <2>1. /\ call[c] = "new" /\ UNCHANGED <<batchOf, result>>
        /\ \E to \in {"new", "passed", "refused"} : call' = [call EXCEPT ![c] = to]
    BY <1>0, <1>1 DEF PassWaitTime, SleepInWaitTime, batchVars
  <2>2. \A d \in Call : d # c => status'[d] = status[d]
    BY <1>0, <2>1, SameStatus
  <2>3. status[c] = "new" /\ status'[c] \in {"new", "refused"}
    BY <1>0, <2>1 DEF status
  <2>4. CASE status'[c] = "new"
    BY <2>2, <2>3, <2>4 DEF status
  <2>5. CASE status'[c] = "refused"
    <3>1. status' = [status EXCEPT ![c] = "refused"]
      BY <2>2, <2>5, StatusAfter
    <3>. QED BY <2>3, <3>1 DEF Delivery!Next, Delivery!Refuse
  <2>. QED BY <2>3, <2>4, <2>5
<1>2. ASSUME NEW c \in Call, AddLogToProducerBatch(c) PROVE [Delivery!Next]_status
  <2>1. UNCHANGED result
    BY <1>2 DEF AddLogToProducerBatch, OpenBatch, AddLog, AddLogAndSend, SendAndOpenBatch,
                EnterLocked, batchVars
  <2>2. PICK x \in Batch : batchOf' = [batchOf EXCEPT ![c] = x] /\ ~Settled(x)
    <3>1. "settled" \in Place \ {"accumulator"}
      BY DEF Place
    <3>. QED BY <1>2, <3>1, SendJoins DEF At
  <2>3. call[c] = "passed" /\ call' = [call EXCEPT ![c] = "accepted"]
    BY <1>2, SendJoins
  <2>4. \A d \in Call : d # c => status'[d] = status[d]
    BY <1>0, <2>1, <2>2, <2>3, SameStatus
  <2>5. status[c] = "new" /\ status'[c] = "pending"
    BY <1>0, <2>1, <2>2, <2>3 DEF status, Settled
  <2>6. status' = [status EXCEPT ![c] = "pending"]
    BY <2>4, <2>5, StatusAfter
  <2>. QED BY <2>5, <2>6 DEF Delivery!Next, Delivery!Accept
<1>3. ASSUME NEW b \in Batch, Answer(b), ~SendFailsAndRetries(b) PROVE [Delivery!Next]_status
  <2>1. UNCHANGED <<call, batchOf>>
    BY <1>3 DEF Answer, SendSucceeds, SendFailsAfterShutDown, SendFailsForGood, SendFailsExhausted,
                Settle, WorkerUnchanged, accumulatorVars
  <2>2. PICK r \in {"success", "fail"} : result' = [result EXCEPT ![b] = r]
    BY <1>3, AnswerSettles
  <2>3. Born(b) /\ result[b] = "pending"
    BY <1>3, AnswerSettles
  <2>4. /\ Members(b) \in SUBSET Call /\ Members(b) # {}
        /\ \A c \in Members(b) : status[c] = "pending"
    BY <1>0, <2>3 DEF Members, Born, Batch, status
  <2>5. \A c \in Call : status'[c] = IF c \in Members(b) THEN r ELSE status[c]
    BY <1>0, <2>1, <2>2 DEF status, Members
  <2>6. status' = [c \in Call |-> IF c \in Members(b) THEN r ELSE status[c]]
    BY <2>5 DEF status
  <2>. QED BY <2>4, <2>6 DEF Delivery!Next, Delivery!SettleAll
<1>4. ASSUME \A c \in Call : ~PassWaitTime(c) /\ ~SleepInWaitTime(c) /\ ~AddLogToProducerBatch(c),
             \A b \in Batch : Answer(b) => SendFailsAndRetries(b)
      PROVE  [Delivery!Next]_status
  BY <1>4, OtherStepsAnswerNothing DEF status
<1>5. CASE \E c \in Call : PassWaitTime(c) \/ SleepInWaitTime(c) \/ AddLogToProducerBatch(c)
  BY <1>1, <1>2, <1>5
<1>6. CASE \E b \in Batch : Answer(b) /\ ~SendFailsAndRetries(b)
  BY <1>3, <1>6
<1>. QED BY <1>4, <1>5, <1>6

\* Every behaviour of the producer is one that LogDelivery allows.
THEOREM ProducerDelivers == Spec => ImplementsDelivery
<1>1. Init => PlaceInv
  BY PlaceInit
<1>2. PlaceInv /\ [Next]_vars => PlaceInv'
  BY PlaceStep
<1>. QED BY <1>1, <1>2, DeliveryInit, DeliveryNext, PTL DEF Spec, ImplementsDelivery, Delivery!Spec
----------------------------------------------------------------------------
(* The space that is counted *)

\* A call brings its bytes, calls bring theirs together, and calls that leave take
\* theirs along.
LEMMA BytesOfOne ==
  ASSUME NEW c \in Call
  PROVE  /\ IsFiniteSet({c} \X (1 .. LogSize[c]))
         /\ Cardinality({c} \X (1 .. LogSize[c])) = LogSize[c]
<1>1. LogSize[c] \in Nat
  BY SizesAreNat
<1>2. IsFiniteSet(1 .. LogSize[c]) /\ Cardinality(1 .. LogSize[c]) = LogSize[c]
  BY <1>1, FS_Interval
<1>3. IsFiniteSet({c}) /\ Cardinality({c}) = 1
  BY FS_Singleton
<1>4. /\ IsFiniteSet({c} \X (1 .. LogSize[c]))
      /\ Cardinality({c} \X (1 .. LogSize[c])) = 1 * LogSize[c]
  <2>. HIDE <1>1
  <2>. QED BY <1>2, <1>3, FS_Product
<1>. QED BY <1>1, <1>4

LEMMA BytesFinite ==
  ASSUME NEW S \in SUBSET Call
  PROVE  IsFiniteSet(Bytes(S)) /\ Cardinality(Bytes(S)) \in Nat
<1>. DEFINE F == [c \in S |-> {c} \X (1 .. LogSize[c])]
            T == {{c} \X (1 .. LogSize[c]) : c \in S}
<1>1. IsFiniteSet(S)
  BY ProducerAssumption, FS_Subset DEF ProducerAssumption
<1>2. F \in Surjection(S, T)
  BY DEF Surjection
<1>3. IsFiniteSet(T)
  BY <1>1, <1>2, FS_Surjection
<1>4. \A B \in T : IsFiniteSet(B)
  BY BytesOfOne
<1>5. IsFiniteSet(UNION T)
  <2>. HIDE DEF T
  <2>. QED BY <1>3, <1>4, FS_UNION
<1>. QED BY <1>5, FS_CardinalityType DEF Bytes

LEMMA BytesAdded ==
  ASSUME NEW S \in SUBSET Call, NEW c \in Call \ S
  PROVE  Cardinality(Bytes(S \cup {c})) = Cardinality(Bytes(S)) + LogSize[c]
<1>. DEFINE B == {c} \X (1 .. LogSize[c])
<1>1. Bytes(S \cup {c}) = Bytes(S) \cup B /\ Bytes(S) \cap B = {}
  BY DEF Bytes
<1>2. IsFiniteSet(B) /\ Cardinality(B) = LogSize[c]
  BY BytesOfOne
<1>3. /\ IsFiniteSet(Bytes(S)) /\ Cardinality(Bytes(S)) \in Nat /\ LogSize[c] \in Nat
  BY BytesFinite, SizesAreNat
<1>4. Cardinality(Bytes(S) \cup B) = Cardinality(Bytes(S)) + Cardinality(B) - Cardinality({})
  <2>. HIDE DEF B
  <2>. QED BY <1>1, <1>2, <1>3, FS_Union
<1>5. Cardinality({}) = 0
  BY FS_EmptySet
<1>6. Cardinality(Bytes(S \cup {c})) = Cardinality(Bytes(S) \cup B)
  BY <1>1
<1>7. Cardinality(Bytes(S) \cup B) = Cardinality(Bytes(S)) + LogSize[c]
  <2>. HIDE DEF B
  <2>. QED BY <1>2, <1>3, <1>4, <1>5
<1>. QED BY <1>6, <1>7

LEMMA BytesRemoved ==
  ASSUME NEW S \in SUBSET Call, NEW M \in SUBSET S
  PROVE  Cardinality(Bytes(S \ M)) = Cardinality(Bytes(S)) - Cardinality(Bytes(M))
<1>1. Bytes(S \ M) = Bytes(S) \ Bytes(M) /\ Bytes(S) \cap Bytes(M) = Bytes(M)
  BY DEF Bytes
<1>2. IsFiniteSet(Bytes(S))
  BY BytesFinite
<1>3. Cardinality(Bytes(S) \ Bytes(M)) = Cardinality(Bytes(S)) - Cardinality(Bytes(S) \cap Bytes(M))
  BY <1>2, FS_Difference
<1>. QED BY <1>1, <1>3

\* What a batch will release is not less than what its logs take.
SizesCover ==
  \A b \in Batch : Cardinality(Bytes(Members(b))) <= totalDataSize[b]

SpaceInv == PlaceInv /\ SizesCover /\ NoFalseShortage

\* The counter and the sizes of the batches after a call has entered.
LEMMA SendCounts ==
  ASSUME PlaceInv, NEW c \in Call, AddLogToProducerBatch(c)
  PROVE  /\ producerLogGroupSize' \in {producerLogGroupSize, producerLogGroupSize + LogSize[c]}
         /\ \A b \in Batch : totalDataSize'[b] >= totalDataSize[b] \/ b = c
         /\ \A b \in Batch :
              b = batchOf'[c] =>
                \/ b = c /\ totalDataSize'[b] = GroupSize[c]
                \/ b # c /\ totalDataSize'[b] = totalDataSize[b] + LogSize[c]
<1>1. KeyOf[c] \in Key /\ LogSize[c] \in Nat /\ GroupSize[c] \in Nat
  BY SizesAreNat
<1>2. /\ totalDataSize \in [Batch -> Nat] /\ batchOf \in [Call -> Batch \cup {NoBatch}]
      /\ producerLogGroupSize \in Int /\ c \in Batch
  BY DEF PlaceInv, TypeOK, Batch
<1>3. Found(c) # NoBatch => Found(c) \in Batch /\ Found(c) # c
  <2>1. Found(c) # NoBatch => Found(c) \in Batch /\ Born(Found(c))
    BY <1>1, FoundIsBorn DEF Found
  <2>2. batchOf[c] = NoBatch /\ NoBatch # c
    BY SendJoins, BatchKeys DEF Batch
  <2>. QED BY <2>1, <2>2 DEF Born
<1>4. CASE OpenBatch(c)
  BY <1>1, <1>2, <1>4 DEF OpenBatch
<1>5. CASE AddLog(c)
  BY <1>1, <1>2, <1>3, <1>5 DEF AddLog, SizeWith
<1>6. CASE AddLogAndSend(c)
  BY <1>1, <1>2, <1>3, <1>6 DEF AddLogAndSend, SizeWith
<1>7. CASE SendAndOpenBatch(c)
  BY <1>1, <1>2, <1>3, <1>7 DEF SendAndOpenBatch, SizeWith
<1>. QED BY <1>4, <1>5, <1>6, <1>7 DEF AddLogToProducerBatch

LEMMA SpaceSend ==
  ASSUME SpaceInv, NEW c \in Call, AddLogToProducerBatch(c)
  PROVE  SizesCover' /\ NoFalseShortage'
<1>1. /\ totalDataSize \in [Batch -> Nat] /\ batchOf \in [Call -> Batch \cup {NoBatch}]
      /\ producerLogGroupSize \in Int /\ LogSize[c] \in Nat /\ GroupSize[c] \in Nat
      /\ LogSize[c] <= GroupSize[c] /\ NoBatch \notin Batch /\ c \in Batch
  BY SizesAreNat, BatchKeys, ProducerAssumption
     DEF SpaceInv, PlaceInv, TypeOK, Batch, ProducerAssumption
<1>2. batchOf[c] = NoBatch
  BY SendJoins DEF SpaceInv
<1>3. PICK x \in Batch : /\ batchOf' = [batchOf EXCEPT ![c] = x]
                         /\ ~At(x, "settled")
  BY SendJoins DEF SpaceInv, Place
<1>4. UNCHANGED <<result, flags>>
  BY DEF AddLogToProducerBatch, OpenBatch, AddLog, AddLogAndSend, SendAndOpenBatch, EnterLocked,
         batchVars, closeVars
<1>5. /\ Members(x)' = Members(x) \cup {c} /\ c \notin Members(x)
      /\ \A b \in Batch : b # x => Members(b)' = Members(b)
  BY <1>1, <1>2, <1>3 DEF Members
<1>6. Held' = Held \cup {c} /\ c \notin Held
  BY <1>1, <1>2, <1>3, <1>4 DEF Held, Settled, At
<1>7. Members(c) = {}
  BY <1>1, <1>2 DEF SpaceInv, PlaceInv, AcceptedIsHeld, Born, Members
<1>8. \A b \in Batch : Members(b) \in SUBSET Call /\ Cardinality(Bytes(Members(b))) \in Nat
  BY BytesFinite DEF Members
<1>9. ASSUME NEW b \in Batch
      PROVE  Cardinality(Bytes(Members(b)')) <= totalDataSize'[b]
  <2>1. totalDataSize[b] \in Nat /\ totalDataSize'[b] \in Nat
    BY <1>1, TypeStep DEF SpaceInv, PlaceInv, TypeOK, Next
  <2>2. CASE b = x
    <3>1. Cardinality(Bytes(Members(b)')) = Cardinality(Bytes(Members(b))) + LogSize[c]
      BY <1>5, <1>8, <2>2, BytesAdded
    <3>2. CASE b = c
      <4>1. totalDataSize'[b] = GroupSize[c] /\ Cardinality(Bytes(Members(b))) = 0
        BY <1>1, <1>3, <1>7, <2>2, <3>2, SendCounts, FS_EmptySet DEF SpaceInv, Bytes
      <4>. QED BY <1>1, <3>1, <4>1
    <3>3. CASE b # c
      <4>1. totalDataSize'[b] = totalDataSize[b] + LogSize[c]
        BY <1>1, <1>3, <2>2, <3>3, SendCounts DEF SpaceInv
      <4>. QED BY <1>1, <1>8, <2>1, <3>1, <4>1 DEF SpaceInv, SizesCover
    <3>. QED BY <3>2, <3>3
  <2>3. CASE b # x
    <3>1. Members(b)' = Members(b)
      BY <1>5, <2>3
    <3>2. totalDataSize'[b] >= totalDataSize[b] \/ b = c
      BY SendCounts DEF SpaceInv
    <3>3. b = c => Cardinality(Bytes(Members(b))) = 0
      BY <1>7, FS_EmptySet DEF Bytes
    <3>. QED BY <1>8, <2>1, <3>1, <3>2, <3>3 DEF SpaceInv, SizesCover
  <2>. QED BY <2>2, <2>3
<1>10. NoFalseShortage'
  <2>1. Cardinality(Bytes(Held')) = Cardinality(Bytes(Held)) + LogSize[c]
    BY <1>6, BytesAdded DEF Held
  <2>2. Cardinality(Bytes(Held)) \in Nat
    BY BytesFinite DEF Held
  <2>3. producerLogGroupSize' \in {producerLogGroupSize, producerLogGroupSize + LogSize[c]}
    BY SendCounts DEF SpaceInv
  <2>. QED BY <1>1, <1>4, <2>1, <2>2, <2>3 DEF SpaceInv, NoFalseShortage, CachedBytes, Bytes
<1>. QED BY <1>9, <1>10 DEF SizesCover, Bytes

\* A batch that is settled takes its calls with it, and releases what it counts.
LEMMA SpaceAnswer ==
  ASSUME SpaceInv, NEW b \in Batch, Answer(b), ~SendFailsAndRetries(b)
  PROVE  SizesCover' /\ NoFalseShortage'
<1>1. /\ totalDataSize \in [Batch -> Nat] /\ result \in [Batch -> {"pending", "success", "fail"}]
      /\ batchOf \in [Call -> Batch \cup {NoBatch}] /\ producerLogGroupSize \in Int
      /\ NoBatch \notin Batch
  BY BatchKeys DEF SpaceInv, PlaceInv, TypeOK
<1>2. result[b] = "pending" /\ \E r \in {"success", "fail"} : result' = [result EXCEPT ![b] = r]
  BY AnswerSettles DEF SpaceInv
<1>3. UNCHANGED <<batchOf, totalDataSize, flags>>
  BY DEF Answer, SendSucceeds, SendFailsAfterShutDown, SendFailsForGood, SendFailsExhausted, Settle,
         WorkerUnchanged, accumulatorVars, closeVars
<1>4. SizesCover'
  BY <1>3 DEF SpaceInv, SizesCover, Members, Bytes
<1>5. Held' = Held \ Members(b) /\ Members(b) \in SUBSET Held
  BY <1>1, <1>2, <1>3 DEF Held, Members, Settled, Batch
<1>6. Cardinality(Bytes(Held')) = Cardinality(Bytes(Held)) - Cardinality(Bytes(Members(b)))
  BY <1>5, BytesRemoved DEF Held
<1>7. /\ Cardinality(Bytes(Held)) \in Nat /\ Cardinality(Bytes(Members(b))) \in Nat
      /\ totalDataSize[b] \in Nat /\ Cardinality(Bytes(Members(b))) <= totalDataSize[b]
  BY <1>1, BytesFinite DEF Held, Members, SpaceInv, SizesCover
<1>8. "retryQueue" \notin flags => producerLogGroupSize' = producerLogGroupSize - totalDataSize[b]
  BY DEF Answer, SendSucceeds, SendFailsAfterShutDown, SendFailsForGood, SendFailsExhausted,
         ReleaseSize
<1>9. NoFalseShortage'
  BY <1>1, <1>3, <1>6, <1>7, <1>8 DEF SpaceInv, NoFalseShortage, CachedBytes, Bytes
<1>. QED BY <1>4, <1>9

\* No other step counts anything, and a flag that is set stays set.
LEMMA SpaceElsewhere ==
  ASSUME [Next]_vars, SpaceInv,
         \A c \in Call : ~AddLogToProducerBatch(c),
         \A b \in Batch : Answer(b) => SendFailsAndRetries(b)
  PROVE  SizesCover' /\ NoFalseShortage'
<1>1. UNCHANGED <<batchOf, result, totalDataSize, producerLogGroupSize>> /\ flags \subseteq flags'
  <2>1. CASE MoverNext
    BY <2>1 DEF MoverNext, MoverLoop, MoverUnlock, GetRetryBatch, MoverResendDone, MoverSend,
                MoverResend, MoverUnchanged, batchVars, closeVars
  <2>2. CASE PoolNext
    BY <2>2 DEF PoolNext, PopTask, PoolIdle, CountTask, StartGoroutine, PoolUnchanged,
                accumulatorVars, closeVars
  <2>3. CASE WorkerNext
    BY <2>3 DEF WorkerNext, SendFailsAndRetries, SendToRetryQueue, ReleaseSlot, FinishTask,
                WorkerUnchanged, accumulatorVars, closeVars
  <2>4. CASE CloseNext
    BY <2>4 DEF CloseNext, BeginClose, SetAccumulatorFlag, SetRetryQueueFlag, MoverEnded, PoolEnded,
                WorkersEnded, PollTaskCount, PollQueue, TimeIsUp, PollAgain, CloserGoes, Raise,
                CloseUnchanged, accumulatorVars, batchVars
  <2>5. ASSUME NEW c \in Call, PassWaitTime(c) \/ SleepInWaitTime(c)
        PROVE  UNCHANGED <<batchOf, result, totalDataSize, producerLogGroupSize, flags>>
    BY <2>5 DEF PassWaitTime, SleepInWaitTime, batchVars, closeVars
  <2>6. CASE (\E b \in Batch : TimePasses(b)) \/ Terminated \/ UNCHANGED vars
    BY <2>6 DEF TimePasses, Terminated, vars, accumulatorVars, batchVars, closeVars
  <2>. QED BY <2>1, <2>2, <2>3, <2>4, <2>5, <2>6 DEF Next
<1>2. Held' = Held /\ \A b \in Batch : Members(b)' = Members(b)
  BY <1>1 DEF Held, Settled, Members
<1>3. SizesCover'
  BY <1>1, <1>2 DEF SpaceInv, SizesCover, Bytes
<1>4. NoFalseShortage'
  BY <1>1, <1>2 DEF SpaceInv, NoFalseShortage, CachedBytes, Bytes
<1>. QED BY <1>3, <1>4

LEMMA SpaceStep == SpaceInv /\ [Next]_vars => SpaceInv'
<1>. SUFFICES ASSUME SpaceInv, [Next]_vars PROVE SpaceInv'
  OBVIOUS
<1>1. PlaceInv'
  BY PlaceStep DEF SpaceInv
<1>. QED BY <1>1, SpaceSend, SpaceAnswer, SpaceElsewhere DEF SpaceInv

LEMMA SpaceInit == Init => SpaceInv
<1>. SUFFICES ASSUME Init PROVE SpaceInv
  OBVIOUS
<1>1. NoBatch \notin Batch /\ batchOf = [c \in Call |-> NoBatch] /\ producerLogGroupSize = 0
      /\ totalDataSize = [b \in Batch |-> 0]
  BY BatchKeys, PlaceInit DEF Init
<1>2. Held = {} /\ \A b \in Batch : Members(b) = {}
  BY <1>1 DEF Held, Members
<1>3. Cardinality(Bytes({})) = 0
  BY FS_EmptySet DEF Bytes
<1>4. NoFalseShortage
  BY <1>1, <1>2, <1>3 DEF NoFalseShortage, CachedBytes
<1>5. SizesCover
  BY <1>1, <1>2, <1>3 DEF SizesCover
<1>. QED BY <1>4, <1>5, PlaceInit DEF SpaceInv

\* A Send call never waits for space that is there: every way a batch can end releases at least
\* what its logs had been counted with.
THEOREM SpaceIsReleased == Spec => []NoFalseShortage
<1>1. SpaceInv => NoFalseShortage
  BY DEF SpaceInv
<1>. QED BY <1>1, SpaceInit, SpaceStep, PTL DEF Spec
=============================================================================
