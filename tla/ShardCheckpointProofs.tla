------------------------ MODULE ShardCheckpointProofs ------------------------
(***************************************************************************)
(* Theorems about the checkpoint of a shard: what a consumer loses or      *)
(* repeats, and that one which shuts down in order leaves a checkpoint     *)
(* behind all the data it has processed, however often saving had failed   *)
(* before.  They hold under the conditions named here; for each condition  *)
(* that is left out there is a run that shows what happens without it.     *)
(***************************************************************************)
EXTENDS ShardConsumerProofs

-----------------------------------------------------------------------------
(* Loss and repetition *)


\* The group starts at the beginning, the processor goes never back, and its
\* Shutdown saves nothing that Process did not save.
LossContract == CursorPosition = "BEGIN_CURSOR" /\ ~Resets /\ ~ShutdownSaves

Covered(c) == \A p \in Data : p < c => p \in processed
Reached(c) == \A p \in Data : p < c => p \in processed \cup lastFetchLogGroupList

\* The task is behind a call of Process.
AfterProcess ==
  \/ task \in {"processed", "finish"}
  \/ task = "flush" /\ flushFor \in {"process", "processed"}

InForcedSave == task = "flush" /\ flushFor = "process"

LossInv ==
  /\ ShapeInv
  /\ Covered(checkPoint) /\ Covered(pendingCheckPoint) /\ Covered(currentCursor)
  /\ Reached(nextCursor) /\ Reached(nextFetchCursor)
  /\ AfterProcess /\ ~outcome.err => lastFetchLogGroupList \subseteq processed
  /\ InForcedSave => lastFetchLogGroupList \subseteq processed
  /\ outcome.rollBackCheckpoint = NoCursor

LEMMA LossInit == Init => LossInv
<1>. SUFFICES ASSUME Init PROVE LossInv
  OBVIOUS
<1>1. \A p \in Data : ~(p < NoCursor)
  BY ConsumerAssumption DEF ConsumerAssumption, NoCursor
<1>. QED BY <1>1, ShapeInit DEF Init, LossInv, Covered, Reached, AfterProcess, InForcedSave, NoOutcome

LEMMA BelowStart == \A p \in Data : ~(p < 0) /\ ~(p < NoCursor) /\ p \in Int
BY ConsumerAssumption DEF ConsumerAssumption, NoCursor

\* A step that moves no cursor and drops no groups
LEMMA StayingLosesNothing ==
  ASSUME LossInv, ShapeInv', processed \subseteq processed',
         UNCHANGED <<checkPoint, tracker, nextFetchCursor, lastFetchLogGroupList, outcome>>,
         AfterProcess' => AfterProcess,
         InForcedSave' => InForcedSave
  PROVE  LossInv'
BY DEF LossInv, Covered, Reached, tracker

LEMMA LossWorker == ASSUME LossInv, ShapeInv', WorkerNext PROVE LossInv'
<1>1. (AfterProcess' => AfterProcess) /\ (InForcedSave' => InForcedSave)
  BY TaskOfFits DEF WorkerNext, Consume, ConsumerShutDown, AfterProcess, InForcedSave, LossInv, ShapeInv, TypeOK, Status, flush
<1>. QED BY <1>1, StayingLosesNothing DEF WorkerNext, Consume, ConsumerShutDown, worker, service, history

LEMMA LossInitialize ==
  ASSUME LossContract, LossInv, ShapeInv', InitializeNext PROVE LossInv'
<1>1. CASE InitializeFails \/ NoCheckPoint
  BY <1>1, StayingLosesNothing
  DEF InitializeFails, NoCheckPoint, UpdateStatus, AfterProcess, InForcedSave, worker, service, history
<1>2. CASE InitCheckPoint
  <2>1. lastFetchLogGroupList = {} /\ ~AfterProcess' /\ ~InForcedSave'
    BY <1>2 DEF InForcedSave, InitCheckPoint, UpdateStatus, AfterProcess, LossInv, ShapeInv, TaskFits, ListFits
  <2>. QED BY <1>2, <2>1 DEF InitCheckPoint, LossInv, Covered, Reached, service, history
<1>3. CASE InitCursor
  <2>1. ~AfterProcess' /\ ~InForcedSave' /\ nextFetchCursor' = 0
    BY <1>3 DEF InForcedSave, InitCursor, UpdateStatus, AfterProcess, LossContract, StartCursor
  <2>. QED BY <1>3, <2>1, BelowStart DEF InitCursor, LossInv, Covered, Reached, service, tracker
<1>. QED BY <1>1, <1>2, <1>3 DEF InitializeNext

LEMMA LossFetch == ASSUME LossInv, ShapeInv', FetchNext PROVE LossInv'
<1>1. CASE FetchFails \/ FlushAfterEmptyFetch \/ EmptyFetchDone
  BY <1>1, StayingLosesNothing
  DEF FetchFails, FlushAfterEmptyFetch, EmptyFetchDone, UpdateStatus, AfterProcess, InForcedSave, worker, service, history
<1>2. CASE Fetch
  <2>1. PICK n \in nextFetchCursor .. logEnd : Fetch!(n)
    BY <1>2 DEF Fetch
  <2>2. lastFetchLogGroupList = {} /\ nextFetchCursor \in Int /\ n \in Int
    BY <2>1, CursorFacts DEF LossInv, ShapeInv, TypeOK, TaskFits, ListFits, Cursor
  <2>3. Covered(nextFetchCursor)
    BY <2>2 DEF LossInv, Reached, Covered
  <2>4. \A p \in Data : p < n => p < nextFetchCursor \/ p \in PullLogs(nextFetchCursor, n)
    BY <2>2, BelowStart DEF PullLogs
  <2>5. ~AfterProcess' /\ ~InForcedSave'
    BY <2>1 DEF AfterProcess, InForcedSave, UpdateStatus
  <2>. QED BY <2>1, <2>3, <2>4, <2>5 DEF LossInv, Covered, Reached, service, history
<1>. QED BY <1>1, <1>2 DEF FetchNext

LEMMA LossProcess ==
  ASSUME LossContract, LossInv, ShapeInv', ProcessNext PROVE LossInv'
<1>1. CASE ProcessSucceeds
  <2>1. lastFetchLogGroupList \subseteq processed' /\ processed \subseteq processed'
        /\ lastFetchLogGroupList' = lastFetchLogGroupList
    BY <1>1 DEF ProcessSucceeds
  <2>2. \A p \in Data : p < nextCursor => p \in processed'
    BY <2>1 DEF LossInv, Reached
  <2>3. pendingCheckPoint' \in {pendingCheckPoint, nextCursor}
    BY <1>1 DEF ProcessSucceeds
  <2>4. Covered(pendingCheckPoint)'
    BY <2>1, <2>2, <2>3 DEF LossInv, Covered
  <2>. QED BY <1>1, <2>1, <2>4 DEF ProcessSucceeds, Returns, LossInv, InForcedSave, Covered, Reached, service
<1>2. CASE ProcessFails
  BY <1>2 DEF ProcessFails, Returns, LossInv, InForcedSave, Covered, Reached, tracker, service, history
<1>3. CASE ProcessPanics
  BY <1>3, StayingLosesNothing DEF ProcessPanics, UpdateStatus, AfterProcess, InForcedSave, service, history
<1>4. CASE FlushAfterProcess \/ NoFlushAfterProcess
  BY <1>4, StayingLosesNothing
  DEF FlushAfterProcess, NoFlushAfterProcess, AfterProcess, InForcedSave, worker, service, history
<1>5. CASE FinishProcess
  <2>1. nextFetchCursor' = nextFetchCursor /\ ~AfterProcess' /\ ~InForcedSave'
    BY <1>5 DEF FinishProcess, UpdateStatus, AfterProcess, InForcedSave, LossInv
  <2>2. lastFetchLogGroupList \subseteq processed \/ lastFetchLogGroupList' = lastFetchLogGroupList
    BY <1>5 DEF FinishProcess, AfterProcess, LossInv
  <2>. QED BY <1>5, <2>1, <2>2 DEF FinishProcess, LossInv, Covered, Reached, tracker, service, history
<1>. QED BY <1>1, <1>2, <1>3, <1>4, <1>5 DEF ProcessNext, ProcessResets, LossContract

LEMMA LossShutdown ==
  ASSUME LossContract, LossInv, ShapeInv', ShutdownNext PROVE LossInv'
<1>1. UNCHANGED <<checkPoint, tracker, nextFetchCursor, lastFetchLogGroupList, outcome, processed>>
  BY DEF ShutdownNext, ShutdownFails, Shutdown, LossContract, UpdateStatus, worker, tracker, service, history
<1>2. (AfterProcess' => AfterProcess) /\ (InForcedSave' => InForcedSave)
  BY DEF ShutdownNext, ShutdownFails, Shutdown, UpdateStatus, AfterProcess, InForcedSave
<1>. QED BY <1>1, <1>2, StayingLosesNothing

\* Returning from flushCheckPoint; outcome only gets more erroneous.
LEMMA LossFlushed ==
  ASSUME LossInv, ShapeInv', task = "flush", NEW ok \in BOOLEAN, Flushed(ok),
         UNCHANGED <<currentCursor, nextCursor, pendingCheckPoint, processed>>,
         checkPoint' \in {checkPoint, pendingCheckPoint}
  PROVE  LossInv'
<1>1. UNCHANGED <<nextFetchCursor, lastFetchLogGroupList>>
  BY DEF Flushed
<1>2. task' # "flush" /\ (AfterProcess' => AfterProcess)
  BY DEF Flushed, AfterProcess, InForcedSave, UpdateStatus
<1>3. CASE flushFor = "process"
  <2>1. PICK err \in BOOLEAN : Returns(err, NoCursor)
    BY <1>3 DEF Flushed
  <2>2. outcome'.rollBackCheckpoint = NoCursor /\ lastFetchLogGroupList \subseteq processed
    BY <1>3, <2>1 DEF Returns, LossInv, InForcedSave
  <2>. QED BY <1>1, <1>2, <2>2 DEF LossInv, Covered, Reached, InForcedSave
<1>4. CASE flushFor # "process"
  <2>1. UNCHANGED outcome
    BY <1>4 DEF Flushed
  <2>. QED BY <1>1, <1>2, <2>1 DEF LossInv, Covered, Reached, InForcedSave
<1>. QED BY <1>3, <1>4

LEMMA LossFlush == ASSUME LossInv, ShapeInv', FlushNext PROVE LossInv'
<1>. USE LossFlushed DEF tracker, service, history
<1>1. CASE NothingToFlush
  BY <1>1 DEF NothingToFlush
<1>2. CASE UpdateCheckPoint
  BY <1>2 DEF UpdateCheckPoint
<1>3. CASE CheckPointRejected
  BY <1>3 DEF CheckPointRejected
<1>4. CASE CheckPointFails
  <2>1. CASE UNCHANGED <<worker, task>>
    BY <1>4, <2>1 DEF CheckPointFails, LossInv, Covered, Reached, AfterProcess, InForcedSave, worker
  <2>2. CASE Flushed(FALSE)
    BY <1>4, <2>2 DEF CheckPointFails
  <2>. QED BY <1>4, <2>1, <2>2 DEF CheckPointFails
<1>. QED BY <1>1, <1>2, <1>3, <1>4 DEF FlushNext

LEMMA LossOutside ==
  ASSUME LossContract, LossInv, ShapeInv', OutsideNext PROVE LossInv'
<1>1. CASE Crash \/ AssignAgain
  BY <1>1, BelowStart
  DEF Crash, AssignAgain, NewConsumer, LossInv, Covered, Reached, AfterProcess, InForcedSave, NoOutcome, service
<1>2. CASE HeartBeat \/ Append \/ MoveShard
  BY <1>2, StayingLosesNothing DEF HeartBeat, Append, MoveShard, AfterProcess, InForcedSave, worker, flush, history
<1>3. CASE OtherConsumes
  <2>. DEFINE from == IF checkPoint = NoCursor THEN StartCursor ELSE checkPoint
  <2>1. PICK n \in from + 1 .. logEnd :
          /\ processed' = processed \cup PullLogs(from, n)
          /\ checkPoint' = n
          /\ UNCHANGED <<worker, task, tracker, flush>>
    BY <1>3 DEF OtherConsumes
  <2>2. from \in Int /\ n \in Int /\ Covered(from)
    BY <2>1, BelowStart, CursorFacts
    DEF LossInv, ShapeInv, TypeOK, Covered, LossContract, StartCursor, NoCursor
  <2>3. \A p \in Data : p < n => p < from \/ p \in PullLogs(from, n)
    BY <2>2, BelowStart DEF PullLogs
  <2>4. Covered(checkPoint)'
    BY <2>1, <2>2, <2>3 DEF Covered
  <2>. QED BY <2>1, <2>4 DEF LossInv, Covered, Reached, AfterProcess, InForcedSave, worker, tracker, flush
<1>. QED BY <1>1, <1>2, <1>3 DEF OutsideNext

LEMMA LossStep == ASSUME LossContract, LossInv, [Next]_vars PROVE LossInv'
<1>1. ShapeInv'
  BY ShapeStep DEF LossInv
<1>2. CASE Next
  BY <1>1, <1>2, LossWorker, LossInitialize, LossFetch, LossProcess, LossShutdown, LossFlush, LossOutside
  DEF Next, TaskNext
<1>3. CASE UNCHANGED vars
  BY <1>1, <1>3, StayingLosesNothing DEF vars, worker, flush, service, history, AfterProcess, InForcedSave
<1>. QED BY <1>2, <1>3

\* The checkpoint of the service has only processed data behind it.
THEOREM NothingIsLost == ASSUME LossContract PROVE Spec => []NoDataLoss
<1>1. Init => LossInv
  BY LossInit
<1>2. LossInv /\ [Next]_vars => LossInv'
  BY LossStep
<1>3. LossInv => NoDataLoss
  BY DEF LossInv, Covered, NoDataLoss
<1>. QED BY <1>1, <1>2, <1>3, PTL DEF Spec

\* What a consumer has fetched is processed or still in its hands.
THEOREM FetchedDataIsKept == ASSUME LossContract PROVE Spec => []FetchedIsKept
<1>1. Init => LossInv
  BY LossInit
<1>2. LossInv /\ [Next]_vars => LossInv'
  BY LossStep
<1>3. LossInv => FetchedIsKept
  BY DEF LossInv, Reached, FetchedIsKept
<1>. QED BY <1>1, <1>2, <1>3, PTL DEF Spec

----------------------------------------------------------------------------
(* The refinement of ShardConsumption *)

\* The data between two cursors
LEMMA PullInterval ==
  ASSUME NEW c \in Cursor, NEW n \in Cursor
  PROVE  PullLogs(c, n) = {p \in Data : c <= p /\ p < n}
<1>1. PullLogs(c, n) = (c .. n - 1) \cap Data
  BY DEF PullLogs
<1>2. c \in Int /\ n \in Int
  BY DEF Cursor
<1>3. \A p \in Data : p \in c .. n - 1 <=> c <= p /\ p < n
  BY <1>2, BelowStart
<1>. QED BY <1>1, <1>3

\* A step that processes nothing and saves nothing
LEMMA SilentStep ==
  ASSUME UNCHANGED <<processed, checkPoint>>,
         \/ firstCursor' = firstCursor
         \/ firstCursor = NoCursor /\ firstCursor' \in Cursor
  PROVE  Consumption!Next
<1>1. Consumption!Start /\ Consumption!Save
  BY DEF Consumption!Start, Consumption!Save, Consumption!NoCursor, Consumption!Cursor, NoCursor, Cursor
<1>2. 0 \in Consumption!Cursor
  BY ConsumerAssumption DEF ConsumerAssumption, Consumption!Cursor
<1>3. /\ Consumption!Covers(processed, firstCursor', 0)
      /\ processed' = processed \cup {p \in Data : 0 <= p /\ p < 0}
  BY BelowStart DEF Consumption!Covers
<1>4. Consumption!ProcessInOrder
  BY <1>2, <1>3 DEF Consumption!ProcessInOrder
<1>. QED BY <1>1, <1>4 DEF Consumption!Next

\* A step that saves a checkpoint with processed data behind it
LEMMA SavingStep ==
  ASSUME UNCHANGED <<processed, firstCursor>>, NEW c \in Cursor, Covered(c), checkPoint' = c
  PROVE  Consumption!Next
<1>1. Consumption!Start
  BY DEF Consumption!Start
<1>2. Consumption!Save
  BY DEF Consumption!Save, Consumption!Covers, Consumption!Cursor, Cursor, Covered
<1>3. 0 \in Consumption!Cursor
  BY ConsumerAssumption DEF ConsumerAssumption, Consumption!Cursor
<1>4. /\ Consumption!Covers(processed, firstCursor', 0)
      /\ processed' = processed \cup {p \in Data : 0 <= p /\ p < 0}
  BY BelowStart DEF Consumption!Covers
<1>5. Consumption!ProcessInOrder
  BY <1>3, <1>4 DEF Consumption!ProcessInOrder
<1>. QED BY <1>1, <1>2, <1>5 DEF Consumption!Next

LEMMA ConsumptionInit == Init => Consumption!Init
BY DEF Init, Consumption!Init, Consumption!NoCursor, NoCursor

LEMMA TaskConsumes ==
  ASSUME LossContract, LossInv, TaskNext PROVE Consumption!Next
<1>. USE DEF service, history
<1>1. CASE InitializeNext
  <2>1. UNCHANGED <<processed, checkPoint>>
    BY <1>1 DEF InitializeNext, InitializeFails, InitCheckPoint, NoCheckPoint, InitCursor
  <2>2. StartCursor \in Cursor
    BY ConsumerAssumption DEF ConsumerAssumption, StartCursor, Cursor, LossContract
  <2>3. \/ firstCursor' = firstCursor
        \/ firstCursor = NoCursor /\ firstCursor' \in Cursor
    BY <1>1, <2>2 DEF InitializeNext, InitializeFails, InitCheckPoint, NoCheckPoint, InitCursor, FirstCursor
  <2>. QED BY <2>1, <2>3, SilentStep
<1>2. CASE FetchNext \/ ShutdownNext
  BY <1>2, SilentStep DEF FetchNext, FetchFails, Fetch, FlushAfterEmptyFetch, EmptyFetchDone,
     ShutdownNext, ShutdownFails, Shutdown
<1>3. CASE ProcessSucceeds
  <2>1. /\ currentCursor \in Cursor /\ nextCursor \in Cursor
        /\ lastFetchLogGroupList = PullLogs(currentCursor, nextCursor)
    BY <1>3 DEF ProcessSucceeds, LossInv, ShapeInv, TaskFits, ListFits
  <2>2. PullLogs(currentCursor, nextCursor) = {p \in Data : currentCursor <= p /\ p < nextCursor}
    BY <2>1, PullInterval
  <2>3. processed' = processed \cup {p \in Data : currentCursor <= p /\ p < nextCursor}
        /\ UNCHANGED <<firstCursor, checkPoint>>
    BY <1>3, <2>1, <2>2 DEF ProcessSucceeds
  <2>4. Consumption!Covers(processed, firstCursor', currentCursor)
    BY DEF Consumption!Covers, LossInv, Covered
  <2>5. Consumption!ProcessInOrder
    BY <2>1, <2>3, <2>4 DEF Consumption!ProcessInOrder, Consumption!Cursor, Cursor
  <2>. QED BY <2>3, <2>5 DEF Consumption!Next, Consumption!Start, Consumption!Save
<1>4. CASE ProcessNext /\ ~ProcessSucceeds
  BY <1>4, SilentStep DEF ProcessNext, ProcessFails, ProcessPanics, ProcessResets, LossContract,
     FlushAfterProcess, NoFlushAfterProcess, FinishProcess
<1>5. CASE FlushNext
  <2>1. UNCHANGED <<processed, firstCursor>>
    BY <1>5 DEF FlushNext, NothingToFlush, UpdateCheckPoint, CheckPointRejected, CheckPointFails
  <2>2. checkPoint' = checkPoint \/ (checkPoint' = pendingCheckPoint /\ SavePending)
    <3>1. CASE NothingToFlush \/ CheckPointRejected
      BY <3>1 DEF NothingToFlush, CheckPointRejected
    <3>2. CASE UpdateCheckPoint \/ CheckPointFails
      BY <3>2 DEF UpdateCheckPoint, CheckPointFails
    <3>. QED BY <1>5, <3>1, <3>2 DEF FlushNext
  <2>3. CASE checkPoint' = checkPoint
    BY <2>1, <2>3, SilentStep
  <2>4. CASE checkPoint' = pendingCheckPoint /\ SavePending
    <3>1. pendingCheckPoint \in Cursor /\ Covered(pendingCheckPoint)
      BY <2>4 DEF SavePending, LossInv, ShapeInv, TypeOK, MaybeCursor
    <3>. QED BY <2>1, <2>4, <3>1, SavingStep
  <2>. QED BY <2>2, <2>3, <2>4
<1>. QED BY <1>1, <1>2, <1>3, <1>4, <1>5 DEF TaskNext

\* The other consumer processes and saves at once.
LEMMA OtherStep == ASSUME LossContract, LossInv, OtherConsumes PROVE Consumption!Next
<1>. DEFINE from == IF checkPoint = NoCursor THEN StartCursor ELSE checkPoint
<1>1. PICK n \in from + 1 .. logEnd :
        /\ processed' = processed \cup PullLogs(from, n)
        /\ checkPoint' = n /\ FirstCursor(from)
  BY DEF OtherConsumes
<1>2. from \in Cursor /\ n \in Cursor /\ Covered(from)
  <2>1. from \in Cursor /\ logEnd \in Cursor
    BY ConsumerAssumption
    DEF ConsumerAssumption, StartCursor, LossContract, Cursor, LossInv, ShapeInv, TypeOK, MaybeCursor
  <2>2. \A a, b \in Cursor : a + 1 .. b \subseteq Cursor
    BY ConsumerAssumption DEF ConsumerAssumption, Cursor
  <2>3. Covered(from)
    BY BelowStart DEF LossInv, Covered, LossContract, StartCursor
  <2>. QED BY <2>1, <2>2, <2>3
<1>3. PullLogs(from, n) = {p \in Data : from <= p /\ p < n}
  BY <1>2, PullInterval
<1>4. Consumption!Start
  BY <1>1, <1>2 DEF FirstCursor, Consumption!Start, Consumption!NoCursor, Consumption!Cursor, NoCursor, Cursor
<1>5. Consumption!ProcessInOrder
  <2>1. Consumption!Covers(processed, firstCursor', from)
    BY <1>2 DEF Consumption!Covers, Covered
  <2>. QED BY <1>1, <1>2, <1>3, <2>1 DEF Consumption!ProcessInOrder, Consumption!Cursor, Cursor
<1>6. Consumption!Save
  <2>1. \A p \in Data : p < n => p \in processed'
    BY <1>1, <1>2, <1>3, BelowStart, ConsumerAssumption DEF Covered, Cursor, ConsumerAssumption
  <2>. QED BY <1>1, <1>2, <2>1 DEF Consumption!Save, Consumption!Covers, Consumption!Cursor, Cursor
<1>. QED BY <1>4, <1>5, <1>6 DEF Consumption!Next

LEMMA ConsumptionStep ==
  ASSUME LossContract, LossInv, [Next]_vars
  PROVE  [Consumption!Next]_<<processed, checkPoint, firstCursor>>
<1>1. CASE WorkerNext \/ Crash \/ AssignAgain \/ HeartBeat \/ Append \/ MoveShard
          \/ UNCHANGED vars
  BY <1>1 DEF WorkerNext, Consume, ConsumerShutDown, Crash, AssignAgain, NewConsumer, HeartBeat,
     Append, MoveShard, vars, service, history
<1>. QED BY <1>1, TaskConsumes, OtherStep DEF Next, OutsideNext

\* The consumer of a shard implements ShardConsumption: data is processed in
\* order, and a checkpoint is saved only behind processed data.
THEOREM ShardIsConsumed == ASSUME LossContract PROVE Spec => ImplementsConsumption
<1>1. Init => LossInv /\ Consumption!Init
  BY LossInit, ConsumptionInit
<1>2. LossInv /\ [Next]_vars => LossInv'
  BY LossStep
<1>3. LossInv /\ [Next]_vars => [Consumption!Next]_<<processed, checkPoint, firstCursor>>
  BY ConsumptionStep
<1>. QED BY <1>1, <1>2, <1>3, PTL DEF Spec, ImplementsConsumption, Consumption!Spec

-----------------------------------------------------------------------------
(* The checkpoint after an orderly shutdown *)

\* The group starts at the beginning, Process saves after each success and never
\* goes back, and the service gives the shard to nobody else meanwhile.
SaveContract ==
  CursorPosition = "BEGIN_CURSOR" /\ "no" \notin Saves /\ ~Resets /\ ~ShardMoves

\* The task is behind a call of Process that succeeded.
Succeeded ==
  \/ task \in {"processed", "finish"} /\ ~outcome.err
  \/ task = "flush" /\ flushFor = "processed" /\ ~outcome.err
  \/ task = "flush" /\ flushFor = "process"

\* The cursors are in order: saved <= checkPoint <= pending <= fetched.
CursorsInOrder ==
  /\ savedCheckPoint <= checkPoint
  /\ pendingCheckPoint = NoCursor \/ checkPoint <= pendingCheckPoint
  /\ pendingCheckPoint <= nextCursor
  /\ nextCursor \in {NoCursor, nextFetchCursor}
  /\ nextFetchCursor # NoCursor => checkPoint <= nextFetchCursor
  /\ consumerStatus = "INITIALIZING" => nextFetchCursor = NoCursor
  /\ task = "getCursor" => checkPoint = NoCursor

\* What was fetched and is not in the list is behind a checkpoint.
Behind(c, list, pending, cp) == \A p \in Data : p < c /\ p \notin list => p < pending \/ p < cp

SaveInv ==
  /\ ShapeInv /\ CursorsInOrder /\ owner
  /\ Behind(nextFetchCursor, lastFetchLogGroupList, pendingCheckPoint, checkPoint)
  /\ Succeeded => pendingCheckPoint = nextFetchCursor
  /\ outcome.rollBackCheckpoint = NoCursor

LEMMA CursorsAreInt == TypeOK =>
  /\ nextFetchCursor \in Int /\ nextCursor \in Int /\ pendingCheckPoint \in Int
  /\ savedCheckPoint \in Int /\ checkPoint \in Int /\ logEnd \in Nat
  /\ nextFetchCursor >= NoCursor /\ checkPoint >= NoCursor /\ pendingCheckPoint >= NoCursor
  /\ nextCursor >= NoCursor
BY ConsumerAssumption DEF ConsumerAssumption, TypeOK, MaybeCursor, Cursor, NoCursor

LEMMA DataIsNat == Data \subseteq Nat
BY ConsumerAssumption DEF ConsumerAssumption

LEMMA SaveInit == Init => SaveInv
<1>. SUFFICES ASSUME Init PROVE SaveInv
  OBVIOUS
<1>1. Behind(NoCursor, {}, NoCursor, NoCursor)
  BY DataIsNat DEF Behind, NoCursor
<1>2. CursorsInOrder
  BY DEF Init, CursorsInOrder, NoCursor
<1>. QED BY <1>1, <1>2, ShapeInit DEF Init, SaveInv, Succeeded, NoOutcome

\* A step that moves no cursor, drops no groups and does not leave Process
LEMMA StayingSaves ==
  ASSUME SaveInv, ShapeInv',
         UNCHANGED <<checkPoint, owner, tracker, nextFetchCursor, lastFetchLogGroupList, outcome>>,
         Succeeded' => Succeeded, task' = "getCursor" => checkPoint = NoCursor,
         consumerStatus' = "INITIALIZING" => consumerStatus = "INITIALIZING"
  PROVE  SaveInv'
BY DEF SaveInv, CursorsInOrder, Behind, tracker

LEMMA SaveWorker == ASSUME SaveInv, ShapeInv', WorkerNext PROVE SaveInv'
<1>1. /\ Succeeded' => Succeeded
      /\ task' = "getCursor" => task = "getCursor"
  BY TaskOfFits DEF WorkerNext, Consume, ConsumerShutDown, Succeeded, SaveInv, ShapeInv, TypeOK,
     Status, flush, worker
<1>. QED BY <1>1, StayingSaves
     DEF WorkerNext, Consume, ConsumerShutDown, worker, service, SaveInv, CursorsInOrder

LEMMA SaveInitialize == ASSUME SaveContract, SaveInv, ShapeInv', InitializeNext PROVE SaveInv'
<1>. USE CursorsAreInt DEF SaveInv, ShapeInv
<1>0. nextFetchCursor = NoCursor /\ nextCursor = NoCursor /\ pendingCheckPoint = NoCursor
      /\ lastFetchLogGroupList = {}
  <2>1. consumerStatus = "INITIALIZING"
    BY DEF InitializeNext, InitializeFails, InitCheckPoint, NoCheckPoint, InitCursor, TaskFits
  <2>. QED BY <2>1 DEF CursorsInOrder, ListFits, NoCursor
<1>1. CASE InitializeFails \/ NoCheckPoint
  <2>1. ~Succeeded' /\ (consumerStatus' = "INITIALIZING" => consumerStatus = "INITIALIZING")
    BY <1>1 DEF InitializeFails, NoCheckPoint, UpdateStatus, Succeeded, TaskFits
  <2>. QED BY <1>1, <2>1, StayingSaves
       DEF InitializeFails, NoCheckPoint, UpdateStatus, worker, service
<1>2. CASE InitCheckPoint
  <2>1. ~Succeeded' /\ consumerStatus' # "INITIALIZING" /\ task' # "getCursor"
    BY <1>2 DEF InitCheckPoint, UpdateStatus, StatusAfter, Succeeded, TaskFits
  <2>2. CursorsInOrder'
    BY <1>0, <1>2, <2>1 DEF InitCheckPoint, CursorsInOrder, service
  <2>3. Behind(checkPoint, {}, pendingCheckPoint, checkPoint)
    BY DEF Behind
  <2>. QED BY <1>0, <1>2, <2>1, <2>2, <2>3 DEF InitCheckPoint, service
<1>3. CASE InitCursor
  <2>1. /\ ~Succeeded' /\ consumerStatus' # "INITIALIZING" /\ task' # "getCursor"
        /\ nextFetchCursor' = 0 /\ checkPoint = NoCursor
    BY <1>3 DEF InitCursor, UpdateStatus, StatusAfter, Succeeded, TaskFits, CursorsInOrder,
       SaveContract, StartCursor
  <2>2. CursorsInOrder'
    BY <1>0, <1>3, <2>1 DEF InitCursor, CursorsInOrder, service, tracker, NoCursor
  <2>3. Behind(0, {}, pendingCheckPoint, checkPoint)
    BY DataIsNat DEF Behind
  <2>. QED BY <1>0, <1>3, <2>1, <2>2, <2>3 DEF InitCursor, service, tracker
<1>. QED BY <1>1, <1>2, <1>3 DEF InitializeNext

LEMMA SaveFetch == ASSUME SaveInv, ShapeInv', FetchNext PROVE SaveInv'
<1>1. CASE FetchFails \/ FlushAfterEmptyFetch \/ EmptyFetchDone
  <2>1. /\ ~Succeeded' /\ task' # "getCursor"
        /\ consumerStatus' = "INITIALIZING" => consumerStatus = "INITIALIZING"
    BY <1>1 DEF FetchFails, FlushAfterEmptyFetch, EmptyFetchDone, UpdateStatus, StatusAfter,
       Succeeded, worker
  <2>. QED BY <1>1, <2>1, StayingSaves
       DEF FetchFails, FlushAfterEmptyFetch, EmptyFetchDone, UpdateStatus, worker, service
<1>2. CASE Fetch
  <2>1. PICK n \in nextFetchCursor .. logEnd : Fetch!(n)
    BY <1>2 DEF Fetch
  <2>2. consumerStatus = "PULLING" /\ nextFetchCursor \in Cursor /\ lastFetchLogGroupList = {}
    BY <2>1 DEF SaveInv, ShapeInv, TaskFits, ListFits
  <2>3. n \in Int /\ nextFetchCursor <= n /\ nextFetchCursor # NoCursor
    BY <2>1, <2>2, CursorFacts, CursorsAreInt DEF SaveInv, ShapeInv
  <2>4. ~Succeeded' /\ consumerStatus' # "INITIALIZING" /\ task' # "getCursor"
    BY <2>1, <2>2 DEF Succeeded, UpdateStatus, StatusAfter
  <2>5. CursorsInOrder'
    BY <2>1, <2>3, <2>4, CursorsAreInt DEF SaveInv, ShapeInv, CursorsInOrder, service, NoCursor
  <2>6. Behind(n, PullLogs(nextFetchCursor, n), pendingCheckPoint, checkPoint)
    BY <2>2, <2>3, DataIsNat, CursorsAreInt
    DEF SaveInv, ShapeInv, Behind, PullLogs
  <2>. QED BY <2>1, <2>4, <2>5, <2>6 DEF SaveInv, service
<1>. QED BY <1>1, <1>2 DEF FetchNext

LEMMA SaveProcess == ASSUME SaveContract, SaveInv, ShapeInv', ProcessNext PROVE SaveInv'
<1>0. consumerStatus = "PROCESSING"
  BY DEF ProcessNext, ProcessSucceeds, ProcessFails, ProcessPanics, ProcessResets, FlushAfterProcess,
     NoFlushAfterProcess, FinishProcess, SaveInv, ShapeInv, TaskFits
<1>1. CASE ProcessSucceeds
  <2>1. nextCursor \in Cursor
    BY <1>0 DEF SaveInv, ShapeInv, ListFits
  <2>2. nextCursor = nextFetchCursor /\ pendingCheckPoint' = nextCursor
    BY <1>1, <2>1, CursorFacts DEF ProcessSucceeds, SaveContract, SaveInv, CursorsInOrder
  <2>3. UNCHANGED <<nextFetchCursor, lastFetchLogGroupList, nextCursor, savedCheckPoint,
                    checkPoint, owner, consumerStatus>>
        /\ task' # "getCursor" /\ outcome'.rollBackCheckpoint = NoCursor
    BY <1>1 DEF ProcessSucceeds, service, Returns
  <2>4. CursorsInOrder'
    BY <2>1, <2>2, <2>3, <1>0, CursorFacts, CursorsAreInt DEF SaveInv, ShapeInv, CursorsInOrder
  <2>5. Behind(nextFetchCursor, lastFetchLogGroupList, nextFetchCursor, checkPoint)
    BY DEF Behind
  <2>. QED BY <2>2, <2>3, <2>4, <2>5 DEF SaveInv
<1>2. CASE ProcessFails
  <2>1. ~Succeeded' /\ task' # "getCursor" /\ outcome'.rollBackCheckpoint = NoCursor
    BY <1>2 DEF ProcessFails, Returns, Succeeded
  <2>. QED BY <1>2, <2>1 DEF ProcessFails, SaveInv, CursorsInOrder, Behind, tracker, service
<1>3. CASE ProcessPanics
  <2>1. ~Succeeded' /\ task' # "getCursor" /\ consumerStatus' # "INITIALIZING"
    BY <1>0, <1>3 DEF ProcessPanics, Succeeded, UpdateStatus, StatusAfter
  <2>. QED BY <1>3, <2>1, StayingSaves DEF ProcessPanics, service
<1>4. CASE FlushAfterProcess \/ NoFlushAfterProcess
  <2>1. (Succeeded' => Succeeded) /\ task' # "getCursor"
    BY <1>4 DEF FlushAfterProcess, NoFlushAfterProcess, Succeeded, worker
  <2>. QED BY <1>4, <2>1, StayingSaves DEF FlushAfterProcess, NoFlushAfterProcess, worker, service
<1>5. CASE FinishProcess
  <2>1. ~Succeeded' /\ task' # "getCursor" /\ consumerStatus' # "INITIALIZING"
    BY <1>0, <1>5 DEF FinishProcess, Succeeded, UpdateStatus, StatusAfter
  <2>2. UNCHANGED <<nextFetchCursor, tracker, service, outcome>>
    BY <1>5 DEF FinishProcess, SaveInv
  <2>3. CursorsInOrder'
    BY <1>0, <2>1, <2>2 DEF SaveInv, CursorsInOrder, tracker, service
  <2>4. CASE outcome.err
    BY <1>5, <2>1, <2>2, <2>3, <2>4 DEF FinishProcess, SaveInv, Behind, tracker, service
  <2>5. CASE ~outcome.err
    <3>1. pendingCheckPoint = nextFetchCursor
      BY <1>5, <2>5 DEF FinishProcess, SaveInv, Succeeded
    <3>. QED BY <2>1, <2>2, <2>3, <3>1 DEF SaveInv, Behind, tracker, service
  <2>. QED BY <2>4, <2>5
<1>. QED BY <1>1, <1>2, <1>3, <1>4, <1>5 DEF ProcessNext, ProcessResets, SaveContract

LEMMA SaveShutdown == ASSUME SaveInv, ShapeInv', ShutdownNext PROVE SaveInv'
<1>1. CASE ShutdownFails
  <2>1. ~Succeeded' /\ task' # "getCursor" /\ consumerStatus' # "INITIALIZING"
    BY <1>1 DEF ShutdownFails, Succeeded, UpdateStatus, StatusAfter, SaveInv, ShapeInv, TaskFits
  <2>. QED BY <1>1, <2>1, StayingSaves DEF ShutdownFails, service
<1>2. CASE Shutdown
  <2>1. ~Succeeded' /\ task' # "getCursor"
    BY <1>2 DEF Shutdown, Succeeded
  <2>2. /\ UNCHANGED <<worker, nextCursor, savedCheckPoint, service>>
        /\ pendingCheckPoint' \in {pendingCheckPoint, nextCursor}
    BY <1>2 DEF Shutdown
  <2>3. CursorsInOrder'
    BY <2>1, <2>2, CursorsAreInt DEF SaveInv, ShapeInv, CursorsInOrder, worker, service, NoCursor
  <2>4. Behind(nextFetchCursor, lastFetchLogGroupList, pendingCheckPoint', checkPoint)
    BY <2>2, CursorsAreInt, DataIsNat DEF SaveInv, ShapeInv, CursorsInOrder, Behind, NoCursor
  <2>. QED BY <2>1, <2>2, <2>3, <2>4 DEF SaveInv, worker, service
<1>. QED BY <1>1, <1>2 DEF ShutdownNext

LEMMA SaveFlushed ==
  ASSUME SaveInv, ShapeInv', task = "flush", NEW ok \in BOOLEAN, Flushed(ok),
         UNCHANGED <<nextCursor, pendingCheckPoint, owner>>,
         \/ UNCHANGED <<checkPoint, savedCheckPoint>>
         \/ SavePending /\ checkPoint' = pendingCheckPoint /\ savedCheckPoint' \in {savedCheckPoint, pendingCheckPoint}
  PROVE  SaveInv'
<1>1. UNCHANGED <<nextFetchCursor, lastFetchLogGroupList>>
  BY DEF Flushed
<1>2. /\ task' # "getCursor" /\ (Succeeded' => Succeeded)
      /\ outcome'.rollBackCheckpoint = NoCursor
      /\ consumerStatus' = "INITIALIZING" => consumerStatus = "INITIALIZING"
  <2>1. CASE flushFor = "process"
    <3>1. PICK err \in BOOLEAN : Returns(err, NoCursor)
      BY <2>1 DEF Flushed
    <3>. QED BY <2>1, <3>1 DEF Flushed, Returns, Succeeded
  <2>2. CASE flushFor # "process"
    BY <2>2 DEF Flushed, Succeeded, UpdateStatus, StatusAfter, SaveInv
  <2>. QED BY <2>1, <2>2
<1>3. CursorsInOrder'
  BY <1>1, <1>2, CursorsAreInt DEF SaveInv, ShapeInv, CursorsInOrder, SavePending, NoCursor
<1>4. Behind(nextFetchCursor, lastFetchLogGroupList, pendingCheckPoint, checkPoint')
  BY CursorsAreInt, DataIsNat DEF SaveInv, ShapeInv, CursorsInOrder, Behind, SavePending
<1>. QED BY <1>1, <1>2, <1>3, <1>4 DEF SaveInv

LEMMA SaveFlush == ASSUME SaveInv, ShapeInv', FlushNext PROVE SaveInv'
<1>1. CASE NothingToFlush
  BY <1>1, SaveFlushed DEF NothingToFlush, tracker, service
<1>2. CASE UpdateCheckPoint
  BY <1>2, SaveFlushed DEF UpdateCheckPoint
<1>3. CASE CheckPointRejected
  BY <1>3 DEF CheckPointRejected, SaveInv
<1>4. CASE CheckPointFails
  <2>1. /\ UNCHANGED <<tracker, flushFor, owner>> /\ SavePending /\ task = "flush"
        /\ checkPoint' \in {checkPoint, pendingCheckPoint}
    BY <1>4 DEF CheckPointFails
  <2>2. CASE UNCHANGED <<worker, task>>
    <3>1. CursorsInOrder'
      BY <2>1, <2>2, CursorsAreInt
      DEF SaveInv, ShapeInv, CursorsInOrder, SavePending, worker, tracker, NoCursor
    <3>2. Behind(nextFetchCursor, lastFetchLogGroupList, pendingCheckPoint, checkPoint')
      BY <2>1, CursorsAreInt, DataIsNat DEF SaveInv, ShapeInv, CursorsInOrder, Behind, SavePending
    <3>. QED BY <2>1, <2>2, <3>1, <3>2 DEF SaveInv, Succeeded, worker, tracker
  <2>3. CASE Flushed(FALSE)
    BY <2>1, <2>3, SaveFlushed DEF tracker
  <2>. QED BY <1>4, <2>2, <2>3 DEF CheckPointFails
<1>. QED BY <1>1, <1>2, <1>3, <1>4 DEF FlushNext

LEMMA SaveOutside == ASSUME SaveContract, SaveInv, ShapeInv', OutsideNext PROVE SaveInv'
<1>1. CASE Crash \/ AssignAgain
  <2>1. /\ NewConsumer /\ ~Succeeded'
    BY <1>1 DEF Crash, AssignAgain, NewConsumer, Succeeded
  <2>2. CursorsInOrder'
    BY <2>1, CursorsAreInt DEF NewConsumer, SaveInv, ShapeInv, CursorsInOrder, service, NoCursor
  <2>3. Behind(NoCursor, {}, NoCursor, checkPoint)
    BY DataIsNat DEF Behind, NoCursor
  <2>. QED BY <2>1, <2>2, <2>3 DEF NewConsumer, SaveInv, service, NoOutcome
<1>2. CASE HeartBeat \/ Append
  <2>1. (Succeeded' => Succeeded) /\ UNCHANGED task
    BY <1>2 DEF HeartBeat, Append, Succeeded, worker, flush
  <2>. QED BY <1>2, <2>1, StayingSaves DEF HeartBeat, Append, worker, SaveInv, CursorsInOrder
<1>. QED BY <1>1, <1>2 DEF OutsideNext, MoveShard, OtherConsumes, SaveContract, SaveInv

LEMMA SaveStep == ASSUME SaveContract, SaveInv, [Next]_vars PROVE SaveInv'
<1>1. ShapeInv'
  BY ShapeStep DEF SaveInv
<1>2. CASE Next
  BY <1>1, <1>2, SaveWorker, SaveInitialize, SaveFetch, SaveProcess, SaveShutdown, SaveFlush,
     SaveOutside DEF Next, TaskNext
<1>3. CASE UNCHANGED vars
  <2>1. (Succeeded' => Succeeded) /\ UNCHANGED task
    BY <1>3 DEF vars, Succeeded, worker, flush
  <2>. QED BY <1>1, <1>3, <2>1, StayingSaves DEF vars, worker, service, SaveInv, CursorsInOrder
<1>. QED BY <1>2, <1>3

\* Only a flush for the shutdown completes it.
LEMMA CompletingStep ==
  ASSUME SaveInv, [Next]_vars,
         consumerStatus # "SHUTDOWN_COMPLETE", consumerStatus' = "SHUTDOWN_COMPLETE"
  PROVE  \A p \in Data : p < nextFetchCursor /\ p \notin lastFetchLogGroupList => p < checkPoint'
<1>0. Next
  BY DEF vars, worker
<1>1. CASE FlushNext
  <2>1. CASE NothingToFlush
    <3>1. UNCHANGED checkPoint /\ ~SavePending
      BY <2>1 DEF NothingToFlush, service
    <3>. QED BY <3>1, CursorsAreInt, DataIsNat
         DEF SaveInv, ShapeInv, CursorsInOrder, Behind, SavePending, NoCursor
  <2>2. CASE UpdateCheckPoint
    <3>1. checkPoint' = pendingCheckPoint /\ SavePending
      BY <2>2 DEF UpdateCheckPoint
    <3>. QED BY <3>1, CursorsAreInt, DataIsNat
         DEF SaveInv, ShapeInv, CursorsInOrder, Behind, SavePending
  <2>3. CASE CheckPointRejected
    BY <2>3 DEF CheckPointRejected, SaveInv
  <2>4. CASE CheckPointFails
    <3>1. consumerStatus' \in {consumerStatus, StatusAfter(FALSE)}
      BY <2>4 DEF CheckPointFails, Flushed, UpdateStatus, worker
    <3>. QED BY <3>1 DEF StatusAfter
  <2>. QED BY <1>1, <2>1, <2>2, <2>3, <2>4 DEF FlushNext
<1>2. CASE InitializeNext
  BY <1>2 DEF InitializeNext, InitializeFails, InitCheckPoint, NoCheckPoint, InitCursor,
     UpdateStatus, StatusAfter, worker, SaveInv, ShapeInv, TaskFits
<1>3. CASE FetchNext
  BY <1>3 DEF FetchNext, FetchFails, Fetch, FlushAfterEmptyFetch, EmptyFetchDone,
     UpdateStatus, StatusAfter, worker, SaveInv, ShapeInv, TaskFits
<1>4. CASE ProcessNext
  BY <1>4 DEF ProcessNext, ProcessSucceeds, ProcessFails, ProcessPanics, ProcessResets,
     FlushAfterProcess, NoFlushAfterProcess, FinishProcess,
     UpdateStatus, StatusAfter, worker, SaveInv, ShapeInv, TaskFits
<1>5. CASE ShutdownNext \/ WorkerNext \/ OutsideNext
  BY <1>5 DEF ShutdownNext, ShutdownFails, Shutdown, WorkerNext, Consume, ConsumerShutDown,
     OutsideNext, Crash, AssignAgain, NewConsumer, HeartBeat, Append, MoveShard, OtherConsumes,
     UpdateStatus, StatusAfter, worker
<1>. QED BY <1>0, <1>1, <1>2, <1>3, <1>4, <1>5 DEF Next, TaskNext

\* A consumer that shut down leaves nothing processed in front of the checkpoint.
THEOREM ShutdownIsGraceful == ASSUME SaveContract PROVE Spec => ShutdownSavesAll
<1>1. Init => SaveInv
  BY SaveInit
<1>2. SaveInv /\ [Next]_vars => SaveInv'
  BY SaveStep
<1>3. SaveInv /\ [Next]_vars =>
        [consumerStatus # "SHUTDOWN_COMPLETE" /\ consumerStatus' = "SHUTDOWN_COMPLETE" /\ owner =>
           \A p \in Data : p < nextFetchCursor /\ p \notin lastFetchLogGroupList => p < checkPoint']_vars
  BY CompletingStep
<1>. QED BY <1>1, <1>2, <1>3, PTL DEF Spec, ShutdownSavesAll
=============================================================================
