------------------------- MODULE ShardConsumerProofs -------------------------
(***************************************************************************)
(* Theorems about the consumer of a shard, for a shard of any length, any  *)
(* data in it and any number of crashes.                                   *)
(***************************************************************************)
EXTENDS ShardConsumer, TLAPS

----------------------------------------------------------------------------
(* Which task runs in which status *)

\* A task belongs to a status; a fetch cursor and groups are there when needed.
TaskFits ==
  /\ task \in {"getCheckPoint", "getCursor"} => consumerStatus = "INITIALIZING"
  /\ task = "pull" \/ task = "pulledNothing" \/ (task = "flush" /\ flushFor = "pulledNothing")
       => consumerStatus = "PULLING"
  /\ task \in {"process", "processed", "finish"}
     \/ (task = "flush" /\ flushFor \in {"process", "processed"})
       => consumerStatus = "PROCESSING"
  /\ task = "shutdown" \/ (task = "flush" /\ flushFor = "shutdown")
       => consumerStatus = "SHUTTING_DOWN"
  /\ consumerStatus \in {"SHUTTING_DOWN", "SHUTDOWN_COMPLETE"} => shutdownFlag
  /\ consumerStatus = "SHUTDOWN_COMPLETE" => task = "none"

ListFits ==
  /\ consumerStatus \in {"PULLING", "PROCESSING"} => nextFetchCursor \in Cursor
  /\ consumerStatus \in {"INITIALIZING", "PULLING"} => lastFetchLogGroupList = {}
  /\ consumerStatus = "PROCESSING" => lastFetchLogGroupList # {}
  /\ lastFetchLogGroupList # {} =>
       /\ currentCursor \in Cursor /\ nextCursor \in Cursor
       /\ lastFetchLogGroupList = PullLogs(currentCursor, nextCursor)

ShapeInv == TypeOK /\ TaskFits /\ ListFits

LEMMA CursorFacts ==
  /\ LastCursor \in Nat /\ Data \subseteq Cursor
  /\ MaybeCursor = -1 .. LastCursor /\ Cursor \subseteq MaybeCursor /\ NoCursor \in MaybeCursor
  /\ NoCursor \notin Cursor
BY ConsumerAssumption DEF ConsumerAssumption, Cursor, MaybeCursor, NoCursor

LEMMA PullType ==
  ASSUME NEW c, NEW n PROVE PullLogs(c, n) \subseteq Data
BY DEF PullLogs

LEMMA StatusType ==
  ASSUME consumerStatus \in Status, NEW ok \in BOOLEAN PROVE StatusAfter(ok) \in Status
BY DEF StatusAfter, Status

LEMMA TaskOfType ==
  ASSUME consumerStatus \in Status PROVE TaskOf(consumerStatus) \in Task
BY DEF TaskOf, Status, Task

LEMMA ReturnsType ==
  ASSUME NEW err \in BOOLEAN, NEW c \in MaybeCursor, Returns(err, c)
  PROVE  outcome' \in [err : BOOLEAN, rollBackCheckpoint : MaybeCursor]
BY DEF Returns

LEMMA ShapeInit == Init => ShapeInv
<1>. SUFFICES ASSUME Init PROVE ShapeInv
  OBVIOUS
<1>1. NoOutcome \in [err : BOOLEAN, rollBackCheckpoint : MaybeCursor]
  BY CursorFacts DEF NoOutcome
<1>2. 0 \in Cursor /\ 0 \in 0 .. MaxCrashes
  BY ConsumerAssumption DEF ConsumerAssumption, Cursor
<1>3. /\ consumerStatus \in Status /\ task \in Task /\ flushFor \in Caller
      /\ tries \in 0 .. 2 /\ lastFetchLogGroupList \subseteq Data /\ processed \subseteq Data
  BY DEF Init, Status, Task, Caller
<1>6. shutdownFlag \in BOOLEAN /\ owner \in BOOLEAN /\ heartShard \in BOOLEAN
  BY DEF Init
<1>4. /\ nextFetchCursor \in MaybeCursor /\ currentCursor \in MaybeCursor
      /\ nextCursor \in MaybeCursor /\ pendingCheckPoint \in MaybeCursor
      /\ savedCheckPoint \in MaybeCursor /\ checkPoint \in MaybeCursor
      /\ firstCursor \in MaybeCursor
  BY CursorFacts DEF Init
<1>5. TypeOK
  BY <1>1, <1>2, <1>3, <1>4, <1>6 DEF Init, TypeOK
<1>. QED BY <1>5 DEF Init, ShapeInv, TaskFits, ListFits

\* A consumer that starts anew, after whatever happened
LEMMA NewConsumerType ==
  ASSUME TypeOK, NewConsumer, crashes' \in 0 .. MaxCrashes PROVE ShapeInv'
BY CursorFacts DEF NewConsumer, ShapeInv, TypeOK, TaskFits, ListFits, Status, Task, NoOutcome,
   service, flush, history, Caller

LEMMA TypeWorker == ASSUME TypeOK, WorkerNext PROVE TypeOK'
BY TaskOfType DEF WorkerNext, Consume, ConsumerShutDown, TypeOK, worker, tracker, flush, service, history

LEMMA TypeInitialize == ASSUME TypeOK, InitializeNext PROVE TypeOK'
<1>. USE CursorFacts, StatusType DEF TypeOK, tracker, worker, flush, service, history
<1>1. CASE InitializeFails
  BY <1>1 DEF InitializeFails, UpdateStatus, Task
<1>2. CASE InitCheckPoint
  BY <1>2 DEF InitCheckPoint, UpdateStatus, Task
<1>3. CASE NoCheckPoint
  BY <1>3 DEF NoCheckPoint, Task
<1>4. CASE InitCursor
  <2>1. StartCursor \in Cursor
    BY ConsumerAssumption DEF ConsumerAssumption, StartCursor, Cursor
  <2>. QED BY <1>4, <2>1 DEF InitCursor, UpdateStatus, Task, FirstCursor
<1>. QED BY <1>1, <1>2, <1>3, <1>4 DEF InitializeNext

LEMMA TypeFetch == ASSUME ShapeInv, FetchNext PROVE TypeOK'
<1>. USE CursorFacts, StatusType DEF ShapeInv, TypeOK, tracker, worker, flush, service, history
<1>1. CASE FetchFails
  BY <1>1 DEF FetchFails, UpdateStatus, Task
<1>2. CASE Fetch
  <2>1. PICK n \in nextFetchCursor .. logEnd : Fetch!(n)
    BY <1>2 DEF Fetch
  <2>2. nextFetchCursor \in Cursor /\ n \in Cursor
    BY <2>1 DEF TaskFits, ListFits, Cursor
  <2>. QED BY <2>1, <2>2, PullType DEF UpdateStatus, Task
<1>3. CASE FlushAfterEmptyFetch
  BY <1>3 DEF FlushAfterEmptyFetch, Task, Caller
<1>4. CASE EmptyFetchDone
  BY <1>4 DEF EmptyFetchDone, UpdateStatus, Task
<1>. QED BY <1>1, <1>2, <1>3, <1>4 DEF FetchNext

LEMMA TypeProcess == ASSUME TypeOK, ProcessNext PROVE TypeOK'
<1>. USE CursorFacts, StatusType DEF TypeOK, tracker, worker, flush, service, history
<1>1. CASE ProcessSucceeds
  BY <1>1 DEF ProcessSucceeds, Returns, Task, Caller
<1>2. CASE ProcessFails
  BY <1>2 DEF ProcessFails, Returns, Task
<1>3. CASE ProcessPanics
  BY <1>3 DEF ProcessPanics, UpdateStatus, Task
<1>4. CASE ProcessResets
  <2>1. PICK c \in firstCursor .. currentCursor, err \in BOOLEAN :
          Returns(err, c) /\ processed' = {p \in processed : p < c}
    BY <1>4 DEF ProcessResets
  <2>2. c \in MaybeCursor
    OBVIOUS
  <2>3. outcome' \in [err : BOOLEAN, rollBackCheckpoint : MaybeCursor]
    BY <2>1, <2>2, ReturnsType
  <2>. QED BY <1>4, <2>1, <2>3 DEF ProcessResets, Task
<1>5. CASE FlushAfterProcess
  BY <1>5 DEF FlushAfterProcess, Task, Caller
<1>6. CASE NoFlushAfterProcess
  BY <1>6 DEF NoFlushAfterProcess, Task
<1>7. CASE FinishProcess
  BY <1>7 DEF FinishProcess, UpdateStatus, Task
<1>. QED BY <1>1, <1>2, <1>3, <1>4, <1>5, <1>6, <1>7 DEF ProcessNext

LEMMA TypeShutdown == ASSUME TypeOK, ShutdownNext PROVE TypeOK'
<1>. USE StatusType DEF TypeOK, tracker, worker, flush, service, history
<1>1. CASE ShutdownFails
  BY <1>1 DEF ShutdownFails, UpdateStatus, Task
<1>2. CASE Shutdown
  BY <1>2 DEF Shutdown, Task, Caller
<1>. QED BY <1>1, <1>2 DEF ShutdownNext

\* What returning from flushCheckPoint leaves typed
LEMMA TypeFlushed ==
  ASSUME TypeOK, NEW ok \in BOOLEAN, Flushed(ok)
  PROVE  /\ consumerStatus' \in Status /\ shutdownFlag' \in BOOLEAN /\ task' \in Task
         /\ outcome' \in [err : BOOLEAN, rollBackCheckpoint : MaybeCursor]
         /\ UNCHANGED <<nextFetchCursor, lastFetchLogGroupList>>
<1>1. UNCHANGED <<nextFetchCursor, lastFetchLogGroupList>>
  BY DEF Flushed
<1>2. CASE flushFor = "process"
  <2>1. PICK err \in BOOLEAN : Returns(err, NoCursor)
    BY <1>2 DEF Flushed
  <2>2. outcome' \in [err : BOOLEAN, rollBackCheckpoint : MaybeCursor]
    BY <2>1, ReturnsType, CursorFacts
  <2>. QED BY <1>1, <1>2, <2>2 DEF Flushed, TypeOK, Task
<1>3. CASE flushFor = "processed"
  BY <1>1, <1>3 DEF Flushed, TypeOK, Task
<1>4. CASE flushFor = "pulledNothing"
  BY <1>1, <1>4, StatusType DEF Flushed, UpdateStatus, TypeOK, Task
<1>5. CASE flushFor = "shutdown"
  BY <1>1, <1>5, StatusType DEF Flushed, UpdateStatus, TypeOK, Task
<1>. QED BY <1>2, <1>3, <1>4, <1>5 DEF TypeOK, Caller

LEMMA TypeFlush == ASSUME TypeOK, FlushNext PROVE TypeOK'
<1>. USE TypeFlushed DEF TypeOK, tracker, worker, flush, service, history
<1>1. CASE NothingToFlush
  BY <1>1 DEF NothingToFlush
<1>2. CASE UpdateCheckPoint
  BY <1>2 DEF UpdateCheckPoint
<1>3. CASE CheckPointRejected
  BY <1>3 DEF CheckPointRejected
<1>4. CASE CheckPointFails
  <2>1. checkPoint' \in MaybeCursor
    BY <1>4 DEF CheckPointFails
  <2>2. CASE tries < 2 /\ tries' = tries + 1 /\ UNCHANGED <<worker, task>>
    BY <1>4, <2>1, <2>2 DEF CheckPointFails
  <2>3. CASE Flushed(FALSE) /\ UNCHANGED tries
    BY <1>4, <2>1, <2>3 DEF CheckPointFails
  <2>. QED BY <1>4, <2>2, <2>3 DEF CheckPointFails
<1>. QED BY <1>1, <1>2, <1>3, <1>4 DEF FlushNext

LEMMA TypeOutside == ASSUME TypeOK, OutsideNext PROVE TypeOK'
<1>. USE CursorFacts DEF TypeOK, tracker, worker, flush, service, history
<1>1. CASE Crash
  <2>1. crashes \in 0 .. MaxCrashes /\ MaxCrashes \in Nat /\ TypeOK
    BY ConsumerAssumption DEF ConsumerAssumption
  <2>2. crashes' \in 0 .. MaxCrashes /\ NewConsumer
    BY <1>1, <2>1 DEF Crash
  <2>. HIDE DEF TypeOK
  <2>. QED BY <2>1, <2>2, NewConsumerType DEF ShapeInv
<1>2. CASE AssignAgain
  BY <1>2, NewConsumerType DEF AssignAgain, ShapeInv
<1>3. CASE Append
  BY <1>3 DEF Append, Cursor
<1>4. CASE MoveShard
  BY <1>4 DEF MoveShard
<1>6. CASE HeartBeat
  BY <1>6 DEF HeartBeat
<1>5. CASE OtherConsumes
  <2>. DEFINE from == IF checkPoint = NoCursor THEN StartCursor ELSE checkPoint
  <2>1. PICK n \in from + 1 .. logEnd :
          /\ processed' = processed \cup PullLogs(from, n)
          /\ checkPoint' = n /\ FirstCursor(from)
          /\ UNCHANGED <<worker, task, tracker, flush, logEnd, owner, heartShard, crashes>>
    BY <1>5 DEF OtherConsumes
  <2>2. from \in Cursor /\ n \in Cursor
    BY <2>1, ConsumerAssumption DEF ConsumerAssumption, StartCursor, Cursor
  <2>3. firstCursor' \in MaybeCursor
    BY <2>1, <2>2 DEF FirstCursor
  <2>. QED BY <2>1, <2>2, <2>3, PullType
<1>. QED BY <1>1, <1>2, <1>3, <1>4, <1>5, <1>6 DEF OutsideNext

LEMMA TypeStep == ShapeInv /\ [Next]_vars => TypeOK'
<1>1. ASSUME ShapeInv, Next PROVE TypeOK'
  BY <1>1, TypeWorker, TypeInitialize, TypeFetch, TypeProcess, TypeShutdown, TypeFlush, TypeOutside
  DEF Next, TaskNext, ShapeInv
<1>2. ASSUME ShapeInv, UNCHANGED vars PROVE TypeOK'
  BY <1>2 DEF ShapeInv, TypeOK, vars, worker, tracker, flush, service, history
<1>. QED BY <1>1, <1>2

\* A task ends: what its status and groups have to be for the next one.
LEMMA EndFits ==
  ASSUME ShapeInv, NEW ok \in BOOLEAN, UpdateStatus(ok), consumerStatus # "SHUTDOWN_COMPLETE"
  PROVE  /\ TaskFits'
         /\ consumerStatus' \in {consumerStatus, "SHUTTING_DOWN", "SHUTDOWN_COMPLETE"} \/ ok
         /\ consumerStatus = "PULLING" /\ consumerStatus' = "PROCESSING" => ok
         /\ consumerStatus = "PULLING" => consumerStatus' # "INITIALIZING"
         /\ consumerStatus \in {"INITIALIZING", "PROCESSING"} /\ ok
              => consumerStatus' \in {"PULLING", "SHUTTING_DOWN"}
         /\ consumerStatus = "PROCESSING" => consumerStatus' # "INITIALIZING"
         /\ consumerStatus = "SHUTTING_DOWN" => consumerStatus' \in {"SHUTTING_DOWN", "SHUTDOWN_COMPLETE"}
BY DEF UpdateStatus, StatusAfter, ShapeInv, TypeOK, TaskFits, Status

\* The task that fits a status
LEMMA TaskOfFits ==
  /\ TaskOf("INITIALIZING") = "getCheckPoint" /\ TaskOf("PULLING") = "pull"
  /\ TaskOf("PROCESSING") = "process" /\ TaskOf("SHUTTING_DOWN") = "shutdown"
  /\ TaskOf("SHUTDOWN_COMPLETE") = "none"
BY DEF TaskOf

LEMMA FitsWorker == ASSUME ShapeInv, WorkerNext PROVE TaskFits' /\ ListFits'
<1>1. UNCHANGED <<consumerStatus, nextFetchCursor, lastFetchLogGroupList, flushFor, tracker>>
  BY DEF WorkerNext, Consume, ConsumerShutDown, worker, flush
<1>2. ListFits'
  BY <1>1 DEF ShapeInv, ListFits, tracker, PullLogs
<1>3. /\ task' = task \/ task' = TaskOf(consumerStatus)
      /\ shutdownFlag => shutdownFlag'
      /\ consumerStatus = "SHUTDOWN_COMPLETE" => task' = task
  BY TaskOfFits DEF WorkerNext, Consume, ConsumerShutDown, worker, ShapeInv, TaskFits
<1>4. consumerStatus \in Status
  BY DEF ShapeInv, TypeOK
<1>5. TaskFits'
  BY <1>1, <1>3, <1>4, TaskOfFits DEF ShapeInv, TaskFits, Status
<1>. QED BY <1>2, <1>5

LEMMA FitsInitialize == ASSUME ShapeInv, InitializeNext PROVE TaskFits' /\ ListFits'
<1>. USE DEF ShapeInv, TypeOK, TaskFits, ListFits, tracker, worker, PullLogs
<1>1. CASE InitializeFails
  BY <1>1, EndFits DEF InitializeFails
<1>2. CASE InitCheckPoint
  BY <1>2, EndFits, CursorFacts DEF InitCheckPoint, MaybeCursor
<1>3. CASE NoCheckPoint
  BY <1>3 DEF NoCheckPoint
<1>4. CASE InitCursor
  <2>1. StartCursor \in Cursor
    BY ConsumerAssumption DEF ConsumerAssumption, StartCursor, Cursor
  <2>. QED BY <1>4, <2>1, EndFits DEF InitCursor
<1>. QED BY <1>1, <1>2, <1>3, <1>4 DEF InitializeNext

LEMMA FitsFetch == ASSUME ShapeInv, FetchNext PROVE TaskFits' /\ ListFits'
<1>. USE DEF ShapeInv, TypeOK, TaskFits, ListFits, tracker, worker, PullLogs
<1>1. CASE FetchFails
  BY <1>1, EndFits DEF FetchFails
<1>2. CASE Fetch
  <2>1. PICK n \in nextFetchCursor .. logEnd : Fetch!(n)
    BY <1>2 DEF Fetch
  <2>2. nextFetchCursor \in Cursor /\ logEnd \in Cursor
    BY <2>1
  <2>5. n \in Cursor
    <3>1. \A a, b \in Cursor : a .. b \subseteq Cursor
      BY ConsumerAssumption DEF ConsumerAssumption, Cursor
    <3>. QED BY <2>2, <3>1
  <2>3. CASE PullLogs(nextFetchCursor, n) # {}
    <3>1. UpdateStatus(TRUE) /\ consumerStatus = "PULLING"
      BY <2>1, <2>3
    <3>2. TaskFits' /\ consumerStatus' \notin {"INITIALIZING", "PULLING"}
      BY <3>1, EndFits DEF UpdateStatus, StatusAfter
    <3>. QED BY <2>1, <2>2, <2>5, <2>3, <3>2
  <2>4. CASE PullLogs(nextFetchCursor, n) = {}
    BY <2>1, <2>2, <2>5, <2>4
  <2>. QED BY <2>3, <2>4
<1>3. CASE FlushAfterEmptyFetch
  BY <1>3 DEF FlushAfterEmptyFetch
<1>4. CASE EmptyFetchDone
  BY <1>4, EndFits DEF EmptyFetchDone
<1>. QED BY <1>1, <1>2, <1>3, <1>4 DEF FetchNext

LEMMA FitsProcess == ASSUME ShapeInv, ProcessNext PROVE TaskFits' /\ ListFits'
<1>. USE DEF ShapeInv, TypeOK, TaskFits, ListFits, tracker, worker, PullLogs
<1>1. CASE ProcessSucceeds
  BY <1>1 DEF ProcessSucceeds
<1>2. CASE ProcessFails
  BY <1>2 DEF ProcessFails
<1>3. CASE ProcessPanics
  BY <1>3, EndFits DEF ProcessPanics
<1>4. CASE ProcessResets
  BY <1>4 DEF ProcessResets
<1>5. CASE FlushAfterProcess
  BY <1>5 DEF FlushAfterProcess
<1>6. CASE NoFlushAfterProcess
  BY <1>6 DEF NoFlushAfterProcess
<1>7. CASE FinishProcess
  <2>1. nextFetchCursor' \in Cursor
    BY <1>7, CursorFacts DEF FinishProcess, MaybeCursor
  <2>2. outcome.err \in BOOLEAN /\ consumerStatus = "PROCESSING"
    BY <1>7 DEF FinishProcess
  <2>3. CASE outcome.err
    <3>1. UpdateStatus(FALSE)
      BY <1>7, <2>3 DEF FinishProcess
    <3>2. TaskFits' /\ consumerStatus' \notin {"INITIALIZING", "PULLING"}
      BY <2>2, <3>1, EndFits DEF UpdateStatus, StatusAfter
    <3>. QED BY <1>7, <2>1, <2>3, <3>2 DEF FinishProcess
  <2>4. CASE ~outcome.err
    <3>1. UpdateStatus(TRUE)
      BY <1>7, <2>4 DEF FinishProcess
    <3>2. TaskFits' /\ consumerStatus' # "PROCESSING"
      BY <2>2, <3>1, EndFits
    <3>. QED BY <1>7, <2>1, <2>4, <3>2 DEF FinishProcess
  <2>. QED BY <2>3, <2>4
<1>. QED BY <1>1, <1>2, <1>3, <1>4, <1>5, <1>6, <1>7 DEF ProcessNext

LEMMA FitsShutdown == ASSUME ShapeInv, ShutdownNext PROVE TaskFits' /\ ListFits'
<1>. USE DEF ShapeInv, TypeOK, TaskFits, ListFits, tracker, worker, PullLogs
<1>1. CASE ShutdownFails
  BY <1>1, EndFits DEF ShutdownFails
<1>2. CASE Shutdown
  BY <1>2 DEF Shutdown
<1>. QED BY <1>1, <1>2 DEF ShutdownNext

LEMMA FitsFlushed ==
  ASSUME ShapeInv, task = "flush", NEW ok \in BOOLEAN, Flushed(ok),
         UNCHANGED <<currentCursor, nextCursor>>
  PROVE  TaskFits' /\ ListFits'
<1>. USE DEF ShapeInv, TypeOK, TaskFits, ListFits, PullLogs
<1>1. UNCHANGED <<nextFetchCursor, lastFetchLogGroupList>>
  BY DEF Flushed
<1>2. CASE flushFor = "process"
  BY <1>1, <1>2 DEF Flushed
<1>3. CASE flushFor = "processed"
  BY <1>1, <1>3 DEF Flushed
<1>4. CASE flushFor = "pulledNothing"
  <2>1. UpdateStatus(FALSE) /\ consumerStatus = "PULLING"
    BY <1>4 DEF Flushed
  <2>. QED BY <1>1, <2>1, EndFits
<1>5. CASE flushFor = "shutdown"
  <2>1. UpdateStatus(ok) /\ consumerStatus = "SHUTTING_DOWN"
    BY <1>5 DEF Flushed
  <2>. QED BY <1>1, <2>1, EndFits
<1>. QED BY <1>2, <1>3, <1>4, <1>5 DEF Caller

LEMMA FitsFlush == ASSUME ShapeInv, FlushNext PROVE TaskFits' /\ ListFits'
<1>. USE FitsFlushed DEF tracker
<1>1. CASE NothingToFlush
  BY <1>1 DEF NothingToFlush
<1>2. CASE UpdateCheckPoint
  BY <1>2 DEF UpdateCheckPoint
<1>3. CASE CheckPointRejected
  BY <1>3 DEF CheckPointRejected
<1>4. CASE CheckPointFails
  <2>1. CASE UNCHANGED <<worker, task>>
    BY <1>4, <2>1 DEF CheckPointFails, ShapeInv, TaskFits, ListFits, worker, PullLogs
  <2>2. CASE Flushed(FALSE)
    BY <1>4, <2>2 DEF CheckPointFails
  <2>. QED BY <1>4, <2>1, <2>2 DEF CheckPointFails
<1>. QED BY <1>1, <1>2, <1>3, <1>4 DEF FlushNext

LEMMA FitsOutside == ASSUME ShapeInv, OutsideNext PROVE TaskFits' /\ ListFits'
<1>1. CASE Crash \/ AssignAgain
  BY <1>1 DEF Crash, AssignAgain, NewConsumer, TaskFits, ListFits
<1>2. CASE HeartBeat \/ Append \/ MoveShard \/ OtherConsumes
  BY <1>2 DEF HeartBeat, Append, MoveShard, OtherConsumes, worker, tracker, flush, ShapeInv, TaskFits, ListFits,
     PullLogs
<1>. QED BY <1>1, <1>2 DEF OutsideNext

LEMMA ShapeStep == ShapeInv /\ [Next]_vars => ShapeInv'
<1>1. ASSUME ShapeInv, Next PROVE TaskFits' /\ ListFits'
  BY <1>1, FitsWorker, FitsInitialize, FitsFetch, FitsProcess, FitsShutdown, FitsFlush, FitsOutside
  DEF Next, TaskNext
<1>2. ASSUME ShapeInv, UNCHANGED vars PROVE TaskFits' /\ ListFits'
  BY <1>2 DEF ShapeInv, TaskFits, ListFits, vars, worker, tracker, flush, PullLogs
<1>. QED BY <1>1, <1>2, TypeStep DEF ShapeInv

\* The consumer's variables keep their types.
THEOREM TypeCorrect == Spec => []TypeOK
<1>1. Init => ShapeInv
  BY ShapeInit
<1>2. ShapeInv /\ [Next]_vars => ShapeInv'
  BY ShapeStep
<1>3. ShapeInv => TypeOK
  BY DEF ShapeInv
<1>. QED BY <1>1, <1>2, <1>3, PTL DEF Spec

\* consumerProcessTask always has groups, and its tracker knows where they end.
THEOREM ProcessTaskHasGroups == Spec => []ProcessingHasGroups
<1>1. Init => ShapeInv
  BY ShapeInit
<1>2. ShapeInv /\ [Next]_vars => ShapeInv'
  BY ShapeStep
<1>3. ShapeInv => ProcessingHasGroups
  BY CursorFacts DEF ShapeInv, ListFits, ProcessingHasGroups, PullLogs, Cursor
<1>. QED BY <1>1, <1>2, <1>3, PTL DEF Spec
=============================================================================
