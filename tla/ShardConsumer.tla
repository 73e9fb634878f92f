---------------------------- MODULE ShardConsumer ----------------------------
(***************************************************************************)
(* consumer/shard_worker.go, tasks.go, checkpoint_tracker.go: the consumer *)
(* of one shard with its checkpoint tracker, driven by the loop of the     *)
(* worker (Consume, ConsumerShutDown), calling the user's processor and    *)
(* the service.  Each call of consume starts a goroutine, the task; its    *)
(* steps are the calls it makes that somebody else can see.                *)
(*                                                                         *)
(* A cursor is a position of the shard.  NoCursor is the empty string.     *)
(* The tracker is used by the task alone, so what a task does to it        *)
(* between two calls is one step.                                          *)
(***************************************************************************)
EXTENDS Integers

CONSTANTS
  LastCursor,     \* the shard is written up to here and no further
  Data,           \* the positions that hold log groups
  CursorPosition, \* LogHubConfig: where a shard without checkpoint starts
  AutoCommit,     \* LogHubConfig: ~AutoCommitDisabled
  Saves,          \* how Process saves after a success: "no", "lazy" or "force"
  Resets,         \* BOOLEAN: Process may return a cursor to go back to
  ShutdownSaves,  \* BOOLEAN: the Shutdown of the processor saves a checkpoint
  ShardMoves,     \* BOOLEAN: the service may give the shard to another consumer
  MaxCrashes      \* bound of the model: how often the process dies

Cursor == 0 .. LastCursor
NoCursor == -1
MaybeCursor == Cursor \cup {NoCursor}

ASSUME ConsumerAssumption ==
  /\ LastCursor \in Nat
  /\ Data \subseteq 0 .. LastCursor - 1
  /\ CursorPosition \in {"BEGIN_CURSOR", "END_CURSOR"}
  /\ {AutoCommit, Resets, ShutdownSaves, ShardMoves} \subseteq BOOLEAN
  /\ Saves \subseteq {"no", "lazy", "force"} /\ Saves # {}
  /\ MaxCrashes \in Nat

VARIABLES
  \* the ShardConsumerWorker
  consumerStatus, shutdownFlag, nextFetchCursor, lastFetchLogGroupList,
  task,       \* where its goroutine is; "none": isCurrentDone
  outcome,    \* what Process returned: an error or not, the cursor to go back to
  \* its DefaultCheckPointTracker
  currentCursor, nextCursor, pendingCheckPoint, savedCheckPoint,
  tries, flushFor,   \* flushCheckPoint: failed attempts, and who called it
  \* the service, and the heartbeat that tells it which shards are in use
  logEnd,     \* the shard holds the positions before this one
  checkPoint, \* of this shard and consumer group
  owner,      \* BOOLEAN: the shard is assigned to this consumer
  heartShard, \* BOOLEAN: the shard is in heartShards
  \* history: what was processed, where the group started, deaths so far
  processed, firstCursor, crashes

worker == <<consumerStatus, shutdownFlag, nextFetchCursor, lastFetchLogGroupList, outcome>>
tracker == <<currentCursor, nextCursor, pendingCheckPoint, savedCheckPoint>>
flush == <<tries, flushFor>>
service == <<logEnd, checkPoint, owner, heartShard>>
history == <<processed, firstCursor, crashes>>
vars == <<worker, task, tracker, flush, service, history>>

Status == {"INITIALIZING", "PULLING", "PROCESSING", "SHUTTING_DOWN", "SHUTDOWN_COMPLETE"}
Task == {"none", "getCheckPoint", "getCursor", "pull", "pulledNothing", "process",
         "processed", "finish", "shutdown", "flush"}
Caller == {"process", "processed", "pulledNothing", "shutdown"}

TypeOK ==
  /\ consumerStatus \in Status
  /\ shutdownFlag \in BOOLEAN
  /\ task \in Task
  /\ lastFetchLogGroupList \subseteq Data
  /\ outcome \in [err : BOOLEAN, rollBackCheckpoint : MaybeCursor]
  /\ nextFetchCursor \in MaybeCursor
  /\ currentCursor \in MaybeCursor /\ nextCursor \in MaybeCursor
  /\ pendingCheckPoint \in MaybeCursor /\ savedCheckPoint \in MaybeCursor
  /\ checkPoint \in MaybeCursor /\ firstCursor \in MaybeCursor
  /\ tries \in 0 .. 2
  /\ flushFor \in Caller
  /\ logEnd \in Cursor
  /\ owner \in BOOLEAN /\ heartShard \in BOOLEAN
  /\ processed \subseteq Data
  /\ crashes \in 0 .. MaxCrashes

NoOutcome == [err |-> FALSE, rollBackCheckpoint |-> NoCursor]

Init ==
  /\ consumerStatus = "INITIALIZING" /\ shutdownFlag = FALSE /\ task = "none"
  /\ nextFetchCursor = NoCursor /\ lastFetchLogGroupList = {} /\ outcome = NoOutcome
  /\ currentCursor = NoCursor /\ nextCursor = NoCursor
  /\ pendingCheckPoint = NoCursor /\ savedCheckPoint = NoCursor
  /\ tries = 0 /\ flushFor = "shutdown"
  /\ logEnd = 0 /\ checkPoint = NoCursor /\ owner = TRUE /\ heartShard = FALSE
  /\ processed = {} /\ firstCursor = NoCursor /\ crashes = 0

----------------------------------------------------------------------------
(* The worker's side *)

\* consume: the task that fits the status, unless one is running.
TaskOf(status) ==
  [INITIALIZING |-> "getCheckPoint", PULLING |-> "pull", PROCESSING |-> "process",
   SHUTTING_DOWN |-> "shutdown", SHUTDOWN_COMPLETE |-> "none"][status]

Consume ==
  /\ task = "none" /\ consumerStatus # "SHUTDOWN_COMPLETE"
  /\ task' = TaskOf(consumerStatus)
  /\ UNCHANGED <<worker, tracker, flush, service, history>>

\* consumerShutDown: also consumes, so that an idle consumer gets a task.
ConsumerShutDown ==
  /\ ~shutdownFlag
  /\ shutdownFlag' = TRUE
  /\ task' = IF task = "none" THEN TaskOf(consumerStatus) ELSE task
  /\ UNCHANGED <<consumerStatus, nextFetchCursor, lastFetchLogGroupList, outcome,
                 tracker, flush, service, history>>

\* Mutants of StatusAfter: the flag is tested first; a success does not end PROCESSING.
StatusAfterFlagFirst(success) ==
  IF shutdownFlag THEN "SHUTTING_DOWN"
  ELSE IF ~success THEN consumerStatus
  ELSE IF consumerStatus = "PULLING" THEN "PROCESSING" ELSE "PULLING"

StatusAfterProcessingStays(success) ==
  IF consumerStatus = "SHUTTING_DOWN"
  THEN IF success THEN "SHUTDOWN_COMPLETE" ELSE "SHUTTING_DOWN"
  ELSE IF shutdownFlag THEN "SHUTTING_DOWN"
  ELSE IF success /\ consumerStatus = "INITIALIZING" THEN "PULLING"
  ELSE IF success THEN "PROCESSING" ELSE consumerStatus

\* updateStatus, the last thing every task does
StatusAfter(success) ==
  IF consumerStatus = "SHUTTING_DOWN"
  THEN IF success THEN "SHUTDOWN_COMPLETE" ELSE "SHUTTING_DOWN"
  ELSE IF shutdownFlag THEN "SHUTTING_DOWN"
  ELSE IF ~success THEN consumerStatus
  ELSE IF consumerStatus = "PULLING" THEN "PROCESSING" ELSE "PULLING"

UpdateStatus(success) ==
  /\ consumerStatus' = StatusAfter(success)
  /\ task' = "none"
  /\ UNCHANGED shutdownFlag

----------------------------------------------------------------------------
(* consumerInitializeTask *)

\* getCheckPoint and getCursor after their retries
InitializeFails ==
  /\ task \in {"getCheckPoint", "getCursor"}
  /\ UpdateStatus(FALSE)
  /\ UNCHANGED <<nextFetchCursor, lastFetchLogGroupList, outcome, tracker, flush, service, history>>

InitCheckPoint ==
  /\ task = "getCheckPoint" /\ checkPoint # NoCursor
  /\ savedCheckPoint' = checkPoint
  /\ nextFetchCursor' = checkPoint
  /\ UpdateStatus(TRUE)
  /\ UNCHANGED <<lastFetchLogGroupList, outcome, currentCursor, nextCursor, pendingCheckPoint,
                 flush, service, history>>

NoCheckPoint ==
  /\ task = "getCheckPoint" /\ checkPoint = NoCursor
  /\ task' = "getCursor"
  /\ UNCHANGED <<worker, tracker, flush, service, history>>

\* Where the service says that a shard begins or ends
StartCursor == IF CursorPosition = "BEGIN_CURSOR" THEN 0 ELSE logEnd

\* The group starts where its first consumer does.
FirstCursor(c) == firstCursor' = IF firstCursor = NoCursor THEN c ELSE firstCursor

InitCursor ==
  /\ task = "getCursor"
  /\ nextFetchCursor' = StartCursor
  /\ FirstCursor(StartCursor)
  /\ UpdateStatus(TRUE)
  /\ UNCHANGED <<lastFetchLogGroupList, outcome, tracker, flush, service, processed, crashes>>

----------------------------------------------------------------------------
(* nextFetchTask *)

\* What the service returns from cursor c up to n.  (The request has no Query, even
\* if one is configured.)
PullLogs(c, n) == (c .. n - 1) \cap Data

\* Mutant: after an error the consumer goes on behind the data it did not get.
FetchFailsAndSkips ==
  /\ task = "pull"
  /\ UpdateStatus(FALSE)
  /\ nextFetchCursor' = logEnd
  /\ UNCHANGED <<lastFetchLogGroupList, outcome, tracker, flush, service, history>>

\* It is too early to fetch, or pullLogs failed three times.
FetchFails ==
  /\ task = "pull"
  /\ UpdateStatus(FALSE)
  /\ UNCHANGED <<nextFetchCursor, lastFetchLogGroupList, outcome, tracker, flush, service, history>>

\* The service answers with the groups before some later cursor, or with none at
\* the end of the shard.
Fetch ==
  \E n \in nextFetchCursor .. logEnd :
    /\ task = "pull" /\ (n = nextFetchCursor => n = logEnd)
    /\ currentCursor' = nextFetchCursor
    /\ nextFetchCursor' = n
    /\ nextCursor' = n
    /\ lastFetchLogGroupList' = PullLogs(nextFetchCursor, n)
    /\ \/ /\ PullLogs(nextFetchCursor, n) # {}
          /\ UpdateStatus(TRUE)
       \/ /\ PullLogs(nextFetchCursor, n) = {}
          /\ task' = "pulledNothing"
          /\ UNCHANGED <<consumerStatus, shutdownFlag>>
    /\ UNCHANGED <<outcome, pendingCheckPoint, savedCheckPoint, flush, service, history>>

\* Mutants: an empty fetch never flushes; it counts as a success.
FlushAfterEmptyFetchNever ==
  /\ task = "pulledNothing" /\ AutoCommit /\ lastFetchLogGroupList # {}
  /\ task' = "flush" /\ flushFor' = "pulledNothing" /\ tries' = 0
  /\ UNCHANGED <<worker, tracker, service, history>>

EmptyFetchSucceeds ==
  /\ task = "pulledNothing"
  /\ UpdateStatus(TRUE)
  /\ UNCHANGED <<nextFetchCursor, lastFetchLogGroupList, outcome, tracker, flush, service, history>>

\* saveCheckPointIfNeeded after an empty fetch: the interval has passed, or not.
FlushAfterEmptyFetch ==
  /\ task = "pulledNothing" /\ AutoCommit
  /\ task' = "flush" /\ flushFor' = "pulledNothing" /\ tries' = 0
  /\ UNCHANGED <<worker, tracker, service, history>>

EmptyFetchDone ==
  /\ task = "pulledNothing"
  /\ UpdateStatus(FALSE)
  /\ UNCHANGED <<nextFetchCursor, lastFetchLogGroupList, outcome, tracker, flush, service, history>>

----------------------------------------------------------------------------
(* consumerProcessTask.  It always has groups: see ProcessingHasGroups.    *)

Returns(err, cursor) == outcome' = [err |-> err, rollBackCheckpoint |-> cursor]

\* Process deals with all groups, then saves as the user chose.
ProcessSucceeds ==
  /\ task = "process"
  /\ processed' = processed \cup lastFetchLogGroupList
  /\ Returns(FALSE, NoCursor)
  /\ \E save \in Saves :
       /\ pendingCheckPoint' = IF save = "no" THEN pendingCheckPoint ELSE nextCursor
       /\ \/ save # "force" /\ task' = "processed" /\ UNCHANGED flush
          \/ save = "force" /\ task' = "flush" /\ flushFor' = "process" /\ tries' = 0
  /\ UNCHANGED <<consumerStatus, shutdownFlag, nextFetchCursor, lastFetchLogGroupList,
                 currentCursor, nextCursor, savedCheckPoint, service, firstCursor, crashes>>

\* Process returns an error and saves nothing.
ProcessFails ==
  /\ task = "process"
  /\ Returns(TRUE, NoCursor)
  /\ task' = "processed"
  /\ UNCHANGED <<consumerStatus, shutdownFlag, nextFetchCursor, lastFetchLogGroupList,
                 tracker, flush, service, history>>

\* Mutant: a panic is caught and the error forgotten.
ProcessPanicsUnseen ==
  /\ task = "process"
  /\ UpdateStatus(TRUE)
  /\ UNCHANGED <<nextFetchCursor, lastFetchLogGroupList, outcome, tracker, flush, service, history>>

\* Process panics: nothing after the call runs.
ProcessPanics ==
  /\ task = "process"
  /\ UpdateStatus(FALSE)
  /\ UNCHANGED <<nextFetchCursor, lastFetchLogGroupList, outcome, tracker, flush, service, history>>

\* Process asks for the data from some cursor on again, with or without an error.
ProcessResets ==
  /\ task = "process" /\ Resets
  /\ \E c \in firstCursor .. currentCursor, err \in BOOLEAN :
       /\ Returns(err, c)
       /\ processed' = {p \in processed : p < c}
  /\ task' = "processed"
  /\ UNCHANGED <<consumerStatus, shutdownFlag, nextFetchCursor, lastFetchLogGroupList,
                 tracker, flush, service, firstCursor, crashes>>

\* saveCheckPointIfNeeded after Process, also after an error
FlushAfterProcess ==
  /\ task = "processed" /\ AutoCommit
  /\ task' = "flush" /\ flushFor' = "processed" /\ tries' = 0
  /\ UNCHANGED <<worker, tracker, service, history>>

NoFlushAfterProcess ==
  /\ task = "processed"
  /\ task' = "finish"
  /\ UNCHANGED <<worker, tracker, flush, service, history>>

\* Mutant: an error is logged and the next groups are fetched.
FinishProcessAnyway ==
  /\ task = "finish"
  /\ lastFetchLogGroupList' = {}
  /\ nextFetchCursor' = IF outcome.rollBackCheckpoint = NoCursor
                        THEN nextFetchCursor ELSE outcome.rollBackCheckpoint
  /\ UpdateStatus(TRUE)
  /\ UNCHANGED <<outcome, tracker, flush, service, history>>

\* The end of the task: groups are kept after an error.
FinishProcess ==
  /\ task = "finish"
  /\ lastFetchLogGroupList' = IF outcome.err THEN lastFetchLogGroupList ELSE {}
  /\ nextFetchCursor' = IF outcome.rollBackCheckpoint = NoCursor
                        THEN nextFetchCursor ELSE outcome.rollBackCheckpoint
  /\ UpdateStatus(~outcome.err)
  /\ UNCHANGED <<outcome, tracker, flush, service, history>>

----------------------------------------------------------------------------
(* The task of a consumer that shuts down *)

ShutdownFails ==
  /\ task = "shutdown"
  /\ UpdateStatus(FALSE)
  /\ UNCHANGED <<nextFetchCursor, lastFetchLogGroupList, outcome, tracker, flush, service, history>>

\* processor.Shutdown, which may save, then flushCheckPoint
Shutdown ==
  /\ task = "shutdown"
  /\ pendingCheckPoint' = IF ShutdownSaves THEN nextCursor ELSE pendingCheckPoint
  /\ task' = "flush" /\ flushFor' = "shutdown" /\ tries' = 0
  /\ UNCHANGED <<worker, currentCursor, nextCursor, savedCheckPoint, service, history>>

----------------------------------------------------------------------------
(* flushCheckPoint *)

\* The caller goes on.  Only two callers look at the result: the task that shuts
\* down, and a Process that saved by force and may return the error.
Flushed(success) ==
  /\ \/ /\ flushFor = "process"
        /\ task' = "processed"
        /\ \E err \in {FALSE, ~success} : Returns(err, NoCursor)
        /\ UNCHANGED <<consumerStatus, shutdownFlag>>
     \/ /\ flushFor = "processed"
        /\ task' = "finish"
        /\ UNCHANGED <<consumerStatus, shutdownFlag, outcome>>
     \/ /\ flushFor = "pulledNothing"
        /\ UpdateStatus(FALSE)
        /\ UNCHANGED outcome
     \/ /\ flushFor = "shutdown"
        /\ UpdateStatus(success)
        /\ UNCHANGED outcome
  /\ UNCHANGED <<nextFetchCursor, lastFetchLogGroupList>>

SavePending == pendingCheckPoint # NoCursor /\ pendingCheckPoint # savedCheckPoint

NothingToFlush ==
  /\ task = "flush" /\ ~SavePending
  /\ Flushed(TRUE)
  /\ UNCHANGED <<tracker, flush, service, history>>

\* The service takes a checkpoint from the consumer that owns the shard, and perhaps
\* from another, for the request says forceSuccess ...
UpdateCheckPoint ==
  /\ task = "flush" /\ SavePending
  /\ checkPoint' = pendingCheckPoint
  /\ savedCheckPoint' = pendingCheckPoint
  /\ Flushed(TRUE)
  /\ UNCHANGED <<currentCursor, nextCursor, pendingCheckPoint, flush, logEnd, owner, heartShard, history>>

\* ... or answers ConsumerNotMatch to another, which is not tried again: the
\* shard is taken from the heartbeat, and the checkpoint counts as saved.
CheckPointRejected ==
  /\ task = "flush" /\ SavePending /\ ~owner
  /\ heartShard' = FALSE
  /\ savedCheckPoint' = pendingCheckPoint
  /\ Flushed(TRUE)
  /\ UNCHANGED <<currentCursor, nextCursor, pendingCheckPoint, flush, logEnd, checkPoint, owner,
                 history>>

\* Mutants: one attempt too many; the error is not returned.
CheckPointFailsOften ==
  /\ task = "flush" /\ SavePending
  /\ \/ UNCHANGED checkPoint
     \/ checkPoint' = pendingCheckPoint
  /\ \/ tries <= 2 /\ tries' = tries + 1 /\ UNCHANGED <<worker, task>>
     \/ tries = 3 /\ Flushed(FALSE) /\ UNCHANGED tries
  /\ UNCHANGED <<tracker, flushFor, logEnd, owner, heartShard, history>>

CheckPointFailsUnseen ==
  /\ task = "flush" /\ SavePending
  /\ \/ UNCHANGED checkPoint
     \/ checkPoint' = pendingCheckPoint
  /\ \/ tries < 2 /\ tries' = tries + 1 /\ UNCHANGED <<worker, task>>
     \/ tries = 2 /\ Flushed(TRUE) /\ UNCHANGED tries
  /\ UNCHANGED <<tracker, flushFor, logEnd, owner, heartShard, history>>

\* The request or its answer is lost.  The third time the caller gets the error.
CheckPointFails ==
  /\ task = "flush" /\ SavePending
  /\ \/ UNCHANGED checkPoint
     \/ checkPoint' = pendingCheckPoint
  /\ \/ tries < 2 /\ tries' = tries + 1 /\ UNCHANGED <<worker, task>>
     \/ tries = 2 /\ Flushed(FALSE) /\ UNCHANGED tries
  /\ UNCHANGED <<tracker, flushFor, logEnd, owner, heartShard, history>>

----------------------------------------------------------------------------
(* The surroundings *)

\* A new ShardConsumerWorker: the process died, or cleanShardConsumer removed
\* the complete consumer, which it does if the shard was still in the heartbeat.
NewConsumer ==
  /\ consumerStatus' = "INITIALIZING" /\ shutdownFlag' = FALSE /\ task' = "none"
  /\ nextFetchCursor' = NoCursor /\ lastFetchLogGroupList' = {} /\ outcome' = NoOutcome
  /\ currentCursor' = NoCursor /\ nextCursor' = NoCursor
  /\ pendingCheckPoint' = NoCursor /\ savedCheckPoint' = NoCursor
  /\ heartShard' = FALSE
  /\ UNCHANGED <<flush, logEnd, checkPoint, owner, processed, firstCursor>>

Crash == crashes < MaxCrashes /\ crashes' = crashes + 1 /\ NewConsumer
AssignAgain ==
  consumerStatus = "SHUTDOWN_COMPLETE" /\ heartShard /\ NewConsumer /\ UNCHANGED crashes

\* A heartbeat: the shards that the service assigned are reported from now on.
HeartBeat ==
  /\ owner /\ ~heartShard
  /\ heartShard' = TRUE
  /\ UNCHANGED <<worker, task, tracker, flush, logEnd, checkPoint, owner, history>>

\* Somebody writes to the shard.
Append ==
  /\ logEnd < LastCursor
  /\ logEnd' = logEnd + 1
  /\ UNCHANGED <<worker, task, tracker, flush, checkPoint, owner, heartShard, history>>

\* The service gives the shard to another consumer, and back.
MoveShard ==
  /\ ShardMoves
  /\ owner' = ~owner
  /\ UNCHANGED <<worker, task, tracker, flush, logEnd, checkPoint, heartShard, history>>

\* Meanwhile the other consumer starts from the checkpoint, processes and saves.
OtherConsumes ==
  LET from == IF checkPoint = NoCursor THEN StartCursor ELSE checkPoint IN
  \E n \in from + 1 .. logEnd :
    /\ ~owner
    /\ processed' = processed \cup PullLogs(from, n)
    /\ checkPoint' = n
    /\ FirstCursor(from)
    /\ UNCHANGED <<worker, task, tracker, flush, logEnd, owner, heartShard, crashes>>

----------------------------------------------------------------------------
WorkerNext == Consume \/ ConsumerShutDown
InitializeNext == InitializeFails \/ InitCheckPoint \/ NoCheckPoint \/ InitCursor
FetchNext == FetchFails \/ Fetch \/ FlushAfterEmptyFetch \/ EmptyFetchDone
ProcessNext ==
  \/ ProcessSucceeds \/ ProcessFails \/ ProcessPanics \/ ProcessResets
  \/ FlushAfterProcess \/ NoFlushAfterProcess \/ FinishProcess
ShutdownNext == ShutdownFails \/ Shutdown
FlushNext == NothingToFlush \/ UpdateCheckPoint \/ CheckPointRejected \/ CheckPointFails
TaskNext == InitializeNext \/ FetchNext \/ ProcessNext \/ ShutdownNext \/ FlushNext
OutsideNext == Crash \/ AssignAgain \/ HeartBeat \/ Append \/ MoveShard \/ OtherConsumes

Next == WorkerNext \/ TaskNext \/ OutsideNext
Spec == Init /\ [][Next]_vars

\* The worker's loop calls every consumer again and again, goroutines run, and
\* what is tried again forever succeeds in the end: the service is reachable again
\* and again, the processor gets through, the intervals pass.
Fairness ==
  /\ WF_vars(Consume) /\ WF_vars(TaskNext)
  /\ SF_vars(InitCheckPoint \/ NoCheckPoint) /\ SF_vars(InitCursor) /\ SF_vars(Fetch)
  /\ SF_vars(ProcessSucceeds) /\ SF_vars(Shutdown)
  /\ SF_vars(FlushAfterEmptyFetch) /\ SF_vars(UpdateCheckPoint \/ CheckPointRejected)

FairSpec == Spec /\ Fairness

----------------------------------------------------------------------------
(* Properties *)

\* A task that processes has groups, so the branch of consumerProcessTask for a
\* nil list is never taken, and it knows where they end.
ProcessingHasGroups ==
  consumerStatus = "PROCESSING" =>
    /\ lastFetchLogGroupList # {}
    /\ nextCursor # NoCursor /\ \A p \in lastFetchLogGroupList : p < nextCursor

Started(p) == p \in Data /\ firstCursor # NoCursor /\ firstCursor <= p

\* Nothing is lost, for the group: the service's checkpoint, from which the next
\* consumer of the shard starts, has only processed data behind it, whatever
\* failed, crashed, got lost or moved.
NoDataLoss == \A p \in Data : Started(p) /\ p < checkPoint => p \in processed

\* What the consumer will fetch; after a reset (shard_worker.go:96-97) the data it went back to.
ToFetch == {p \in Data : nextFetchCursor <= p} \ processed

\* After a reset shard_worker.go:99 logs that the user's checkpoints have been reset: a flush
\* does not send one that lies behind data the consumer has gone back to.
FlushedIsProcessed ==
  [][task = "flush" /\ checkPoint' # checkPoint => \A p \in ToFetch : checkPoint' <= p]_vars

\* Nothing is lost, within a consumer: what it has fetched is processed or is in
\* the list it still has to process, over errors, panics and empty fetches.
FetchedIsKept ==
  \A p \in Data : Started(p) /\ p < nextFetchCursor => p \in processed \cup lastFetchLogGroupList

\* The consumer, with crashes and other consumers, implements ShardConsumption:
\* in particular every batch is processed after everything before it.
Consumption == INSTANCE ShardConsumption
ImplementsConsumption == Consumption!Spec

\* README.md:9: a consumer that shut down leaves nothing for the next start to
\* consume again.  It owned the shard when it completed, so the service has the
\* checkpoint behind all it has processed.
ShutdownSavesAll ==
  [][consumerStatus # "SHUTDOWN_COMPLETE" /\ consumerStatus' = "SHUTDOWN_COMPLETE" /\ owner =>
       \A p \in Data : p < nextFetchCursor /\ p \notin lastFetchLogGroupList => p < checkPoint']_vars

\* A consumer told to shut down gets there, however often saving fails, unless
\* its process dies.
ShutdownCompletes == shutdownFlag ~> consumerStatus = "SHUTDOWN_COMPLETE" \/ ~shutdownFlag

\* What is written is processed in the end, unless the consumer is told to stop.
DataIsProcessed ==
  \A p \in Data : Started(p) /\ p < logEnd ~> p \in processed \/ shutdownFlag

\* A checkpoint that Process saved lazily reaches the service even if no more
\* data comes (tasks.go:79), unless the process dies first.
SavedReachesService ==
  \A c \in Cursor : pendingCheckPoint = c ~>
                      checkPoint >= c \/ pendingCheckPoint = NoCursor
=============================================================================
