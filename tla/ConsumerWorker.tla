--------------------------- MODULE ConsumerWorker ---------------------------
(***************************************************************************)
(* consumer/worker.go: the loop of the worker, cleanShardConsumer,         *)
(* shutDownAndWait and StopAndWait, with the steps of the shard consumers  *)
(* that the others can see.                                                *)
(***************************************************************************)
EXTENDS HeartBeat

WorkerGoes(c, from, to) == workerPc[c] = from /\ workerPc' = [workerPc EXCEPT ![c] = to]
Becomes(c, s, state) == shardConsumer' = [shardConsumer EXCEPT ![c][s] = state]
Visited(c, s) == s \in todo[c] /\ todo' = [todo EXCEPT ![c] = @ \ {s}]
WorkerUnchanged == UNCHANGED <<heldShards, uploadShards, heartPc, message, stopVars, serviceVars>>

\* run: a new round.  The last one is over when there is nothing left to clean.
GetHeldShards(c) ==
  /\ WorkerGoes(c, "clean", "consume") /\ todo[c] = {} /\ ~workerStop[c]
  /\ snapshot' = [snapshot EXCEPT ![c] = heldShards[c]]
  /\ todo' = [todo EXCEPT ![c] = heldShards[c]]
  /\ UNCHANGED <<shardConsumer, heartShards>> /\ WorkerUnchanged

\* getShardConsumer and consume, unless the worker is to stop
ConsumeShard(c, s) ==
  /\ workerPc[c] = "consume" /\ ~workerStop[c] /\ Visited(c, s)
  /\ \/ shardConsumer[c][s] = "none" /\ Becomes(c, s, "working")
     \/ shardConsumer[c][s] # "none" /\ UNCHANGED shardConsumer
  /\ UNCHANGED <<workerPc, snapshot, heartShards>> /\ WorkerUnchanged

\* cleanShardConsumer ranges over the shard consumers there are.
BeginClean(c) ==
  /\ WorkerGoes(c, "consume", "clean") /\ (todo[c] = {} \/ workerStop[c])
  /\ todo' = [todo EXCEPT ![c] = {s \in Shard : shardConsumer[c][s] # "none"}]
  /\ UNCHANGED <<snapshot, shardConsumer, heartShards>> /\ WorkerUnchanged

KeepRunning(c, s) ==
  /\ workerPc[c] = "clean" /\ InUse(c, s) /\ s \in snapshot[c] /\ Visited(c, s)
  /\ UNCHANGED <<workerPc, snapshot, shardConsumer, heartShards>> /\ WorkerUnchanged

\* Mutant: a shard is released while its last task may still run.
TellToShutDownAndRemove(c, s) ==
  /\ workerPc[c] = "clean" /\ InUse(c, s) /\ s \notin snapshot[c] /\ Visited(c, s)
  /\ Becomes(c, s, "shuttingDown") /\ RemoveHeartShard(c, s)
  /\ UNCHANGED <<workerPc, snapshot>> /\ WorkerUnchanged

\* Mutant: only shards that the heartbeat has given up are shut down.
TellToShutDownLate(c, s) ==
  /\ workerPc[c] = "clean" /\ InUse(c, s) /\ s \notin snapshot[c] /\ Visited(c, s)
  /\ \/ s \notin heartShards[c] /\ Becomes(c, s, "shuttingDown")
     \/ s \in heartShards[c] /\ UNCHANGED shardConsumer
  /\ UNCHANGED <<workerPc, snapshot, heartShards>> /\ WorkerUnchanged

\* A shard consumer whose shard is not in the snapshot is told to shut down.  Whether
\* it is complete (CleanComplete) is asked at once, mostly too soon.
TellToShutDown(c, s) ==
  /\ workerPc[c] = "clean" /\ InUse(c, s) /\ s \notin snapshot[c] /\ s \in todo[c]
  /\ Becomes(c, s, "shuttingDown")
  /\ Visited(c, s) \/ UNCHANGED todo
  /\ UNCHANGED <<workerPc, snapshot, heartShards>> /\ WorkerUnchanged

\* Mutant: a complete shard consumer stays in the map.
CleanCompleteKeeps(c, s) ==
  /\ workerPc[c] = "clean" /\ shardConsumer[c][s] = "complete" /\ Visited(c, s)
  /\ RemoveHeartShard(c, s)
  /\ UNCHANGED <<workerPc, snapshot, shardConsumer>> /\ WorkerUnchanged

\* A complete one is deleted, if the heartbeat still had its shard.
CleanComplete(c, s) ==
  /\ workerPc[c] = "clean" /\ shardConsumer[c][s] = "complete" /\ Visited(c, s)
  /\ RemoveHeartShard(c, s)
  /\ \/ s \in heartShards[c] /\ Becomes(c, s, "none")
     \/ s \notin heartShards[c] /\ UNCHANGED shardConsumer
  /\ UNCHANGED <<workerPc, snapshot>> /\ WorkerUnchanged

\* Mutant: the clean-up stops half way.
LeaveLoopAtOnce(c) ==
  /\ WorkerGoes(c, "clean", "shutDown") /\ workerStop[c]
  /\ UNCHANGED <<snapshot, todo, shardConsumer, heartShards>> /\ WorkerUnchanged

LeaveLoop(c) ==
  /\ WorkerGoes(c, "clean", "shutDown") /\ todo[c] = {} /\ workerStop[c]
  /\ UNCHANGED <<snapshot, todo, shardConsumer, heartShards>> /\ WorkerUnchanged

\* Mutant: the round deletes nobody.
ShutDownRoundKeeps(c) ==
  /\ workerPc[c] = "shutDown" /\ \E s \in Shard : shardConsumer[c][s] # "none"
  /\ shardConsumer' = [shardConsumer EXCEPT ![c] = [s \in Shard |->
       IF InUse(c, s) THEN "shuttingDown" ELSE shardConsumer[c][s]]]
  /\ UNCHANGED <<workerPc, snapshot, todo, heartShards>> /\ WorkerUnchanged

\* One round of shutDownAndWait; it ends with a round that meets nobody.
ShutDownRound(c) ==
  /\ workerPc[c] = "shutDown" /\ \E s \in Shard : shardConsumer[c][s] # "none"
  /\ shardConsumer' = [shardConsumer EXCEPT ![c] = [s \in Shard |->
       IF InUse(c, s) THEN "shuttingDown" ELSE "none"]]
  /\ UNCHANGED <<workerPc, snapshot, todo, heartShards>> /\ WorkerUnchanged

\* Mutant: after a round nobody is waited for.
RunReturnsEarly(c) ==
  /\ WorkerGoes(c, "shutDown", "stopped")
  /\ \A s \in Shard : shardConsumer[c][s] # "working"
  /\ UNCHANGED <<snapshot, todo, shardConsumer, heartShards>> /\ WorkerUnchanged

RunReturns(c) ==
  /\ WorkerGoes(c, "shutDown", "stopped") /\ \A s \in Shard : shardConsumer[c][s] = "none"
  /\ UNCHANGED <<snapshot, todo, shardConsumer, heartShards>> /\ WorkerUnchanged

Run(c) ==
  \/ GetHeldShards(c) \/ BeginClean(c)
  \/ \E s \in Shard : ConsumeShard(c, s) \/ KeepRunning(c, s)
                      \/ TellToShutDown(c, s) \/ CleanComplete(c, s)
  \/ LeaveLoop(c) \/ ShutDownRound(c) \/ RunReturns(c)

----------------------------------------------------------------------------
(* StopAndWait sets one flag after the other; it returns when run does. *)

StopWorker(c) ==
  /\ ~workerStop[c] /\ workerStop' = [workerStop EXCEPT ![c] = TRUE]
  /\ UNCHANGED <<heartVars, workerVars, heartStop, serviceVars>>

ShutDownHeart(c) ==
  /\ workerStop[c] /\ ~heartStop[c] /\ heartStop' = [heartStop EXCEPT ![c] = TRUE]
  /\ UNCHANGED <<heartVars, workerVars, workerStop, serviceVars>>

----------------------------------------------------------------------------
(* The goroutines of a shard consumer: see ShardConsumer *)

\* A checkpoint is rejected because another consumer has the shard.
CheckPointRejected(c, s) ==
  /\ InUse(c, s) /\ owner[s] # c
  /\ RemoveHeartShard(c, s)
  /\ UNCHANGED <<heldShards, uploadShards, heartPc, message, workerVars, stopVars, serviceVars>>

\* The shutdown task has flushed, or had nothing to flush.
ShutDownCompletes(c, s) ==
  /\ shardConsumer[c][s] = "shuttingDown" /\ Becomes(c, s, "complete")
  /\ UNCHANGED <<heartVars, workerPc, snapshot, todo, stopVars, serviceVars>>
=============================================================================
