------------------------------ MODULE HeartBeat ------------------------------
(***************************************************************************)
(* consumer/heart_beat.go.  heartBeatRun reads the shards without the lock *)
(* (ReadShards), then writes their union (SetHeartShards) and sends it;    *)
(* the worker and the tasks of the shard consumers call removeHeartShard   *)
(* in between.                                                             *)
(***************************************************************************)
EXTENDS GroupState

HeartUnchanged == UNCHANGED <<workerVars, stopVars, serviceVars>>
HeartGoes(c, from, to) == heartPc[c] = from /\ heartPc' = [heartPc EXCEPT ![c] = to]

RemoveHeartShard(c, s) == heartShards' = [heartShards EXCEPT ![c] = @ \ {s}]

ReadShards(c) ==
  /\ HeartGoes(c, "loop", "write") /\ ~heartStop[c]
  /\ uploadShards' = [uploadShards EXCEPT ![c] = heartShards[c] \cup heldShards[c]]
  /\ UNCHANGED <<heldShards, heartShards, message>> /\ HeartUnchanged

\* Line 70: what was removed since line 69 is there again.
SetHeartShards(c) ==
  /\ HeartGoes(c, "write", "send")
  /\ heartShards' = [heartShards EXCEPT ![c] = uploadShards[c]]
  /\ uploadShards' = [uploadShards EXCEPT ![c] = {}]
  /\ UNCHANGED <<heldShards, message>> /\ HeartUnchanged

SendHeartBeat(c) ==
  /\ HeartGoes(c, "send", "sent")
  /\ message' = [message EXCEPT ![c] = heartShards[c]]
  /\ UNCHANGED <<heldShards, heartShards, uploadShards>> /\ HeartUnchanged

\* The request returns.
HeartBeatEnds(c) ==
  /\ HeartGoes(c, "sent", "loop")
  /\ message' = [message EXCEPT ![c] = {}]
  /\ UNCHANGED <<heartShards, uploadShards, workerVars, stopVars>>

\* An answer: setHeldShards.
SetHeldShards(c, shards) == heldShards' = [heldShards EXCEPT ![c] = shards]

\* A heartbeat without an answer: heldShards stays, unless the last success is too
\* long ago; an answer that cannot be read counts as one with no shards.
KeepOrReset(c) == UNCHANGED heldShards \/ SetHeldShards(c, {})

\* The request is lost.
HeartBeatFails(c) == HeartBeatEnds(c) /\ KeepOrReset(c) /\ UNCHANGED serviceVars

HeartBeatExits(c) ==
  /\ HeartGoes(c, "loop", "done") /\ heartStop[c]
  /\ UNCHANGED <<heldShards, heartShards, uploadShards, message>> /\ HeartUnchanged

HeartBeatRun(c) ==
  \/ ReadShards(c) \/ SetHeartShards(c) \/ SendHeartBeat(c)
  \/ HeartBeatFails(c) \/ HeartBeatExits(c)
=============================================================================
