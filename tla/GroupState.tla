----------------------------- MODULE GroupState -----------------------------
(***************************************************************************)
(* The state of the consumers of a group (src/consumer), each a process    *)
(* with a worker goroutine and a heartbeat goroutine, and of the service   *)
(* that assigns shards to them:                                            *)
(*   HeartBeat       the heartbeat goroutine and removeHeartShard          *)
(*   ConsumerWorker  the worker's loop, its clean-up, StopAndWait          *)
(* ConsumerGroup composes them with the service.  What a shard consumer    *)
(* does inside is ShardConsumer; here it works, shuts down or is complete. *)
(***************************************************************************)
EXTENDS Integers, FiniteSets

CONSTANTS
  Consumer, Shard,
  Nobody,    \* no consumer, or one that is not modelled
  MaxMoves   \* bound of the model: how often the service changes its mind

ASSUME GroupAssumption ==
  Nobody \notin Consumer /\ MaxMoves \in Nat

VARIABLES
  \* ConsumerHeartBeat
  heldShards,   \* per consumer: what the last answer assigned to it
  heartShards,  \* per consumer: what it reports
  uploadShards, \* per consumer: the local of heartBeatRun
  heartPc, heartStop,
  message,      \* per consumer: the request under way
  \* ConsumerWorker
  workerPc, workerStop,
  snapshot,     \* per consumer: the local heldShards of run
  todo,         \* per consumer: shards the current loop has still to visit
  shardConsumer,
  \* the service
  owner,        \* per shard: who has it, as far as the service knows
  wanted,       \* per shard: who should have it
  moves         \* how often that changed

heartVars == <<heldShards, heartShards, uploadShards, heartPc, message>>
workerVars == <<workerPc, snapshot, todo, shardConsumer>>
stopVars == <<heartStop, workerStop>>
serviceVars == <<owner, wanted, moves>>
vars == <<heartVars, workerVars, stopVars, serviceVars>>

HeartState == {"loop", "write", "send", "sent", "done"}
WorkerState == {"consume", "clean", "shutDown", "stopped"}
ConsumerState == {"none", "working", "shuttingDown", "complete"}

\* The type of every variable, and where a request and a round may be under way.
TypeOK ==
  /\ {heldShards, heartShards, uploadShards, message, snapshot, todo}
       \subseteq [Consumer -> SUBSET Shard]
  /\ heartPc \in [Consumer -> HeartState] /\ workerPc \in [Consumer -> WorkerState]
  /\ heartStop \in [Consumer -> BOOLEAN] /\ workerStop \in [Consumer -> BOOLEAN]
  /\ shardConsumer \in [Consumer -> [Shard -> ConsumerState]]
  /\ owner \in [Shard -> Consumer \cup {Nobody}]
  /\ wanted \in [Shard -> Consumer \cup {Nobody}]
  /\ moves \in 0 .. MaxMoves
  /\ \A c \in Consumer :
       /\ message[c] # {} => heartPc[c] = "sent"
       /\ todo[c] # {} => workerPc[c] \in {"consume", "clean"}

Init ==
  /\ heldShards = [c \in Consumer |-> {}] /\ heartShards = heldShards
  /\ uploadShards = heldShards /\ message = heldShards
  /\ heartPc = [c \in Consumer |-> "loop"] /\ heartStop = [c \in Consumer |-> FALSE]
  /\ workerPc = [c \in Consumer |-> "clean"] /\ workerStop = heartStop
  /\ snapshot = heldShards /\ todo = heldShards
  /\ shardConsumer = [c \in Consumer |-> [s \in Shard |-> "none"]]
  /\ owner = [s \in Shard |-> Nobody] /\ moves = 0
  /\ wanted \in [Shard -> Consumer \cup {Nobody}]

\* A shard consumer that fetches, processes, or still has to save.
InUse(c, s) == shardConsumer[c][s] \in {"working", "shuttingDown"}
=============================================================================
