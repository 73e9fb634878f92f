------------------------- MODULE ConsumerGroupProofs -------------------------
(***************************************************************************)
(* Theorems about the consumers of a group: types, what is quiet after     *)
(* StopAndWait, and when a shard is released, for any number of consumers  *)
(* and shards.                                                             *)
(***************************************************************************)
EXTENDS ConsumerGroup, TLAPS

\* The types of the variables that sets of shards are kept in
LEMMA ShardSets ==
  ASSUME TypeOK, NEW c \in Consumer
  PROVE  /\ heldShards[c] \subseteq Shard /\ heartShards[c] \subseteq Shard
         /\ uploadShards[c] \subseteq Shard /\ message[c] \subseteq Shard
         /\ snapshot[c] \subseteq Shard /\ todo[c] \subseteq Shard
BY DEF TypeOK

----------------------------------------------------------------------------
(* Types *)

LEMMA TypeHeartBeat == ASSUME TypeOK, NEW c \in Consumer, HeartBeatRun(c) PROVE TypeOK'
<1>. USE ShardSets DEF TypeOK, HeartUnchanged, HeartGoes, HeartState, heartVars, workerVars, stopVars, serviceVars
<1>1. CASE ReadShards(c)
  BY <1>1 DEF ReadShards
<1>2. CASE SetHeartShards(c)
  BY <1>2 DEF SetHeartShards
<1>3. CASE SendHeartBeat(c)
  BY <1>3 DEF SendHeartBeat
<1>4. CASE HeartBeatFails(c)
  <2>1. heldShards' \in [Consumer -> SUBSET Shard]
    BY <1>4 DEF HeartBeatFails, KeepOrReset, SetHeldShards
  <2>. QED BY <1>4, <2>1 DEF HeartBeatFails, HeartBeatEnds
<1>5. CASE HeartBeatExits(c)
  BY <1>5 DEF HeartBeatExits
<1>. QED BY <1>1, <1>2, <1>3, <1>4, <1>5 DEF HeartBeatRun

LEMMA BecomesType ==
  ASSUME TypeOK, NEW c \in Consumer, NEW s \in Shard, NEW x \in ConsumerState, Becomes(c, s, x)
  PROVE  shardConsumer' \in [Consumer -> [Shard -> ConsumerState]]
<1>1. [shardConsumer[c] EXCEPT ![s] = x] \in [Shard -> ConsumerState]
  BY DEF TypeOK
<1>. QED BY <1>1 DEF TypeOK, Becomes

LEMMA VisitedType ==
  ASSUME TypeOK, NEW c \in Consumer, NEW s \in Shard, Visited(c, s)
  PROVE  /\ todo' \in [Consumer -> SUBSET Shard]
         /\ \A d \in Consumer : todo'[d] \subseteq todo[d]
BY DEF TypeOK, Visited

LEMMA TypeRun == ASSUME TypeOK, NEW c \in Consumer, Run(c) PROVE TypeOK'
<1>. USE ShardSets DEF TypeOK, WorkerUnchanged, WorkerGoes, WorkerState, ConsumerState, Becomes,
                       Visited, stopVars, serviceVars
<1>1. CASE GetHeldShards(c)
  BY <1>1 DEF GetHeldShards
<1>2. CASE BeginClean(c)
  BY <1>2 DEF BeginClean
<1>3. CASE LeaveLoop(c)
  BY <1>3 DEF LeaveLoop
<1>4. CASE ShutDownRound(c)
  BY <1>4 DEF ShutDownRound, InUse
<1>5. CASE RunReturns(c)
  BY <1>5 DEF RunReturns
<1>6. ASSUME NEW s \in Shard, ConsumeShard(c, s) PROVE TypeOK'
  <2>1. shardConsumer' \in [Consumer -> [Shard -> ConsumerState]]
    BY <1>6, BecomesType DEF ConsumeShard
  <2>. HIDE DEF Visited, Becomes
  <2>. QED BY <1>6, <2>1, VisitedType DEF ConsumeShard
<1>7. ASSUME NEW s \in Shard, KeepRunning(c, s) PROVE TypeOK'
  BY <1>7 DEF KeepRunning
<1>8. ASSUME NEW s \in Shard, TellToShutDown(c, s) PROVE TypeOK'
  <2>1. shardConsumer' \in [Consumer -> [Shard -> ConsumerState]]
    BY <1>8, BecomesType DEF TellToShutDown
  <2>. HIDE DEF Visited, Becomes
  <2>2. CASE Visited(c, s)
    BY <1>8, <2>1, <2>2, VisitedType DEF TellToShutDown
  <2>3. CASE UNCHANGED todo
    BY <1>8, <2>1, <2>3 DEF TellToShutDown
  <2>. QED BY <1>8, <2>2, <2>3 DEF TellToShutDown
<1>9. ASSUME NEW s \in Shard, CleanComplete(c, s) PROVE TypeOK'
  <2>1. shardConsumer' \in [Consumer -> [Shard -> ConsumerState]]
    BY <1>9, BecomesType DEF CleanComplete
  <2>2. heartShards' \in [Consumer -> SUBSET Shard]
    BY <1>9 DEF CleanComplete, RemoveHeartShard
  <2>. HIDE DEF Visited, Becomes
  <2>. QED BY <1>9, <2>1, <2>2, VisitedType DEF CleanComplete
<1>. QED BY <1>1, <1>2, <1>3, <1>4, <1>5, <1>6, <1>7, <1>8, <1>9 DEF Run

LEMMA TypeOthers ==
  ASSUME TypeOK, NEW c \in Consumer,
         \/ StopWorker(c) \/ ShutDownHeart(c) \/ AnswerHeartBeat(c) \/ AnswerIsLost(c) \/ Expire(c)
         \/ \E s \in Shard : CheckPointRejected(c, s) \/ ShutDownCompletes(c, s)
  PROVE  TypeOK'
<1>. USE ShardSets DEF TypeOK, heartVars, workerVars, stopVars, serviceVars
<1>1. CASE StopWorker(c)
  BY <1>1 DEF StopWorker
<1>7. CASE ShutDownHeart(c)
  BY <1>7 DEF ShutDownHeart
<1>2. CASE AnswerHeartBeat(c)
  <2>1. Given(c) \subseteq Shard
    BY DEF Given
  <2>2. owner' \in [Shard -> Consumer \cup {Nobody}]
    BY <1>2 DEF AnswerHeartBeat, Assign
  <2>. QED BY <1>2, <2>1, <2>2 DEF AnswerHeartBeat, HeartBeatEnds, HeartGoes, HeartState, Assign, SetHeldShards
<1>3. CASE AnswerIsLost(c)
  <2>1. owner' \in [Shard -> Consumer \cup {Nobody}]
    BY <1>3 DEF AnswerIsLost, Assign
  <2>. QED BY <1>3, <2>1 DEF AnswerIsLost, HeartBeatEnds, HeartGoes, HeartState, Assign, KeepOrReset, SetHeldShards
<1>4. CASE Expire(c)
  BY <1>4 DEF Expire
<1>5. ASSUME NEW s \in Shard, CheckPointRejected(c, s) PROVE TypeOK'
  BY <1>5 DEF CheckPointRejected, RemoveHeartShard
<1>6. ASSUME NEW s \in Shard, ShutDownCompletes(c, s) PROVE TypeOK'
  BY <1>6 DEF ShutDownCompletes, Becomes, ConsumerState
<1>. QED BY <1>1, <1>2, <1>3, <1>4, <1>5, <1>6, <1>7

LEMMA TypeStep == TypeOK /\ [Next]_vars => TypeOK'
<1>1. ASSUME TypeOK, NEW s \in Shard, NEW c \in Consumer \cup {Nobody}, MoveShard(s, c)
      PROVE  TypeOK'
  BY <1>1, GroupAssumption DEF MoveShard, TypeOK, GroupAssumption, heartVars, workerVars, stopVars
<1>2. ASSUME TypeOK, UNCHANGED vars PROVE TypeOK'
  BY <1>2 DEF TypeOK, vars, heartVars, workerVars, stopVars, serviceVars
<1>. QED BY <1>1, <1>2, TypeHeartBeat, TypeRun, TypeOthers DEF Next, Terminated

\* Types, and where the locals of the goroutines are empty (GroupState!TypeOK), for any
\* group.
THEOREM TypeCorrect == Spec => []TypeOK
<1>1. Init => TypeOK
  BY GroupAssumption DEF Init, TypeOK, HeartState, WorkerState, ConsumerState, GroupAssumption
<1>. QED BY <1>1, TypeStep, PTL DEF Spec

----------------------------------------------------------------------------
(* What is left when StopAndWait returns *)

\* run returns when the map of shard consumers is empty, and it stays empty.
EmptyAfterStop ==
  \A c \in Consumer, s \in Shard : workerPc[c] = "stopped" => shardConsumer[c][s] = "none"

LEMMA EmptyRun == ASSUME TypeOK, EmptyAfterStop, NEW c \in Consumer, Run(c) PROVE EmptyAfterStop'
<1>. USE DEF TypeOK, EmptyAfterStop, WorkerGoes, Becomes
<1>1. CASE GetHeldShards(c) \/ BeginClean(c) \/ LeaveLoop(c)
  BY <1>1 DEF GetHeldShards, BeginClean, LeaveLoop
<1>2. CASE ShutDownRound(c)
  BY <1>2 DEF ShutDownRound
<1>3. CASE RunReturns(c)
  BY <1>3 DEF RunReturns
<1>4. ASSUME NEW s \in Shard,
             ConsumeShard(c, s) \/ KeepRunning(c, s) \/ TellToShutDown(c, s) \/ CleanComplete(c, s)
      PROVE  EmptyAfterStop'
  <2>1. workerPc[c] # "stopped" /\ workerPc' = workerPc
    BY <1>4 DEF ConsumeShard, KeepRunning, TellToShutDown, CleanComplete
  <2>2. \A d \in Consumer : d # c => shardConsumer'[d] = shardConsumer[d]
    BY <1>4 DEF ConsumeShard, KeepRunning, TellToShutDown, CleanComplete
  <2>. QED BY <2>1, <2>2
<1>. QED BY <1>1, <1>2, <1>3, <1>4 DEF Run

LEMMA EmptyStep == TypeOK /\ EmptyAfterStop /\ [Next]_vars => EmptyAfterStop'
<1>1. ASSUME EmptyAfterStop, UNCHANGED <<workerPc, shardConsumer>> PROVE EmptyAfterStop'
  BY <1>1 DEF EmptyAfterStop
<1>2. ASSUME TypeOK, EmptyAfterStop, NEW c \in Consumer, NEW s \in Shard, ShutDownCompletes(c, s)
      PROVE  EmptyAfterStop'
  <2>1. workerPc' = workerPc /\ workerPc[c] # "stopped"
    BY <1>2 DEF ShutDownCompletes, EmptyAfterStop
  <2>2. \A d \in Consumer : d # c => shardConsumer'[d] = shardConsumer[d]
    BY <1>2 DEF ShutDownCompletes, Becomes, TypeOK
  <2>. QED BY <1>2, <2>1, <2>2 DEF EmptyAfterStop
<1>3. ASSUME NEW c \in Consumer,
             \/ HeartBeatRun(c) \/ StopWorker(c) \/ ShutDownHeart(c)
             \/ AnswerHeartBeat(c) \/ AnswerIsLost(c) \/ Expire(c)
             \/ \E s \in Shard : CheckPointRejected(c, s)
      PROVE  UNCHANGED <<workerPc, shardConsumer>>
  BY <1>3 DEF HeartBeatRun, ReadShards, SetHeartShards, SendHeartBeat, HeartBeatFails, HeartBeatExits,
              HeartBeatEnds, HeartUnchanged, StopWorker, ShutDownHeart, AnswerHeartBeat, AnswerIsLost,
              Expire, CheckPointRejected, workerVars
<1>4. ASSUME \/ \E s \in Shard, c \in Consumer \cup {Nobody} : MoveShard(s, c)
             \/ Terminated \/ UNCHANGED vars
      PROVE  UNCHANGED <<workerPc, shardConsumer>>
  BY <1>4 DEF MoveShard, Terminated, vars, workerVars
<1>. QED BY <1>1, <1>2, <1>3, <1>4, EmptyRun DEF Next

\* QuietAfterStop: once StopAndWait has returned no shard is being consumed.
THEOREM QuietWhenStopped == Spec => []QuietAfterStop
<1>1. Init => EmptyAfterStop
  BY DEF Init, EmptyAfterStop
<1>2. EmptyAfterStop => QuietAfterStop
  BY DEF EmptyAfterStop, QuietAfterStop, InUse
<1>. QED BY <1>1, <1>2, TypeCorrect, EmptyStep, PTL DEF Spec

----------------------------------------------------------------------------
(* When a shard is released *)

\* What is about to be written contains what is reported: only removals can have come
\* between.  So the write of line 70 releases nothing.
UploadCovers ==
  \A c \in Consumer : heartPc[c] = "write" => heartShards[c] \subseteq uploadShards[c]

LEMMA CoversHeartBeat ==
  ASSUME TypeOK, UploadCovers, NEW c \in Consumer, HeartBeatRun(c) PROVE UploadCovers'
<1>. USE DEF TypeOK, UploadCovers, HeartGoes
<1>1. CASE ReadShards(c)
  BY <1>1 DEF ReadShards
<1>2. CASE SetHeartShards(c)
  BY <1>2 DEF SetHeartShards
<1>3. CASE SendHeartBeat(c) \/ HeartBeatExits(c)
  BY <1>3 DEF SendHeartBeat, HeartBeatExits
<1>4. CASE HeartBeatFails(c)
  BY <1>4 DEF HeartBeatFails, HeartBeatEnds
<1>. QED BY <1>1, <1>2, <1>3, <1>4 DEF HeartBeatRun

LEMMA CoversStep == TypeOK /\ UploadCovers /\ [Next]_vars => UploadCovers'
<1>1. ASSUME UploadCovers, UNCHANGED <<heartPc, heartShards, uploadShards>> PROVE UploadCovers'
  BY <1>1 DEF UploadCovers
<1>2. ASSUME TypeOK, UploadCovers, NEW c \in Consumer, NEW s \in Shard, RemoveHeartShard(c, s),
             UNCHANGED <<heartPc, uploadShards>>
      PROVE  UploadCovers'
  BY <1>2 DEF TypeOK, UploadCovers, RemoveHeartShard
<1>3. ASSUME TypeOK, UploadCovers, NEW c \in Consumer, AnswerHeartBeat(c) \/ AnswerIsLost(c)
      PROVE  UploadCovers'
  BY <1>3 DEF TypeOK, UploadCovers, AnswerHeartBeat, AnswerIsLost, HeartBeatEnds, HeartGoes
<1>4. ASSUME TypeOK, UploadCovers, NEW c \in Consumer, NEW s \in Shard,
             CleanComplete(c, s) \/ CheckPointRejected(c, s)
      PROVE  UploadCovers'
  BY <1>2, <1>4 DEF CleanComplete, CheckPointRejected, WorkerUnchanged
<1>5. ASSUME NEW c \in Consumer,
             \/ GetHeldShards(c) \/ BeginClean(c) \/ LeaveLoop(c) \/ ShutDownRound(c) \/ RunReturns(c)
             \/ StopWorker(c) \/ ShutDownHeart(c) \/ Expire(c)
             \/ \E s \in Shard : \/ ConsumeShard(c, s) \/ KeepRunning(c, s) \/ TellToShutDown(c, s)
                                \/ ShutDownCompletes(c, s)
      PROVE  UNCHANGED <<heartPc, heartShards, uploadShards>>
  BY <1>5 DEF GetHeldShards, BeginClean, LeaveLoop, ShutDownRound, RunReturns, ConsumeShard, KeepRunning,
              TellToShutDown, ShutDownCompletes, StopWorker, ShutDownHeart, Expire, WorkerUnchanged, heartVars
<1>6. ASSUME \/ \E s \in Shard, c \in Consumer \cup {Nobody} : MoveShard(s, c)
             \/ Terminated \/ UNCHANGED vars
      PROVE  UNCHANGED <<heartPc, heartShards, uploadShards>>
  BY <1>6 DEF MoveShard, Terminated, vars, heartVars
<1>. QED BY <1>1, <1>3, <1>4, <1>5, <1>6, CoversHeartBeat DEF Next, Run

\* The step that ReleasedWhenComplete is about
Releases(c, s) == s \in heartShards[c] /\ s \notin heartShards'[c]

LEMMA ReleaseStep ==
  ASSUME TypeOK, UploadCovers, [Next]_vars, NEW c \in Consumer, NEW s \in Shard, Releases(c, s)
  PROVE  shardConsumer[c][s] = "complete" \/ owner[s] # c
<1>1. ASSUME UNCHANGED heartShards PROVE FALSE
  BY <1>1 DEF Releases
<1>2. ASSUME NEW d \in Consumer, NEW r \in Shard, RemoveHeartShard(d, r) PROVE d = c /\ r = s
  BY <1>2 DEF Releases, RemoveHeartShard, TypeOK
<1>3. ASSUME NEW d \in Consumer, HeartBeatRun(d) PROVE FALSE
  <2>1. ~SetHeartShards(d)
    BY DEF SetHeartShards, HeartGoes, UploadCovers, TypeOK, Releases
  <2>. QED BY <1>1, <1>3, <2>1 DEF HeartBeatRun, ReadShards, SendHeartBeat, HeartBeatFails,
                                   HeartBeatEnds, HeartBeatExits
<1>4. ASSUME NEW d \in Consumer, Run(d) PROVE shardConsumer[c][s] = "complete"
  <2>1. PICK r \in Shard : CleanComplete(d, r)
    BY <1>1, <1>4 DEF Run, GetHeldShards, BeginClean, LeaveLoop, ShutDownRound, RunReturns,
                      ConsumeShard, KeepRunning, TellToShutDown
  <2>. QED BY <1>2, <2>1 DEF CleanComplete
<1>5. ASSUME NEW d \in Consumer, NEW r \in Shard, CheckPointRejected(d, r) PROVE owner[s] # c
  BY <1>2, <1>5 DEF CheckPointRejected
<1>6. ASSUME NEW d \in Consumer,
             \/ StopWorker(d) \/ ShutDownHeart(d) \/ AnswerHeartBeat(d) \/ AnswerIsLost(d) \/ Expire(d)
             \/ \E r \in Shard : ShutDownCompletes(d, r)
      PROVE  FALSE
  BY <1>1, <1>6 DEF StopWorker, ShutDownHeart, AnswerHeartBeat, AnswerIsLost, HeartBeatEnds, Expire,
                    ShutDownCompletes, heartVars
<1>7. ASSUME \/ \E r \in Shard, d \in Consumer \cup {Nobody} : MoveShard(r, d)
             \/ Terminated \/ UNCHANGED vars
      PROVE  FALSE
  BY <1>1, <1>7 DEF MoveShard, Terminated, vars, heartVars
<1>. QED BY <1>3, <1>4, <1>5, <1>6, <1>7 DEF Next

\* ReleasedWhenComplete: a consumer stops reporting a shard only when its shutdown is
\* complete or the service has taken the shard from it.
THEOREM ReleasedInOrder == Spec => ReleasedWhenComplete
<1>1. Init => UploadCovers
  BY DEF Init, UploadCovers
<1>2. TypeOK /\ UploadCovers /\ [Next]_vars =>
        [\A c \in Consumer, s \in Shard :
           s \in heartShards[c] /\ s \notin heartShards'[c] =>
             shardConsumer[c][s] = "complete" \/ owner[s] # c]_vars
  BY ReleaseStep DEF Releases
<1>. QED BY <1>1, <1>2, TypeCorrect, CoversStep, PTL DEF Spec, ReleasedWhenComplete
=============================================================================
