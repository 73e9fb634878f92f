---------------------------- MODULE ConsumerGroup ----------------------------
(***************************************************************************)
(* The consumers of a group and the service, which is modelled from what   *)
(* the client relies on: a shard that a consumer reports is not given to   *)
(* another one, unless the service has given the consumer up.              *)
(***************************************************************************)
EXTENDS ConsumerWorker

\* The service answers a heartbeat with the shards that are for this consumer and
\* that nobody else has.
Given(c) == {s \in Shard : wanted[s] = c /\ owner[s] \in {c, Nobody}}
Released(c) == {s \in Shard : owner[s] = c /\ wanted[s] # c /\ s \notin message[c]}

Assign(c) ==
  /\ owner' = [s \in Shard |-> IF s \in Given(c) THEN c
                               ELSE IF s \in Released(c) THEN Nobody ELSE owner[s]]
  /\ UNCHANGED <<wanted, moves>>

AnswerHeartBeat(c) == HeartBeatEnds(c) /\ Assign(c) /\ SetHeldShards(c, Given(c))

\* The answer is lost.
AnswerIsLost(c) == HeartBeatEnds(c) /\ Assign(c) /\ KeepOrReset(c)

\* The service wants another consumer to have the shard.
MoveShard(s, c) ==
  /\ moves < MaxMoves /\ wanted[s] # c
  /\ moves' = moves + 1
  /\ wanted' = [wanted EXCEPT ![s] = c]
  /\ UNCHANGED <<heartVars, workerVars, stopVars, owner>>

\* A consumer that sends no heartbeats any more is given up.
Expire(c) ==
  /\ heartPc[c] = "done"
  /\ \E s \in Shard : owner[s] = c
  /\ owner' = [s \in Shard |-> IF owner[s] = c THEN Nobody ELSE owner[s]]
  /\ UNCHANGED <<heartVars, workerVars, stopVars, wanted, moves>>

Terminated ==
  /\ \A c \in Consumer : heartPc[c] = "done" /\ workerPc[c] = "stopped"
  /\ UNCHANGED vars

Next ==
  \/ \E c \in Consumer :
       \/ HeartBeatRun(c) \/ Run(c) \/ StopWorker(c) \/ ShutDownHeart(c)
       \/ AnswerHeartBeat(c) \/ AnswerIsLost(c) \/ Expire(c)
       \/ \E s \in Shard : CheckPointRejected(c, s) \/ ShutDownCompletes(c, s)
  \/ \E s \in Shard, c \in Consumer \cup {Nobody} : MoveShard(s, c)
  \/ Terminated

Spec == Init /\ [][Next]_vars

\* Goroutines run, StopAndWait goes on once it began, a shutdown task gets through,
\* and of the heartbeats that are sent again and again some are answered.
Fairness ==
  \A c \in Consumer :
    /\ WF_vars(HeartBeatRun(c)) /\ WF_vars(Run(c)) /\ WF_vars(ShutDownHeart(c))
    /\ SF_vars(AnswerHeartBeat(c)) /\ WF_vars(Expire(c))
    /\ \A s \in Shard : WF_vars(ShutDownCompletes(c, s))

FairSpec == Spec /\ Fairness

----------------------------------------------------------------------------
(* Properties *)

\* When StopAndWait has returned nothing is consumed any more.
QuietAfterStop == \A c \in Consumer, s \in Shard : workerPc[c] = "stopped" => ~InUse(c, s)

\* What a consumer does not report any more, so that others may get it, it does not
\* consume: its shutdown is complete, or the service has taken the shard before.
ReleasedWhenComplete ==
  [][\A c \in Consumer, s \in Shard :
       s \in heartShards[c] /\ s \notin heartShards'[c] =>
         shardConsumer[c][s] = "complete" \/ owner[s] # c]_vars

\* A shard that was removed is reported again only if the service assigned it: else
\* nobody consumes it, nobody removes it, and the service gives it to nobody else
\* (README.md:15: consumers need not care for the balance of load).
RemovedStaysRemoved ==
  [][\A c \in Consumer, s \in Shard :
       s \notin heartShards[c] /\ s \in heartShards'[c] => s \in heldShards[c]]_vars

\* A shard that a consumer holds is consumed, even if it was taken away before and a
\* complete shard consumer is left from that time.
HeldIsConsumed ==
  \A c \in Consumer, s \in Shard :
    s \in heldShards[c] ~> InUse(c, s) \/ s \notin heldShards[c] \/ workerStop[c]

\* A shard that was taken away is not consumed for ever.
TakenIsReleased ==
  \A c \in Consumer, s \in Shard :
    s \notin heldShards[c] ~> ~InUse(c, s) \/ s \in heldShards[c]

\* StopAndWait returns, whatever the shard consumers are doing when it is called.
StopReturns == \A c \in Consumer : workerStop[c] ~> workerPc[c] = "stopped"
=============================================================================
