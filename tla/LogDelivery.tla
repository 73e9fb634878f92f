---------------------------- MODULE LogDelivery ----------------------------
(***************************************************************************)
(* What a log producer promises for each log handed to Send, without its   *)
(* goroutines and queues: a log is refused, or it is accepted and later    *)
(* succeeds or fails, once and for good.  Logs that travel in one batch    *)
(* are settled together.                                                   *)
(***************************************************************************)
CONSTANT Log
VARIABLE status

Init == status = [l \in Log |-> "new"]

Accept(l) == status[l] = "new" /\ status' = [status EXCEPT ![l] = "pending"]

Refuse(l) == status[l] = "new" /\ status' = [status EXCEPT ![l] = "refused"]

\* A batch S of accepted logs is settled with outcome r.
SettleAll(S, r) ==
  /\ S # {}
  /\ \A l \in S : status[l] = "pending"
  /\ status' = [l \in Log |-> IF l \in S THEN r ELSE status[l]]

Next ==
  \/ \E l \in Log : Accept(l) \/ Refuse(l)
  \/ \E S \in SUBSET Log, r \in {"success", "fail"} : SettleAll(S, r)

Spec == Init /\ [][Next]_status
=============================================================================
