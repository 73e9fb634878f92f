--------------------------- MODULE ShardConsumption ---------------------------
(***************************************************************************)
(* What a consumer group promises for one shard: its data is processed in  *)
(* order, and a checkpoint is saved only behind processed data.  Nothing   *)
(* is said of who processes, and a checkpoint may go back.                 *)
(***************************************************************************)
EXTENDS Integers

CONSTANTS LastCursor, Data

VARIABLES processed, checkPoint, firstCursor

Cursor == 0 .. LastCursor
NoCursor == -1

\* Everything from where the group started up to cursor c is in S.
Covers(S, first, c) == first # NoCursor => \A p \in Data : first <= p /\ p < c => p \in S

Init == processed = {} /\ checkPoint = NoCursor /\ firstCursor = NoCursor

Start ==
  \/ firstCursor' = firstCursor
  \/ firstCursor = NoCursor /\ firstCursor' \in Cursor

ProcessInOrder ==
  \E from, to \in Cursor :
    /\ Covers(processed, firstCursor', from)
    /\ processed' = processed \cup {p \in Data : from <= p /\ p < to}

Save ==
  \/ checkPoint' = checkPoint
  \/ checkPoint' \in Cursor /\ Covers(processed', firstCursor', checkPoint')

Next == Start /\ ProcessInOrder /\ Save

Spec == Init /\ [][Next]_<<processed, checkPoint, firstCursor>>
=============================================================================
