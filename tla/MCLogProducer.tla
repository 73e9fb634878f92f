--------------------------- MODULE MCLogProducer ---------------------------
(***************************************************************************)
(* Instances of LogProducer for TLC, with the assumption of HashBuckets.   *)
(***************************************************************************)
EXTENDS LogProducer, HashBuckets, TLC

CONSTANTS c1, c2, c3, k1, k2

\* c1 and c2 are logs for the same key, c3 has a key of its own.
MCKeyOf == [c \in Call |-> IF c = c3 THEN k2 ELSE k1]
MCOneKey == [c \in Call |-> k1]
MCOne == [c \in Call |-> 1]
MCTwo == [c \in Call |-> 2]

\* MaxBlockSec below zero: waitTime has no limit.
MCForever == -1

MCSymmetry == Permutations(Call)
=============================================================================
