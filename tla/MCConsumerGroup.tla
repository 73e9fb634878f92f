--------------------------- MODULE MCConsumerGroup ---------------------------
(***************************************************************************)
(* Instances of ConsumerGroup for TLC.                                     *)
(***************************************************************************)
EXTENDS ConsumerGroup

CONSTANTS a, b, s1, s2
=============================================================================
