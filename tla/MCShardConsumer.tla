--------------------------- MODULE MCShardConsumer ---------------------------
EXTENDS ShardConsumer
MCData == {0, 2}
MCDense == {0, 1}
=============================================================================
