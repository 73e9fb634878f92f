------------------------- MODULE LogStoreOperations -------------------------
(***************************************************************************)
(* The operations of LogStore: log_store.go and log_store_shiper.go.  All  *)
(* but the queries' POST and the reads are writes; all go through          *)
(* request(project, ..).  Marshalling to protobuf and JSON and the         *)
(* compressions are abstracted to "it can fail".                           *)
(***************************************************************************)
EXTENDS Operations

\* An empty group is not sent.  The constructors leave an lz4, zstd or no compression.
PutRawLog ==
  Read({"ListShards"}, "wrapped", "raw") \cup Write({"PutRawLog"}, {"empty", "wrapped"}, "wrapped")
PostRawLogs == Write({"PostRawLogs"}, {"empty", "wrapped"}, "wrapped")

PutOperations == Write({"PutLogs", "PostLogStoreLogs"}, {"empty", "wrapped"}, "wrapped")

\* With SetPutLogCompressType before it: InvalidCompressError is not an *Error.
InCompressType(ops) == Write(ops, {"raw", "empty", "wrapped"}, "wrapped")

\* GetLogsBytesV2 takes the next cursor of a meta that is nil after most errors.
CursorOperations ==
  Read({"GetCursor"}, "raw", "raw")
    \cup Rows({"GetLogsBytes", "GetLogsBytesV2"}, "project", TRUE, {"raw"}, "raw", "raw", "nilMeta")

\* A buffer of the size the header tells is made, however large that is.
GetLogsBytesWithQuery ==
  Rows({"GetLogsBytesWithQuery"}, "project", TRUE, {"raw"}, "raw", "raw", "assumes")

\* PullLogsV2 does so after every error; GetHistograms takes the first progress header.
GetHistograms == Rows({"GetHistograms"}, "project", TRUE, {}, "wrapped", "raw", "assumes")
PullOperations ==
  Rows({"PullLogs", "PullLogsV2"}, "project", TRUE, {"raw"}, "raw", "raw", "panics")
    \cup Rows({"PullLogsWithQuery"}, "project", TRUE, {"raw"}, "raw", "raw", "assumes")
    \cup GetHistograms

\* getLogsV3Internal posts the query, so that request treats it as a write.  It makes a buffer
\* of the size the header tells, a negative one too.
Query(ops) == Rows(ops, "project", FALSE, {"raw"}, "wrapped", "raw", "assumes")
GetContextLogs == Read({"GetContextLogs"}, "wrapped", "raw")
LogLineQueries ==
  Query({"GetLogLines", "GetLogLinesByNano", "GetLogLinesV2", "GetLogs", "GetLogsByNano"})

ToCompleted ==
  Polling(Query({"GetLogsToCompleted", "GetLogsToCompletedV2", "GetLogsToCompletedV3"}))
    \cup Polling({[r EXCEPT !.op = "GetHistogramsToCompleted"] : r \in GetHistograms})

Queries == Query({"GetLogsV2", "GetLogsV3"}) \cup GetContextLogs

IndexOperations ==
  Write({"CreateIndex", "UpdateIndex"}, {"raw"}, "raw")
    \cup Write({"CreateIndexString", "UpdateIndexString", "DeleteIndex"}, {}, "raw")
    \cup Read({"GetIndex"}, "raw", "raw")

\* UpdateMeteringMode closes the nil response of a failed request, and no other.
\* What it marshals always can be.
MeteringOperations ==
  Read({"GetIndexString"}, "raw", "read") \cup Existence({"CheckIndexExist"}, "raw")
    \cup Read({"GetMeteringMode"}, "raw", "raw")
    \cup NotClosed(Rows({"UpdateMeteringMode"}, "project", FALSE, {}, "raw", "ignored", "panics"))

ShipperOperations ==
  Write({"CreateShipper", "UpdateShipper"}, {"wrapped"}, "raw") \cup Write({"DeleteShipper"}, {}, "raw")
    \cup Read({"GetShipper"}, "raw", "raw") \cup Read({"ListShipper"}, "raw", "ignored")

AllLogStoreOperations ==
  UNION {PutRawLog, PostRawLogs, PutOperations, CursorOperations, GetLogsBytesWithQuery, PullOperations,
         LogLineQueries, ToCompleted, Queries, IndexOperations, MeteringOperations, ShipperOperations}
=============================================================================
