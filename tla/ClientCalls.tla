---------------------------- MODULE ClientCalls ----------------------------
(***************************************************************************)
(* What a caller of Client can call: its own requests, the methods that    *)
(* hand the call on to a LogProject or LogStore made for it by convert,    *)
(* and the few that make two requests.                                     *)
(***************************************************************************)
EXTENDS ProjectOperations, LogStoreOperations, ClientOperations

\* client_project.go: the methods of LogProject, under the same names.
LogStoreDelegates == OpsOf(LogStoreReads \cup LogStoreWrites)
MachineGroupDelegates == OpsOf(MachineGroupOperations)
ConfigDelegates ==
  OpsOf(ConfigReads \cup ConfigWrites)
    \cup {"GetAppliedConfigs", "ApplyConfigToMachineGroup", "RemoveConfigFromMachineGroup"}
EtlMetaDelegates ==
  OpsOf(EtlMetaReads \cup LoggingOperations) \cup {"CreateEtlMeta", "UpdateEtlMeta", "DeleteEtlMeta"}

\* client_store.go: the methods of LogStore.
PutDelegates == OpsOf(PutOperations)
InCompressTypeCalls ==
  InCompressType({"PostLogStoreLogsV2", "PostRawLogWithCompressType", "PutLogsWithCompressType",
                  "PutRawLogWithCompressType"})
PullDelegates == OpsOf(CursorOperations \cup GetLogsBytesWithQuery \cup PullOperations)
QueryDelegates == OpsOf(ToCompleted \cup LogLineQueries) \cup {"GetLogsV2", "GetLogsV3"}
IndexDelegates == OpsOf(IndexOperations) \cup {"GetIndexString"}

\* Methods of another name than the operation they make.
MeteringCalls ==
  {To("GetLogStoreMeteringMode", <<"GetMeteringMode">>),
   To("UpdateLogStoreMeteringMode", <<"UpdateMeteringMode">>)}
MetricStoreURLCall == {To("PutLogsWithMetricStoreURL", <<"PutLogs">>)}

\* A metric store is a log store with a sub store, an event store one with an index.
MetricStoreCalls ==
  {To("CreateMetricStore", <<"CreateLogStoreV2", "CreateSubStore">>),
   To("UpdateMetricStore", <<"UpdateLogStoreV2", "UpdateSubStoreTTL">>),
   To("DeleteMetricStore", <<"DeleteLogStore">>), To("GetMetricStore", <<"GetLogStore">>)}
EventStoreCalls ==
  {To("CreateEventStore", <<"CreateLogStoreV2", "CreateIndexString">>),
   To("UpdateEventStore", <<"UpdateLogStoreV2">>), To("DeleteEventStore", <<"DeleteLogStore">>),
   To("GetEventStore", <<"GetLogStore">>), To("ListEventStore", <<"ListLogStoreV2">>)}

\* Only methods of LogProject and LogStore: Client has none that makes them.
NotOfClient ==
  OpsOf(EtlJobOperations \cup ShipperOperations)
    \cup {"GetContextLogs", "CheckIndexExist", "PutRawLog", "PostRawLogs"}

AllOperations ==
  UNION {LogProjectOperations, AllLogStoreOperations, AllClientOperations, InCompressTypeCalls,
         getCheckPoint}

ClientCalls ==
  Same(UNION {OpsOf(AllClientOperations \cup InCompressTypeCalls), LogStoreDelegates,
              MachineGroupDelegates, ConfigDelegates, EtlMetaDelegates, PutDelegates, PullDelegates,
              QueryDelegates, IndexDelegates, {"ListShards"}})
    \cup MeteringCalls \cup MetricStoreURLCall \cup MetricStoreCalls \cup EventStoreCalls
=============================================================================
