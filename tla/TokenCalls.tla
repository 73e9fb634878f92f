----------------------------- MODULE TokenCalls -----------------------------
(***************************************************************************)
(* What a caller of TokenAutoUpdateClient can call (token_auto_update_     *)
(* client.go).  Its methods call the one of the same name of logClient, a  *)
(* Client, at most maxTryTimes times: again as long as processError says   *)
(* so.  The sets name the methods by the operations they are wrappers of.  *)
(***************************************************************************)
EXTENDS ClientCalls

ProjectWrappers == OpsOf(ProjectCreation \cup ProjectUpdate \cup ProjectReads)

LogStoreWrappers ==
  (LogStoreDelegates \ {"ListLogStoreV2"}) \cup {c.name : c \in MeteringCalls}
    \cup {"ListMachineGroup", "ListMachines"}

MachineGroupWrappers ==
  (MachineGroupDelegates \ {"ListMachineGroup"}) \cup {"ListMachinesV2", "DeleteMachineGroup"}

ConfigWrappers ==
  ConfigDelegates \ {"DeleteMachineGroup", "GetConfigString", "UpdateConfigString", "CreateConfigString"}

EtlWrappers == OpsOf(EtlOperations)
EtlMetaWrappers == EtlMetaDelegates \ OpsOf(LoggingOperations)
ShardWrappers == OpsOf(ShardChanges) \cup {"ListShards"}

PutWrappers ==
  PutDelegates \cup (OpsOf(InCompressTypeCalls) \ {"PostLogStoreLogsV2"})
    \cup {c.name : c \in MetricStoreURLCall}

\* GetLogsBytes and PullLogs call the wrappers GetLogsBytesV2 and PullLogsV2.
PullWrappers == PullDelegates \cup {"GetCursorTime"}
QueryWrappers == QueryDelegates
IndexWrappers == {"CreateIndex", "UpdateIndex", "DeleteIndex", "GetIndex"}

DashboardWrappers ==
  OpsOf(ChartOperations \cup DashboardWrites \cup DashboardReads)
    \ {"CreateDashboardString", "UpdateDashboardString", "GetDashboardString"}
SavedSearchWrappers == OpsOf(SavedSearchOperations)
AlertWrappers == OpsOf(AlertWrites \cup AlertReads) \ {"PublishAlertEvent"}

StringWrappers ==
  {"CreateDashboardString", "UpdateDashboardString", "GetDashboardString",
   "GetConfigString", "CreateConfigString", "UpdateConfigString",
   "CreateIndexString", "UpdateIndexString", "GetIndexString"}

ConsumerWrappers ==
  OpsOf(ConsumerGroupWrites \cup ConsumerGroupReads \cup GetCheckpoint \cup HeartBeatOperation
          \cup UpdateCheckpoint)
TagWrappers == OpsOf(TagOperations)
ScheduledSQLWrappers == OpsOf(ScheduledSQLWrites \cup ScheduledSQLReads \cup ModifyInstanceState)
ResourceWrappers == OpsOf(ResourceOperations)

\* UpdateResourceRecordString calls UpdateResourceString: it updates the resource itself.
ResourceRecordWrappers == OpsOf(ResourceRecordOperations) \ {"UpdateResourceRecordString"}
UpdateResourceRecordString == {To("UpdateResourceRecordString", <<"UpdateResourceString">>)}

JobWrappers == OpsOf(IngestionOperations \cup ExportWrites \cup ExportReads)
MetricStoreWrappers == MetricStoreCalls
ProjectPolicyWrappers == OpsOf(ProjectPolicyOperations)
EventStoreWrappers == EventStoreCalls
PostLogStoreLogsV2 == {"PostLogStoreLogsV2"}

\* PublishAlertEvent has a loop of its own, without processError.
OwnLoop == {"PublishAlertEvent"}
-----------------------------------------------------------------------------
Wrapped ==
  UNION {ProjectWrappers, LogStoreWrappers, MachineGroupWrappers, ConfigWrappers, EtlWrappers,
         EtlMetaWrappers, ShardWrappers, PutWrappers, PullWrappers, QueryWrappers, IndexWrappers,
         DashboardWrappers, SavedSearchWrappers, AlertWrappers, StringWrappers, ConsumerWrappers,
         TagWrappers, ScheduledSQLWrappers, ResourceWrappers, ResourceRecordWrappers, JobWrappers,
         ProjectPolicyWrappers, PostLogStoreLogsV2}

TokenCalls ==
  {c \in ClientCalls : c.name \in Wrapped}
    \cup UpdateResourceRecordString \cup MetricStoreWrappers \cup EventStoreWrappers

\* So has getCheckPoint of the consumer library, here around GetCheckpoint of a plain Client.
LoopingCalls == {c \in ClientCalls : c.name \in OwnLoop} \cup Same(OpsOf(getCheckPoint))
=============================================================================
