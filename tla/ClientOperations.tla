-------------------------- MODULE ClientOperations --------------------------
(***************************************************************************)
(* The operations of Client that make a request of their own: all but the  *)
(* ones on projects with c.request(..), one attempt.                       *)
(***************************************************************************)
EXTENDS Operations

\* client.go.  These go through request(proj, ..).
ProjectCreation == Write({"CreateProject", "CreateProjectV2"}, {"raw"}, "raw")
ProjectUpdate == NotClosed(Write({"UpdateProject"}, {"raw"}, "raw"))
ProjectReads ==
  Read({"GetProject", "ListProject", "ListProjectV2"}, "wrapped", "raw")
    \cup Existence({"CheckProjectExist"}, "ignored") \cup Write({"DeleteProject"}, {}, "raw")

MachineReads == ClientRead({"ListMachines", "ListMachinesV2"}, "raw")

\* Splitting and merging shards returns the new shards.
ShardChanges ==
  Rows({"SplitShard", "SplitNumShard", "MergeShards"}, "client", FALSE, {}, "raw", "raw", "returns")
CursorTimes ==
  ClientRead({"GetCursorTime"}, "raw")
    \cup Rows({"GetPrevCursorTime"}, "client", TRUE, {"wrapped"}, "raw", "raw", "returns")
SubStoreReads == ClientRead({"ListSubStore", "GetSubStore"}, "raw")
GetSubStoreTTL == ClientRead({"GetSubStoreTTL"}, "raw")
SubStoreWrites ==
  Rows({"CreateSubStore", "UpdateSubStore"}, "client", FALSE, {"wrapped"}, "wrapped", "read", "returns")
    \cup Rows({"DeleteSubStore", "UpdateSubStoreTTL"}, "client", FALSE, {}, "wrapped", "read", "returns")

\* Consumer groups: four of the seven drop the response without closing its body.
ConsumerGroupWrites ==
  NotClosed(Rows({"CreateConsumerGroup", "UpdateConsumerGroup"},
                 "client", FALSE, {"raw"}, "wrapped", "ignored", "returns")
              \cup Rows({"DeleteConsumerGroup"}, "client", FALSE, {}, "wrapped", "ignored", "returns"))
\* Mutant: the body is closed before the error is looked at, which a nil response does not stand.
ConsumerGroupReadsClosesFirst ==
  Rows({"ListConsumerGroup"}, "client", TRUE, {}, "wrapped", "raw", "panics")

\* The elements of the list are pointers that may be nil.  ListConsumerGroup uses them ...
ConsumerGroupReads ==
  Rows({"ListConsumerGroup"}, "client", TRUE, {}, "wrapped", "raw", "assumes")

\* ... and of GetCheckpoint its caller, getCheckPoint of the ConsumerClient (consumer_client.go).
GetCheckpoint == Rows({"GetCheckpoint"}, "client", TRUE, {}, "wrapped", "raw", "returns")
getCheckPoint == {[r EXCEPT !.op = "getCheckPoint", !.after = "assumes"] : r \in GetCheckpoint}
HeartBeatOperation ==
  Rows({"HeartBeat"}, "client", FALSE, {"wrapped"}, "wrapped", "ignored", "returns")
UpdateCheckpoint ==
  NotClosed(Rows({"UpdateCheckpoint"}, "client", FALSE, {"wrapped"}, "wrapped", "ignored", "returns"))
-----------------------------------------------------------------------------
\* The newer operations are all written alike.
TagOperations ==
  ClientWrite({"TagResources", "UnTagResources", "TagResourcesSystemTags", "UnTagResourcesSystemTags"},
              {"wrapped"})
    \cup Rows({"ListTagResources", "ListSystemTagResources"},
              "client", TRUE, {"wrapped"}, "raw", "wrapped", "returns")

SavedSearchOperations ==
  ClientWrite({"CreateSavedSearch", "UpdateSavedSearch"}, {"wrapped"})
    \cup ClientWrite({"DeleteSavedSearch"}, {})
    \cup ClientRead({"GetSavedSearch", "ListSavedSearch", "ListSavedSearchV2"}, "wrapped")

AlertWrites ==
  ClientWrite({"CreateAlert", "UpdateAlert"}, {"wrapped"})
    \cup ClientWrite({"CreateAlertString", "UpdateAlertString", "DeleteAlert", "DisableAlert",
                      "EnableAlert"}, {})
AlertReads ==
  ClientRead({"GetAlert", "ListAlert"}, "wrapped") \cup ClientRead({"GetAlertString"}, "ignored")
    \cup ClientWrite({"PublishAlertEvent"}, {})

IngestionOperations ==
  ClientWrite({"CreateIngestion", "UpdateIngestion"}, {"wrapped"})
    \cup ClientWrite({"DeleteIngestion"}, {}) \cup ClientRead({"GetIngestion", "ListIngestion"}, "wrapped")

ExportWrites ==
  ClientWrite({"CreateExport", "UpdateExport", "RestartExport"}, {"wrapped"})
    \cup ClientWrite({"DeleteExport"}, {})

\* ExportConfiguration.UnmarshalJSON asserts the types it expects.
ExportReads ==
  Rows({"GetExport", "ListExport"}, "client", TRUE, {}, "raw", "wrapped", "assumes")

ScheduledSQLWrites ==
  ClientWrite({"CreateScheduledSQL"}, {"raw", "wrapped"}) \cup ClientWrite({"DeleteScheduledSQL"}, {})
    \cup ClientWrite({"UpdateScheduledSQL"}, {"wrapped"})
ModifyInstanceState == ClientWrite({"ModifyScheduledSQLJobInstanceState"}, {"wrapped"})
ScheduledSQLReads ==
  ClientRead({"GetScheduledSQL", "ListScheduledSQL", "GetScheduledSQLJobInstance",
              "ListScheduledSQLJobInstances"}, "wrapped")

ChartOperations ==
  ClientWrite({"CreateChart", "UpdateChart"}, {"wrapped"}) \cup ClientWrite({"DeleteChart"}, {})
    \cup ClientRead({"GetChart"}, "wrapped")
DashboardWrites ==
  ClientWrite({"CreateDashboard", "UpdateDashboard"}, {"wrapped"})
    \cup ClientWrite({"CreateDashboardString", "UpdateDashboardString", "DeleteDashboard"}, {})
DashboardReads ==
  ClientRead({"GetDashboard", "ListDashboard", "ListDashboardV2"}, "wrapped")
    \cup ClientRead({"GetDashboardString"}, "read")

EtlOperations ==
  ClientWrite({"CreateETL", "UpdateETL", "RestartETL"}, {"wrapped"})
    \cup ClientWrite({"DeleteETL", "StartETL", "StopETL"}, {})
    \cup ClientRead({"GetETL"}, "ignored") \cup ClientRead({"ListETL"}, "wrapped")

ResourceOperations ==
  ClientWrite({"CreateResource", "UpdateResource"}, {"wrapped"})
    \cup ClientWrite({"CreateResourceString", "UpdateResourceString", "DeleteResource"}, {})
    \cup ClientRead({"GetResource", "ListResource"}, "wrapped") \cup ClientRead({"GetResourceString"}, "read")

ResourceRecordOperations ==
  ClientWrite({"CreateResourceRecord", "UpdateResourceRecord"}, {"wrapped"})
    \cup ClientWrite({"CreateResourceRecordString", "UpdateResourceRecordString",
                      "DeleteResourceRecord"}, {})
    \cup ClientRead({"GetResourceRecord", "ListResourceRecord"}, "wrapped")
    \cup ClientRead({"GetResourceRecordString"}, "read")

ProjectPolicyOperations ==
  ClientRead({"GetProjectPolicy"}, "ignored")
    \cup ClientWrite({"UpdateProjectPolicy", "DeleteProjectPolicy"}, {})

\* Rules are kept in an ETL job; GetETL ignores a bad answer, the cast then fails or panics.
MetricAggWrites ==
  ClientWrite({"CreateMetricAggRules", "UpdateMetricAggRules"}, {"raw", "wrapped"})
DeleteMetricAggRules == ClientWrite({"DeleteMetricAggRules"}, {})
MetricAggReads ==
  Rows({"ListMetricAggRules"}, "client", TRUE, {}, "raw", "wrapped", "assumes")
    \cup Rows({"GetMetricAggRules"}, "client", TRUE, {}, "raw", "raw", "assumes")

AllClientOperations ==
  UNION {ProjectCreation, ProjectUpdate, ProjectReads, MachineReads, ShardChanges, CursorTimes,
         SubStoreReads, SubStoreWrites, ConsumerGroupWrites, ConsumerGroupReads, HeartBeatOperation,
         UpdateCheckpoint, TagOperations, SavedSearchOperations, AlertWrites, AlertReads,
         IngestionOperations, ExportWrites, ExportReads, ScheduledSQLWrites, ScheduledSQLReads,
         ChartOperations, DashboardWrites, DashboardReads, EtlOperations, ResourceOperations,
         ResourceRecordOperations, ProjectPolicyOperations, MetricAggWrites,
         MetricAggReads, GetSubStoreTTL, GetCheckpoint, ModifyInstanceState, DeleteMetricAggRules}
=============================================================================
