-------------------------- MODULE ProjectOperations --------------------------
(***************************************************************************)
(* The operations of LogProject: log_project.go and etl_job_project.go.    *)
(* They all make their request with request(project, ..), which retries.   *)
(* Their reads ignore an answer that is not the JSON they expect and       *)
(* return the zero value of its type.                                      *)
(***************************************************************************)
EXTENDS Operations

LogStoreReads == Read({"ListLogStore", "ListLogStoreV2", "GetLogStore"}, "wrapped", "ignored")

LogStoreWrites ==
  Write({"CreateLogStore", "CreateLogStoreV2", "UpdateLogStore", "UpdateLogStoreV2"}, {"wrapped"}, "wrapped")
    \cup Write({"DeleteLogStore"}, {}, "wrapped")

MachineGroupOperations ==
  Read({"ListMachineGroup", "GetMachineGroup"}, "wrapped", "ignored")
    \cup Existence({"CheckLogstoreExist", "CheckMachineGroupExist"}, "ignored")
    \cup Write({"CreateMachineGroup", "UpdateMachineGroup"}, {"wrapped"}, "wrapped")

ConfigReads ==
  Write({"DeleteMachineGroup"}, {}, "wrapped") \cup Existence({"CheckConfigExist"}, "ignored")
    \cup Read({"ListConfig", "GetConfig"}, "wrapped", "ignored")
    \cup Write({"UpdateConfig"}, {"wrapped"}, "wrapped")

ConfigWrites ==
  Write({"CreateConfig"}, {"wrapped"}, "wrapped")
    \cup Read({"GetConfigString"}, "wrapped", "read")
    \cup Write({"UpdateConfigString", "CreateConfigString", "DeleteConfig"}, {}, "wrapped")
    \cup Read({"GetAppliedMachineGroups"}, "wrapped", "ignored")

AppliedConfigs ==
  Read({"GetAppliedConfigs"}, "wrapped", "ignored")
    \cup Write({"ApplyConfigToMachineGroup", "RemoveConfigFromMachineGroup", "DeleteEtlMeta"}, {}, "wrapped")
    \cup Write({"CreateEtlMeta", "UpdateEtlMeta"}, {"wrapped"}, "wrapped")

\* listEtlMeta ignores a list it cannot read, but not an element of it, which may be nil.
EtlMetaReads ==
  Rows({"ListEtlMeta", "ListEtlMetaWithTag", "GetEtlMeta"}, "project", TRUE, {}, "wrapped", "inner", "assumes")
    \cup Read({"ListEtlMetaName"}, "wrapped", "ignored")

LoggingOperations ==
  Write({"CreateLogging", "UpdateLogging"}, {"wrapped"}, "wrapped")
    \cup Write({"DeleteLogging"}, {}, "wrapped")
    \cup Read({"GetLogging"}, "wrapped", "ignored")

EtlJobOperations ==
  Write({"CreateETLJob", "UpdateETLJob"}, {"wrapped"}, "raw") \cup Write({"DeleteETLJob"}, {}, "raw")
    \cup Read({"GetETLJob", "ListETLJobs"}, "raw", "raw")

LogProjectOperations ==
  UNION {LogStoreReads, LogStoreWrites, MachineGroupOperations, ConfigReads, ConfigWrites,
         AppliedConfigs, EtlMetaReads, LoggingOperations, EtlJobOperations}
=============================================================================
