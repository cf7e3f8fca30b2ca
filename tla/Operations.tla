----------------------------- MODULE Operations -----------------------------
(***************************************************************************)
(* The operations of the SDK's resource services, each with what decides   *)
(* how it behaves on the wire: the HTTP method, the client function that   *)
(* sends it and reads its answer, and the extension group, if any, that    *)
(* has to be available before it is sent.  What an operation is about      *)
(* (paths, parameters, payloads) is left out.                              *)
(*                                                                         *)
(* How an answer is read: "json" (doJSON, ListPage included), "multipart"  *)
(* (doMultipart), "raw" (openStream: GetStream, GetToWriter, StreamEvents);*)
(* "none" is an operation that only asks whether its group is available.   *)
(***************************************************************************)

Calls(method, answer, names) ==
    { [name |-> n, method |-> method, answer |-> answer] : n \in names }

Get(names)    == Calls("GET", "json", names)
Post(names)   == Calls("POST", "json", names)
Put(names)    == Calls("PUT", "json", names)
Patch(names)  == Calls("PATCH", "json", names)
Delete(names) == Calls("DELETE", "json", names)
Pages(names)  == Get(names)
Form(method, names) == Calls(method, "multipart", names)
Download(names)     == Calls("GET", "raw", names)
Events(names)       == Download(names)

-----------------------------------------------------------------------------
(* The clients of the cloud extension, without its gate.                    *)

ProvidersClient == Get({"List", "Get"})

CatalogClient ==
    Get({"ListSources", "GetSourceConfigDefinition", "ListSinks",
         "GetSinkConfigDefinition", "ListKafkaConnectors", "GetKafkaConfigDefinition"})

ConnectionsClient ==
    Get({"List", "Get", "Test"}) \cup Post({"Create", "Validate"})
      \cup Put({"Update"}) \cup Delete({"Delete"})

Lifecycle ==
    Post({"Start", "Stop", "Restart", "StartInstance", "StopInstance", "RestartInstance"})

SinksClient ==
    Get({"List", "Get", "Status", "InstanceStatus"}) \cup Delete({"Delete"})
      \cup Form("POST", {"Create"}) \cup Form("PUT", {"Update"}) \cup Lifecycle

SourcesClient ==
    Get({"List", "Get", "Status", "InstanceStatus"}) \cup Delete({"Delete"})
      \cup Form("POST", {"Create"}) \cup Form("PUT", {"Update"}) \cup Lifecycle

KafkaConnectClient ==
    Get({"GetInfo", "GetHealth", "ListConnectors", "GetConnector", "GetConnectorConfig",
         "GetConnectorStatus", "GetConnectorTasks", "GetConnectorTasksConfig",
         "GetTaskStatus", "DescribePluginConfig", "ListPlugins", "ListPluginCatalog",
         "GetActiveTopics", "GetOffsets"})
      \cup Post({"CreateConnector", "RestartConnector", "RestartConnectorWithOptions",
                 "RestartTask"})
      \cup Put({"UpdateConnectorConfig", "PauseConnector", "ResumeConnector",
                "StopConnector", "ResetActiveTopics"})
      \cup Patch({"AlterOffsets"})
      \cup Delete({"DeleteConnector", "ResetOffsets"})

FunctionsClient ==
    Get({"List", "Get", "Status", "InstanceStatus", "Stats", "InstanceStats", "GetState"})
      \cup Delete({"Delete"}) \cup Lifecycle
      \cup Form("POST", {"Create", "Trigger", "PutState"}) \cup Form("PUT", {"Update"})

HealthClient == Get({"Health", "Ready", "Live"})

PackagesClient ==
    Get({"List", "ListVersions", "GetMetadata"}) \cup Put({"UpdateMetadata"})
      \cup Form("POST", {"Upload"}) \cup Download({"Download"}) \cup Delete({"Delete"})

-----------------------------------------------------------------------------
(* The gated services.  Every operation of the cloud tree asks for the      *)
(* cloud group first (bind) and then runs the client's operation.           *)

Gated(group, ops) == { [gate |-> group, call |-> o] : o \in ops }

CloudEnsureAvailable == Gated("cloud", Calls("NONE", "none", {"EnsureAvailable"}))
CloudAPIResources == Gated("cloud", Get({"List"}))
CloudProviders    == Gated("cloud", ProvidersClient)
CloudCatalog      == Gated("cloud", CatalogClient)
CloudConnections  == Gated("cloud", ConnectionsClient)
CloudSinks        == Gated("cloud", SinksClient)
CloudSources      == Gated("cloud", SourcesClient)
CloudFunctions    == Gated("cloud", FunctionsClient)
CloudHealth       == Gated("cloud", HealthClient)
CloudPackages     == Gated("cloud", PackagesClient)

\* The gated tree offers only the catalogue of plugins.
CloudKafka == Gated("cloud", { o \in KafkaConnectClient : o.name # "ListPlugins" })

Guardrails ==
    Gated("policy", Pages({"List"}) \cup Get({"Get", "ListTypes"})
                      \cup Post({"Create", "Update", "Archive"}) \cup Delete({"Delete"}))

ModelPrices == Gated("pricing", Pages({"List"}) \cup Get({"Get"}))

\* The resource lists of two of the groups; Discovery.Groups itself is core.
GroupResources ==
    Gated("policy", Get({"PolicyGroupResources"}))
      \cup Gated("pricing", Get({"PricingGroupResources"}))

\* Attaching guardrails to an agent, or to a session's agent, needs their group.
WithGuardrails == Gated("policy", Post({"Create", "Update"}))

GatedOperations ==
    CloudEnsureAvailable \cup CloudAPIResources \cup CloudProviders \cup CloudCatalog \cup CloudConnections
      \cup CloudSinks \cup CloudSources \cup CloudKafka \cup CloudFunctions
      \cup CloudHealth \cup CloudPackages \cup Guardrails \cup ModelPrices
      \cup GroupResources \cup WithGuardrails

-----------------------------------------------------------------------------
(* The core services, which every deployment serves.                        *)

Agents       == Post({"Create", "Update", "Archive"}) \cup Get({"Get"}) \cup Pages({"List"})
AgentVersions == Pages({"List"})
Sessions     == Post({"Create", "Update", "Archive"}) \cup Get({"Get", "Outcome"})
                  \cup Pages({"List"}) \cup Delete({"Delete"})
SessionEvents    == Pages({"List"}) \cup Post({"Send"}) \cup Events({"Stream"})
SessionFiles     == Pages({"List"}) \cup Get({"Get"}) \cup Download({"Download"})
                      \cup Delete({"Delete"})
SessionResources == Pages({"List"}) \cup Get({"Get"}) \cup Post({"Add", "Update"})
                      \cup Delete({"Delete"})
SessionThreads   == Pages({"List"}) \cup Get({"Get"}) \cup Post({"Archive"})
SessionThreadEvents == Pages({"List"}) \cup Events({"Stream"})
Environments == Post({"Create", "Update", "Archive"}) \cup Get({"Get"}) \cup Pages({"List"})
                  \cup Delete({"Delete"})
Files        == Form("POST", {"Upload"}) \cup Get({"Get"}) \cup Pages({"List"})
                  \cup Download({"Download"}) \cup Delete({"Delete"})
MemoryStores == Post({"Create", "Update", "Archive"}) \cup Get({"Get"}) \cup Pages({"List"})
                  \cup Delete({"Delete"})
Memories     == Post({"Create", "Update"}) \cup Get({"Get"}) \cup Pages({"List"})
                  \cup Delete({"Delete"})
MemoryVersions == Pages({"List"}) \cup Get({"Get"}) \cup Post({"Redact"})
Skills       == Form("POST", {"Create"}) \cup Get({"Get"}) \cup Pages({"List"})
                  \cup Delete({"Delete"})
SkillVersions == Form("POST", {"Create"}) \cup Get({"Get"}) \cup Pages({"List"})
                   \cup Download({"Download"}) \cup Delete({"Delete"})
Triggers     == Post({"Create", "Update", "Pause", "Unpause"}) \cup Get({"Get"})
                  \cup Pages({"List"}) \cup Delete({"Delete"})
TriggerSessions == Pages({"List"})
Vaults       == Post({"Create", "Update", "Archive"}) \cup Get({"Get"}) \cup Pages({"List"})
                  \cup Delete({"Delete"})
VaultCredentials == Post({"Create", "Update", "Archive", "Validate"}) \cup Get({"Get"})
                      \cup Pages({"List"}) \cup Delete({"Delete"})
Core         == Get({"GetAPIVersions", "GetHealthz", "GetReadyz", "GetAPIGroups"})

CoreOperations ==
    { [gate |-> "core", call |-> o] :
        o \in Agents \cup AgentVersions \cup Sessions \cup SessionEvents \cup SessionFiles
               \cup SessionResources \cup SessionThreads \cup SessionThreadEvents
               \cup Environments \cup Files \cup MemoryStores \cup Memories
               \cup MemoryVersions \cup Skills \cup SkillVersions \cup Triggers
               \cup TriggerSessions \cup Vaults \cup VaultCredentials \cup Core }

\* The operations that differ in their behaviour.
OperationKinds ==
    { [gate    |-> o.gate,
       mutates |-> o.call.method \in {"POST", "PUT", "PATCH", "DELETE"},
       answer  |-> o.call.answer] : o \in GatedOperations \cup CoreOperations }
=============================================================================
