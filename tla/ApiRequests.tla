----------------------------- MODULE ApiRequests -----------------------------
(* The requests of internal/apiclient, one for each method of its client:   *)
(* what it does to the server, to which kind of thing, and how it names the *)
(* thing. A POST that only computes an answer is a read; one that sets a    *)
(* setting or a value, whatever its method, is a put.                       *)
EXTENDS CommandSteps

\* internal/apiclient/artifact.go
GetJobArtifactsV3             == Request("list", "artifact", "none")
DownloadArtifact              == Request("read", "artifact", "none")

\* internal/apiclient/config.go
Compile                       == Request("read", "compilation", "none")

\* internal/apiclient/connection.go
SetupProviderConnection       == Request("create", "connection", "none")
ListProviderConnections       == Request("listOnce", "connection", "none")

\* internal/apiclient/context.go
ListContexts                  == Request("list", "context", "none")
CreateContext                 == Request("create", "context", "none")
GetContext                    == Request("read", "context", "id")
DeleteContext                 == Request("delete", "context", "id")
ListContextEnvVars            == Request("list", "secret", "none")
SetContextEnvVar              == Request("put", "secret", "name")
DeleteContextEnvVar           == Request("delete", "secret", "name")
CreateContextRestriction      == Request("create", "restriction", "none")
DeleteContextRestriction      == Request("delete", "restriction", "id")

\* internal/apiclient/deploy.go
ListDeployments               == Request("list", "deployment", "none")

\* internal/apiclient/deploy_component.go
ListComponents                == Request("list", "component", "none")
GetComponent                  == Request("read", "component", "id")
ListComponentVersions         == Request("list", "version", "none")

\* internal/apiclient/deploy_environment.go
ListEnvironments              == Request("list", "environment", "none")
GetEnvironment                == Request("read", "environment", "id")

\* internal/apiclient/deploy_rollback.go
RollbackProject               == Request("rollback", "component", "id")

\* internal/apiclient/deploy_settings.go
GetDeploySettings             == Request("read", "settings", "none")

\* internal/apiclient/dlc.go
PurgeDLC                      == Request("delete", "cache", "none")

\* internal/apiclient/iossigning.go
UploadIOSCertificate          == Request("create", "certificate", "none")
ListIOSCertificates           == Request("listOnce", "certificate", "none")
DeleteIOSCertificate          == Request("delete", "certificate", "id")
CreateIOSSigningConfig        == Request("create", "signingConfig", "none")
ListIOSSigningConfigs         == Request("listOnce", "signingConfig", "none")
DeleteIOSSigningConfig        == Request("delete", "signingConfig", "id")
UpdateIOSSigningConfigProfile == Request("update", "signingConfig", "id")
RemoveIOSSigningConfigProfile == Request("update", "signingConfig", "id")

\* internal/apiclient/job.go
GetJobV3                      == Request("read", "job", "id")
GetJobStdoutRange             == Request("read", "output", "none")
GetJobStdout                  == Request("read", "output", "none")
GetJobStdoutCondensed         == Request("read", "output", "none")
GetJobStderr                  == Request("read", "output", "none")

\* internal/apiclient/job_resource_usage.go
GetJobResourceUsage           == Request("read", "usage", "none")

\* internal/apiclient/me.go
GetMe                         == Request("read", "user", "none")
ListCollaborations            == Request("listOnce", "org", "none")

\* internal/apiclient/namespace.go
GetNamespace                  == Request("read", "namespace", "name")
CreateNamespace               == Request("create", "namespace", "none")

\* internal/apiclient/orb.go
ListOrbPackages               == Request("list", "orb", "none")
GetOrbPackageByID             == Request("read", "orb", "id")
GetOrbPackageByName           == Request("read", "orb", "name")
CreateOrbPackage              == Request("create", "orb", "none")
ValidateOrbYAML               == Request("read", "validation", "none")
SetOrbListed                  == Request("update", "orb", "id")
AddOrbToCategory              == Request("update", "orb", "id")
RemoveOrbFromCategory         == Request("update", "orb", "id")
ListOrbVersions               == Request("list", "orbVersion", "none")
GetOrbVersionByRef            == Request("read", "orbVersion", "name")
GetOrbVersionByID             == Request("read", "orbVersion", "id")
GetOrbSource                  == Request("read", "orbSource", "none")
PublishOrbVersion             == Request("create", "orbVersion", "none")
PromoteOrbVersion             == Request("start", "orbVersion", "id")
ListOrbCategories             == Request("list", "category", "none")
GetOrbCategoryByName          == Request("read", "category", "name")

\* internal/apiclient/org.go
ResolveOrgID                  == Request("read", "org", "name")
CreateOrg                     == Request("create", "org", "none")
GetOrgSettings                == Request("read", "orgSettings", "none")
UpdateOrgSettings             == Request("put", "orgSettings", "none")

\* internal/apiclient/pipeline.go
GetPipeline                   == Request("read", "pipeline", "id")
GetPipelineByNumber           == Request("read", "pipeline", "name")
TriggerPipeline               == Request("create", "pipeline", "none")

\* internal/apiclient/pipeline_definition.go
ListPipelineDefinitions       == Request("listOnce", "definition", "none")
TriggerPipelineRun            == Request("create", "run", "none")
CreatePipelineDefinition      == Request("create", "definition", "none")

\* internal/apiclient/policy.go
CreatePolicyBundle            == Request("put", "policy", "none")
DiffPolicyBundle              == Request("read", "policy", "none")
FetchPolicyBundle             == Request("read", "policy", "none")
FetchPolicyBundleWithName     == Request("read", "policy", "none")
GetDecisionLogs               == Request("list", "decision", "none")
GetDecisionLog                == Request("read", "decision", "none")
MakeDecision                  == Request("read", "decision", "none")
GetPolicySettings             == Request("read", "policySettings", "none")
SetPolicySettings             == Request("put", "policySettings", "none")

\* internal/apiclient/project.go
ListProjects                  == Request("listOnce", "project", "none")
FollowProject                 == Request("put", "follow", "none")
ListEnvVars                   == Request("listOnce", "envVar", "none")
SetEnvVar                     == Request("put", "envVar", "name")
DeleteEnvVar                  == Request("delete", "envVar", "name")
GetProjectBySlug              == Request("read", "project", "name")
GetProjectByName              == Request("read", "project", "name")
GetProjectByID                == Request("read", "project", "id")
GetProjectInfo                == Request("read", "project", "name")
CreateProject                 == Request("create", "project", "none")
GetProjectSettings            == Request("read", "projectSettings", "none")
UpdateProjectSettings         == Request("put", "projectSettings", "none")

\* internal/apiclient/release.go
LatestRelease                 == Request("read", "release", "none")

\* internal/apiclient/repository.go
ListProviderRepositories      == Request("listOnce", "repository", "none")

\* internal/apiclient/run.go
GetRunV3                      == Request("read", "run", "id")
SearchRunsV3                  == Request("list", "run", "none")
ListMyRunsV3                  == Request("list", "run", "none")

\* internal/apiclient/runner.go
ListResourceClassesByOrg      == Request("listOnce", "resourceClass", "none")
ListResourceClassesByNamespace== Request("listOnce", "resourceClass", "none")
CreateResourceClass           == Request("create", "resourceClass", "none")
DeleteResourceClass           == Request("delete", "resourceClass", "id")
ListRunnerTokens              == Request("listOnce", "runnerToken", "none")
CreateRunnerToken             == Request("create", "runnerToken", "none")
DeleteRunnerToken             == Request("delete", "runnerToken", "id")
ListRunnerInstancesByOrg      == Request("listOnce", "instance", "none")
ListRunnerInstances           == Request("listOnce", "instance", "none")

\* internal/apiclient/tests.go
StreamJobTests                == Request("read", "testResult", "none")

\* internal/apiclient/trigger.go
ListTriggers                  == Request("listOnce", "trigger", "none")
CreateTrigger                 == Request("create", "trigger", "none")

\* internal/apiclient/workflow.go
GetWorkflowV3                 == Request("read", "workflow", "id")
GetRunWorkflowsV3             == Request("listOnce", "workflow", "none")
RerunWorkflow                 == Request("start", "workflow", "id")
CancelWorkflow                == Request("cancel", "workflow", "id")
GetWorkflowJobsV3             == Request("listOnce", "job", "none")

\* Two methods of namespace.go and one of runner.go are made of two requests or of a
\* search: the name is looked up, and what is found is renamed, deleted or returned.
RenameNamespace     == Call(GetNamespace) \o Call(Request("update", "namespace", "id"))
DeleteNamespace     == Call(GetNamespace) \o Call(Request("delete", "namespace", "id"))
ResourceClassByName == Need("notFound") \o Coded("api", Find(ListResourceClassesByNamespace))
=============================================================================
