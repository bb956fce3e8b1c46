---------------------------- MODULE DeployCommands ---------------------------
(* internal/cmd/deploy and internal/cmd/componentversion: what is deployed  *)
(* where, and back.                                                         *)
EXTENDS CommandHelpers

project == ResolveProjectSlug \o Call(GetProjectBySlug)

ComponentList    == LoadClient \o project \o Call(ListComponents)
ComponentGet     == LoadClient \o Call(GetComponent)
EnvironmentList  == LoadClient \o ResolveOrgSlugOrID \o Call(ListEnvironments)
EnvironmentGet   == LoadClient \o Call(GetEnvironment)
DeployList       == LoadClient \o project \o Call(ListDeployments)
DeployOpen       == ResolveProjectSlug \o LoadClient \o Call(GetProjectInfo) \o AppURL \o OpenURLOrPrint
DeploySettings   == LoadClient \o project \o Call(GetDeploySettings)
ListVersions     == LoadClient \o Call(ListComponentVersions)

\* internal/deployinit patches the config file: a marker for each job that deploys.
\* A prompt that is left is answered by its default.
DeployInit == Need("general") \o Need("notFound")
              \o Unless("component", When("tty", Soft({"no"}, Prompt)))
              \o Unless("environment", When("tty", Soft({"no"}, Prompt)))
              \o Whether("marked") \o Unless("marked", WriteFile)

\* A component by its id, or the one that bears the name: several are not one. An
\* environment, of which nothing is changed, is there or not.
resolveComponent   == When("component id", Call(GetComponent))
                      \o Unless("component id", Find(ListComponents) \o Require)
resolveEnvironment == When("environment id", Call(GetEnvironment))
                      \o Unless("environment id", Call(ListEnvironments) \o Need("notFound"))
deployedVersion    == Unless("from", Call(ListComponentVersions) \o Need("notFound"))
parseRollbackParams == Require
runRollback ==
    project \o resolveComponent \o resolveEnvironment \o deployedVersion \o parseRollbackParams \o Consent \o Call(RollbackProject)
DeployRollback == RequireArgs \o Require \o Require \o LoadClient \o runRollback
=============================================================================
