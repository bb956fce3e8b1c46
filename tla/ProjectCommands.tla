--------------------------- MODULE ProjectCommands --------------------------
(* internal/cmd/project: projects, their variables, settings and triggers,  *)
(* and the cache of their Docker layers, internal/cmd/dlc.                  *)
EXTENDS CommandHelpers

\* The name that the git remote suggests is the one of a prompt that is left.
projectName == Unless("tty", Unless("repository", Require))
               \o When("tty", Unless("repository", Prompt) \o When("repository", Soft({"no"}, Prompt)))
ProjectCreate == Unless("named", projectName) \o LoadClient
                 \o Unless("org", Unless("tty", RequireOrg \o Stop("badArguments")) \o When("tty", SelectOrg))
                 \o When("org", ValidateSlug)
                 \o ParseSlug \o AppURL \o Call(CreateProject)
ProjectFollow == LoadClient \o ResolveProjectSlug \o ParseSlug \o Call(FollowProject)
ProjectGet    == LoadClient \o ResolveProjectSlug \o Call(GetProjectInfo)
ProjectList   == LoadClient \o Call(ListProjects)
ProjectOpen   == ResolveProjectSlug \o AppURL \o OpenURLOrPrint

\* A project that the slug does not lead to is asked for until one is found.
promptAndLookup == Missing("cancelled", Prompt) \o Again(Soft({"notFound"}, Call(GetProjectInfo)))
ProjectLink == Need("general") \o Unless("force", Need("general"))
               \o Whether("no slug") \o LoadClient
               \o Unless("no slug", Learn("unresolved", Soft({"notFound"}, Call(GetProjectInfo))))
               \o When("unresolved", promptAndLookup) \o When("no slug", promptAndLookup)
               \o WriteFile

EnvList   == LoadClient \o ResolveProjectSlug \o Call(ListEnvVars)
EnvSet    == LoadClient \o ResolveProjectSlug \o Call(SetEnvVar)
EnvDelete == LoadClient \o Consent \o ResolveProjectSlug \o Call(DeleteEnvVar)

resolveProjectIDFromSlug == ResolveProjectSlug \o Call(GetProjectBySlug) \o Need("api")
runProjectSettingGet == Call(GetProjectSettings)
SettingsGet  == Require \o LoadClient \o resolveProjectIDFromSlug \o runProjectSettingGet
runProjectSettingSet == Call(UpdateProjectSettings)
SettingsSet  == Require \o Require \o LoadClient \o resolveProjectIDFromSlug
                \o runProjectSettingSet
SettingsList == LoadClient \o resolveProjectIDFromSlug \o Call(GetProjectSettings)

\* A pipeline definition: by its id, or chosen from the project's.
selectPipelineDefinition == Call(ListPipelineDefinitions) \o Need("notFound") \o Prompt
definition    == Unless("definition", Unless("tty", Require) \o When("tty", selectPipelineDefinition))
resolveProjectID == Unless("project id", Require \o Call(GetProjectBySlug))
validateEnum  == Require                       \* a provider or an event preset there is not
TriggerList   == LoadClient \o resolveProjectID \o definition \o Call(ListTriggers)
runTriggerCreate == validateEnum \o resolveProjectID \o definition
                    \o Ask("repository id") \o validateEnum \o Call(CreateTrigger)
TriggerCreate == LoadClient \o runTriggerCreate

DLCPurge == ResolveProjectSlug \o ParseSlug \o LoadClient \o Call(GetProjectBySlug)
            \o Coded("badArguments", Consent) \o Call(PurgeDLC)
=============================================================================
