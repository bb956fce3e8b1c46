--------------------------- MODULE PipelineCommands --------------------------
(* internal/cmd/pipeline: the pipeline definitions of a project, and runs   *)
(* of them.                                                                 *)
EXTENDS CommandHelpers

resolveRequired(flag) == Ask(flag)
\* On a terminal the repositories to choose from are those of the definitions
\* there are, if they can be had.
collectRepoOptions   == When("tty", Softly(Call(ListPipelineDefinitions)))
pickFromRepoOptions(flag) == Ask(flag)        \* one of them, or another
resolveCheckoutRepoID == Ask("checkout repository")
runCreate ==
    ResolveProjectID
    \o resolveRequired("name") \o resolveRequired("config provider") \o Require
    \o collectRepoOptions
    \o Unless("file in circleci", pickFromRepoOptions("config repository"))
    \o resolveRequired("config file") \o resolveRequired("checkout provider") \o Require
    \o resolveCheckoutRepoID \o Call(CreatePipelineDefinition)
PipelineCreate == LoadClient \o runCreate
PipelineList == LoadClient \o ResolveProjectID \o Call(ListPipelineDefinitions)

\* Any of the project's definitions, or none: leaving the prompt is none, too.
resolveDefinitionID ==
    Unless("definition", When("tty", Unless("no project",
        Learn("no definitions", Softly(Call(ListPipelineDefinitions)))
        \o Unless("no definitions", Soft({"no"}, Prompt)))))
resolveBranch == Unless("branch", Unless("tag", When("tty", Prompt)))
parseParams   == Require
PipelineRun ==
    LoadClient \o Require \o ResolveProjectSlug
    \o When("tty", Learn("no project", Softly(Call(GetProjectInfo))))
    \o resolveDefinitionID \o resolveBranch \o parseParams \o Call(TriggerPipelineRun)
=============================================================================
