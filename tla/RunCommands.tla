----------------------------- MODULE RunCommands -----------------------------
(* internal/cmd/run, but for "run watch" and the terminal of "run get",     *)
(* and internal/cmd/my: the runs of a project.                              *)
EXTENDS CommandHelpers

latestRun == ResolveProjectSlug \o Call(GetProjectBySlug) \o Call(SearchRunsV3) \o Need("api")

\* A run is cancelled workflow by workflow; those that have ended are passed over.
CancelWorkflows == Call(GetRunWorkflowsV3) \o Whether("nothing to cancel")
                   \o When("nothing to cancel", Stop("badArguments")) \o Many(Call(CancelWorkflow))
RunCancel  == RequireArgs \o LoadClient
              \o When("number", ResolveProjectSlug \o Call(GetPipelineByNumber))
              \o Unless("number", Need("api"))
              \o Consent \o CancelWorkflows
RunOpen    == LoadClient \o When("run id", Need("api")) \o Unless("run id", latestRun)
              \o AppURL \o OpenURLOrPrint
RunTrigger == LoadClient \o Unless("project and branch", Require) \o Require \o Call(TriggerPipeline)
RunList    == LoadClient \o When("current branch", Require) \o ResolveProjectSlug
              \o Call(GetProjectBySlug) \o Call(SearchRunsV3)
MyRuns     == LoadClient \o Call(ListMyRunsV3)

\* The failed steps of a run, workflow by workflow and job by job; what is not there is passed over.
runFailureReport ==
    Learn("no workflows", Soft({"notFound"}, Call(GetRunWorkflowsV3)))
    \o Unless("no workflows",
          ForEach("none", Call(GetWorkflowJobsV3) \o Soft({"notFound"}, Call(GetJobV3))
                          \o Soft({"notFound"}, Call(GetJobStdoutCondensed))))
fetchRunOutput ==
    Learn("no workflows", Soft({"notFound"}, Call(GetRunWorkflowsV3)))
    \o Unless("no workflows", ForEach("none", Call(GetWorkflowJobsV3)))
displayRun == fetchRunOutput \o Unless("json", AppURL)
runGet ==
    When("run id", Need("general") \o Call(GetRunV3)) \o Unless("run id", latestRun)
    \o When("failure report", runFailureReport) \o Unless("failure report", displayRun)
RunGet == When("failure report", When("json", Stop("badArguments"))) \o LoadClient \o runGet
=============================================================================
