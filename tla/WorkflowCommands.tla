-------------------------- MODULE WorkflowCommands --------------------------
(* internal/cmd/workflow: the workflows of a run.                           *)
EXTENDS CommandHelpers

workflowID == Need("general")                  \* an argument that is no UUID

WorkflowCancel == RequireArgs \o LoadClient \o workflowID \o Consent \o Call(CancelWorkflow)
fetchWorkflowOutput == Call(GetWorkflowV3) \o Call(GetWorkflowJobsV3)
WorkflowGet    == RequireArgs \o LoadClient \o workflowID \o fetchWorkflowOutput \o Unless("json", AppURL)
\* A run by its UUID, or by its number in the project.
resolveRunID   == Unless("run id", Require \o ResolveProjectSlug \o Call(GetPipelineByNumber))
runListRecent  == ResolveProjectSlug \o Call(GetProjectBySlug) \o Call(SearchRunsV3)
                  \o ForEach("no runs", Call(GetRunWorkflowsV3))
WorkflowList   == LoadClient \o Unless("run", runListRecent)
                  \o When("run", resolveRunID \o Call(GetRunWorkflowsV3))
WorkflowOpen   == RequireArgs \o workflowID \o AppURL \o OpenURLOrPrint
WorkflowRerun  == RequireArgs \o LoadClient \o Call(RerunWorkflow)
=============================================================================
