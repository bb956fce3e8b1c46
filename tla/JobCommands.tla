----------------------------- MODULE JobCommands -----------------------------
(* internal/cmd/job, internal/cmd/testresult and internal/cmd/artifacts:    *)
(* what a job did, printed and left behind. Requests that are made side by  *)
(* side are made one after the other here: none of them changes anything,   *)
(* and the first that fails ends the command either way.                    *)
EXTENDS CommandHelpers

jobID == Require

JobGet  == RequireArgs \o LoadClient \o Need("general") \o Call(GetJobV3) \o Unless("json", AppURL)
JobOpen == RequireArgs \o LoadClient \o Need("general") \o Call(GetJobV3) \o AppURL \o OpenURLOrPrint

runOutputGet          == Call(GetJobStdout) \o Call(GetJobStderr)
runOutputGetCondensed == Call(GetJobStdoutCondensed)
OutputGet   == RequireArgs \o Require \o jobID \o LoadClient
               \o Unless("condensed", runOutputGet) \o When("condensed", runOutputGetCondensed)
executionSteps   == Need("notFound")
renderStepOutput == Soft({"notFound"}, Call(GetJobStdout)) \o Soft({"notFound"}, Call(GetJobStderr))
fetchOutputList  == Call(GetJobV3) \o executionSteps \o ForEach("no steps", renderStepOutput)
OutputList  == RequireArgs \o jobID \o LoadClient \o fetchOutputList
fetchResourceUsage == Call(GetJobResourceUsage) \o When("execution", Need("notFound"))
ResourceUsageGet == RequireArgs \o jobID \o Require \o LoadClient \o fetchResourceUsage

\* Each file is made, then its artifact downloaded into it; the first that fails ends the command.
\* Neither changes the server, so all the files are taken before all the downloads.
DownloadPaths == Many(WriteFile) \o Many(Coded("general", Missing("general", Call(DownloadArtifact))))
Download      == DownloadPaths                 \* laid out by execution
JobArtifacts  == RequireArgs \o LoadClient \o Call(GetJobArtifactsV3) \o Whether("no artifacts")
                 \o When("output", Unless("no artifacts", Download))

parseFilters   == Require \o Require
streamJSON     == Call(StreamJobTests)        \* printed while they come
TestResultList == RequireArgs \o LoadClient \o jobID \o parseFilters \o Require \o streamJSON
\* Exactly one test has to bear the name.
TestResultGet  == RequireArgs \o LoadClient \o jobID \o Require \o Require \o Call(StreamJobTests)
                  \o Need("notFound") \o Require
=============================================================================
