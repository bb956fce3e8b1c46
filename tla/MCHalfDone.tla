----------------------------- MODULE MCHalfDone -----------------------------
(* The commands that go on behind a prompt that was left, and those that    *)
(* change something before they check what may end them.                    *)
EXTENDS CommandRun, ProjectCommands, RunnerCommands, PipelineCommands, DeployCommands

Programs ==
    [projectCreate |-> ProjectCreate, pipelineRun |-> PipelineRun, deployInit |-> DeployInit,
     runnerConfig |-> RunnerConfig]
=============================================================================
