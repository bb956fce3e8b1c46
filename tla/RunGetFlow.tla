------------------------------ MODULE RunGetFlow ------------------------------
(***************************************************************************)
(* The interactive "circleci run get" (internal/ui/run_get_flow.go): one     *)
(* program of pickers and pagers, whose fetches run beside its Update loop    *)
(* and come back as messages, in any order and at any time.  The model keeps *)
(* what the screens hold by whose data it is: a list is the run, workflow or *)
(* job it was fetched for.                                                  *)
(***************************************************************************)
EXTENDS Integers, Sequences, FiniteSets

CONSTANTS
    None,
    Filters,      \* trigger, status and created filters of the run picker
    Runs, Workflows, Jobs, Steps,
    RunOf,        \* the run of each workflow
    WorkflowOf,   \* the workflow of each job
    LogLength,    \* chunks of standard output of a step
    MaxEpoch,     \* bound: streams and static pages ever opened in the pager
    MaxOpens      \* bound: browsers being opened at a time

ASSUME FlowAssumption ==
    /\ RunOf \in [Workflows -> Runs] /\ WorkflowOf \in [Jobs -> Workflows]
    /\ None \notin Filters \cup Runs \cup Workflows \cup Jobs \cup Steps
    /\ LogLength \in Nat /\ MaxEpoch \in Nat /\ MaxOpens \in Nat

VARIABLES
    stage,
    sel,          \* what has been picked
    data,         \* whose runs, workflows, ... the flow holds; n executions
    return,       \* the stage that esc goes back to from each side trip
    pager,        \* the step pager and its stream
    restoreStep,  \* the executions are fetched to refresh the step picker
    confirm,      \* a download waits for its y/N
    inflight,     \* messages on their way
    failed,       \* result.Err is set
    over,         \* the program has ended
    strayed       \* history: a browser's report found the user on another screen

vars == <<stage, sel, data, return, pager, restoreStep, confirm, inflight, failed, over, strayed>>

\* The kind of message that ends each loading stage.
Awaits ==
    [LoadingRuns |-> "runs", LoadingWorkflows |-> "workflows", LoadingJobs |-> "jobs",
     LoadingExecutions |-> "executions", LoadingStep |-> "stdout", LoadingSummary |-> "summary",
     LoadingTests |-> "tests", LoadingArtifacts |-> "artifacts", LoadingArtifactFile |-> "file",
     DownloadingArtifacts |-> "download"]

Loading == DOMAIN Awaits
Pickers == {"RunSelect", "WorkflowSelect", "JobSelect", "ExecutionSelect", "StepSelect",
            "TestSelect", "ArtifactBrowse"}
Stages  == Pickers \cup Loading \cup {"StepPager", "SummaryPager", "RunFilter", "Help", "Done"}

-----------------------------------------------------------------------------
(* Messages.                                                               *)

msg(kind, of) ==
    [kind |-> kind, of |-> of, back |-> "Done", epoch |-> 0, offset |-> 0, copy |-> 0]

\* tea.QuitMsg; the first one to arrive ends the program, so one stands for all.
blank == msg("quit", None)

\* m, told apart from the messages in ms.
fresh(ms, m) ==
    [m EXCEPT !.copy = CHOOSE c \in 0..Cardinality(ms) : [m EXCEPT !.copy = c] \notin ms]

Send(m) == inflight' = inflight \cup {fresh(inflight, m)}
Take(m) == inflight' = inflight \ {m}
Reply(m, r) == inflight' = (inflight \ {m}) \cup {fresh(inflight \ {m}, r)}

source == [job |-> sel.job, execution |-> sel.execution, step |-> sel.step]

cmdFetchStepStdout == [msg("stdout", source) EXCEPT !.epoch = pager.epoch, !.offset = pager.offset]
cmdFetchStepStderr == [msg("stderr", source) EXCEPT !.epoch = pager.epoch]
cmdStepPoll == [msg("poll", None) EXCEPT !.epoch = pager.epoch]
cmdFetchSummary(back) == [msg("summary", None) EXCEPT !.back = back]

Names   == {None} \cup Filters \cup Runs \cup Workflows \cup Jobs \cup Steps
Sources == [job: Names, execution: 0..2, step: Names]

\* A chunk of output is asked for by source, everything else by name.
Message ==
    [kind: {"stdout", "stderr"}, of: Sources, back: Stages, epoch: Nat, offset: Nat, copy: Nat]
        \cup
    [kind: {"quit", "runs", "workflows", "jobs", "executions", "tests", "summary", "artifacts",
            "file", "download", "opened", "poll"},
     of: Names, back: Stages, epoch: Nat, offset: Nat, copy: Nat]

TypeOK ==
    /\ stage \in Stages
    /\ sel \in [filter: Names, run: Names, workflow: Names, job: Names, execution: 0..2,
                step: Names]
    /\ data \in [runs: Names, workflows: Names, jobs: Names, executions: Names, n: 0..2,
                 steps: Names, artifacts: Names]
    /\ return \in [tests: Stages, artifacts: Stages, summary: Stages, help: Stages, pager: Stages]
    /\ pager \in [epoch: Nat, buf: Seq(Sources \X Nat), offset: Nat, terminal: BOOLEAN,
                  stderrDone: BOOLEAN, fetching: BOOLEAN]
    /\ restoreStep \in BOOLEAN /\ confirm \in BOOLEAN
    /\ inflight \subseteq Message /\ IsFiniteSet(inflight)
    /\ failed \in BOOLEAN /\ over \in BOOLEAN /\ strayed \in BOOLEAN

unmoved == UNCHANGED <<sel, data, return, pager, restoreStep, confirm, failed, over, strayed>>

Init ==
    /\ stage = "LoadingRuns"
    /\ \E f \in Filters :
          /\ sel = [filter |-> f, run |-> None, workflow |-> None, job |-> None, execution |-> 0,
                    step |-> None]
          /\ inflight = {msg("runs", f)}
    /\ data = [runs |-> None, workflows |-> None, jobs |-> None, executions |-> None, n |-> 0,
               steps |-> None, artifacts |-> None]
    /\ return = [tests |-> "RunSelect", artifacts |-> "RunSelect", summary |-> "RunSelect",
                 help |-> "RunSelect", pager |-> "RunSelect"]
    /\ pager = [epoch |-> 0, buf |-> <<>>, offset |-> 0, terminal |-> FALSE, stderrDone |-> FALSE,
                fetching |-> FALSE]
    /\ restoreStep = FALSE /\ confirm = FALSE
    /\ failed = FALSE /\ over = FALSE /\ strayed = FALSE

-----------------------------------------------------------------------------
(* Keys.                                                                   *)

fetch(loading, m) == stage' = loading /\ Send(m)

\* ctrl+c, and esc on the first picker.
quit ==
    /\ stage # "Done" /\ ~(stage = "ArtifactBrowse" /\ confirm)
    /\ stage' = "Done"
    /\ failed' = FALSE
    /\ inflight' = inflight \cup {blank}
    /\ UNCHANGED <<sel, data, return, pager, restoreStep, confirm, over, strayed>>

openHelp ==
    /\ stage \in Pickers /\ ~(stage = "ArtifactBrowse" /\ confirm)
    /\ stage' = "Help"
    /\ return' = [return EXCEPT !.help = stage]
    /\ UNCHANGED <<sel, data, pager, restoreStep, confirm, inflight, failed, over, strayed>>

\* The trigger, the status or the dialog asks for other runs; r for the same.
changeFilter ==
    /\ stage \in {"RunSelect", "RunFilter"}
    /\ \E f \in Filters :
          /\ stage = "RunFilter" => f # sel.filter
          /\ fetch("LoadingRuns", msg("runs", f))
    /\ unmoved

openRunFilter ==
    /\ stage = "RunSelect"
    /\ stage' = "RunFilter"
    /\ UNCHANGED inflight /\ unmoved

pickRun ==
    /\ stage = "RunSelect"
    /\ \E r \in Runs :
          /\ sel' = [sel EXCEPT !.run = r]
          /\ fetch("LoadingWorkflows", msg("workflows", r))
    /\ UNCHANGED <<data, return, pager, restoreStep, confirm, failed, over, strayed>>

pickWorkflow ==
    /\ stage = "WorkflowSelect"
    /\ \E w \in {x \in Workflows : RunOf[x] = data.workflows} :
          /\ sel' = [sel EXCEPT !.workflow = w]
          /\ fetch("LoadingJobs", msg("jobs", w))
    /\ UNCHANGED <<data, return, pager, restoreStep, confirm, failed, over, strayed>>

pickJob ==
    /\ stage = "JobSelect"
    /\ \E j \in {x \in Jobs : WorkflowOf[x] = data.jobs} :
          /\ sel' = [sel EXCEPT !.job = j]
          /\ fetch("LoadingExecutions", msg("executions", j))
    /\ UNCHANGED <<data, return, pager, restoreStep, confirm, failed, over, strayed>>

pickExecution ==
    /\ stage = "ExecutionSelect"
    /\ \E e \in 1..data.n : sel' = [sel EXCEPT !.execution = e]
    /\ data' = [data EXCEPT !.steps = data.executions]
    /\ stage' = "StepSelect"
    /\ UNCHANGED <<return, pager, restoreStep, confirm, inflight, failed, over, strayed>>

\* r on the other pickers: the list is fetched again for what is picked now.
refresh ==
    /\ \/ stage = "WorkflowSelect" /\ fetch("LoadingWorkflows", msg("workflows", sel.run))
       \/ stage = "JobSelect" /\ fetch("LoadingJobs", msg("jobs", sel.workflow))
       \/ stage \in {"ExecutionSelect", "StepSelect"}
          /\ fetch("LoadingExecutions", msg("executions", sel.job))
       \/ stage = "TestSelect" /\ fetch("LoadingTests", msg("tests", sel.job))
       \/ stage = "ArtifactBrowse" /\ ~confirm
          /\ fetch("LoadingArtifacts", msg("artifacts", sel.job))
    /\ restoreStep' = (restoreStep \/ stage = "StepSelect")
    /\ UNCHANGED <<sel, data, return, pager, confirm, failed, over, strayed>>

\* The job-wide options head the first picker after a job.
offersMeta == stage = "ExecutionSelect" \/ (stage = "StepSelect" /\ data.n <= 1)

openSummary ==
    /\ stage \in {"WorkflowSelect", "JobSelect"} \/ offersMeta
    /\ fetch("LoadingSummary", cmdFetchSummary(stage))
    /\ unmoved

enterFailedTests ==
    /\ offersMeta
    /\ return' = [return EXCEPT !.tests = stage]
    /\ fetch("LoadingTests", msg("tests", sel.job))
    /\ UNCHANGED <<sel, data, pager, restoreStep, confirm, failed, over, strayed>>

\* Offered for a job that has ended; whether it has is left open here.
enterArtifacts ==
    /\ offersMeta
    /\ return' = [return EXCEPT !.artifacts = stage]
    /\ fetch("LoadingArtifacts", msg("artifacts", sel.job))
    /\ UNCHANGED <<sel, data, pager, restoreStep, confirm, failed, over, strayed>>

\* Fault: the stream keeps the number of the one before, which its chunks do not have.
startStepStreamOld ==
    [pager EXCEPT !.buf = <<>>, !.offset = 0, !.terminal = FALSE, !.stderrDone = FALSE,
                  !.fetching = TRUE]

\* The pager at the start of a stream.
startStepStream ==
    [pager EXCEPT !.epoch = @ + 1, !.buf = <<>>, !.offset = 0, !.terminal = FALSE,
                  !.stderrDone = FALSE, !.fetching = TRUE]

pickStep ==
    /\ stage = "StepSelect" /\ pager.epoch < MaxEpoch
    /\ \E s \in Steps :
          /\ sel' = [sel EXCEPT !.step = s]
          /\ pager' = startStepStream
          /\ stage' = "LoadingStep"
          /\ Send([msg("stdout", source') EXCEPT !.epoch = pager.epoch + 1, !.offset = 0])
    /\ return' = [return EXCEPT !.pager = "StepSelect"]
    /\ UNCHANGED <<data, restoreStep, confirm, failed, over, strayed>>

\* A page of fixed content: a test's message, an artifact.
openStatic(back) ==
    /\ pager' = [pager EXCEPT !.epoch = @ + 1, !.fetching = FALSE, !.terminal = TRUE,
                              !.stderrDone = TRUE, !.buf = <<>>, !.offset = 0]
    /\ return' = [return EXCEPT !.pager = back]
    /\ stage' = "StepPager"

openTestMessage ==
    /\ stage = "TestSelect" /\ pager.epoch < MaxEpoch
    /\ openStatic("TestSelect")
    /\ UNCHANGED <<sel, data, restoreStep, confirm, inflight, failed, over, strayed>>

openArtifactFile ==
    /\ stage = "ArtifactBrowse" /\ ~confirm /\ data.artifacts # None
    /\ fetch("LoadingArtifactFile", msg("file", data.artifacts))
    /\ unmoved

askArtifactDownload ==
    /\ stage = "ArtifactBrowse" /\ ~confirm /\ data.artifacts # None
    /\ confirm' = TRUE
    /\ UNCHANGED <<stage, sel, data, return, pager, restoreStep, inflight, failed, over, strayed>>

artifactConfirmKey ==
    /\ stage = "ArtifactBrowse" /\ confirm
    /\ confirm' = FALSE
    /\ \/ fetch("DownloadingArtifacts", msg("download", data.artifacts))
       \/ UNCHANGED <<stage, inflight>>
    /\ UNCHANGED <<sel, data, return, pager, restoreStep, failed, over, strayed>>

\* o opens a browser beside the flow, which does not wait for it.
openArtifactInBrowser ==
    /\ stage = "ArtifactBrowse" /\ ~confirm /\ data.artifacts # None
    /\ Cardinality({m \in inflight : m.kind = "opened"}) < MaxOpens
    /\ Send(msg("opened", data.artifacts))
    /\ UNCHANGED stage /\ unmoved

\* Fault: the steps of the only execution lead to the execution picker too.
aboveStepsFlat == "ExecutionSelect"

\* The execution picker is there for a job of several executions only.
aboveSteps == IF data.n > 1 THEN "ExecutionSelect" ELSE "JobSelect"

\* Where esc leads.
parent ==
    CASE stage = "WorkflowSelect" -> "RunSelect"
      [] stage = "JobSelect" -> "WorkflowSelect"
      [] stage = "ExecutionSelect" -> "JobSelect"
      [] stage = "StepSelect" -> aboveSteps
      [] stage = "TestSelect" ->
            IF return.tests = "ExecutionSelect" THEN "ExecutionSelect" ELSE "StepSelect"
      [] stage = "ArtifactBrowse" ->
            IF return.artifacts = "ExecutionSelect" THEN "ExecutionSelect" ELSE "StepSelect"
      [] stage = "StepPager" ->
            IF return.pager \in {"TestSelect", "ArtifactBrowse"} THEN return.pager ELSE "StepSelect"
      [] stage = "SummaryPager" -> return.summary
      [] stage = "Help" -> return.help
      [] stage = "RunFilter" -> "RunSelect"

\* Fault: leaving the pager leaves its stream running.
leavePagerRunning == pager

\* What is on its way belongs to another stream from now on.  (What the pager held
\* is forgotten: nothing reads it before the next page or stream sets it.)
leavePager ==
    [epoch |-> pager.epoch + 1, buf |-> <<>>, offset |-> 0, terminal |-> FALSE,
     stderrDone |-> FALSE, fetching |-> FALSE]

\* So are the stages that esc has gone back to.  That of the artifacts is not: a
\* browser's report may still lead there.
forget ==
    CASE stage = "TestSelect"   -> [return EXCEPT !.tests = "RunSelect"]
      [] stage = "SummaryPager" -> [return EXCEPT !.summary = "RunSelect"]
      [] stage = "Help"         -> [return EXCEPT !.help = "RunSelect"]
      [] stage = "StepPager"    -> [return EXCEPT !.pager = "RunSelect"]
      [] OTHER -> return

esc ==
    /\ stage \in (Pickers \ {"RunSelect"}) \cup {"StepPager", "SummaryPager", "Help", "RunFilter"}
    /\ ~(stage = "ArtifactBrowse" /\ confirm)
    /\ stage' = parent
    /\ return' = forget
    /\ IF stage = "StepPager"
       THEN pager.epoch < MaxEpoch /\ pager' = leavePager
       ELSE UNCHANGED pager
    /\ UNCHANGED <<sel, data, restoreStep, confirm, inflight, failed, over, strayed>>

\* Bound: once the flow has strayed it is not followed further.
goesOn == ~over /\ ~strayed

Key ==
    /\ goesOn
    /\ \/ quit \/ openHelp \/ esc \/ refresh
       \/ changeFilter \/ openRunFilter \/ pickRun
       \/ pickWorkflow \/ pickJob \/ pickExecution \/ pickStep
       \/ openSummary \/ enterFailedTests \/ enterArtifacts \/ openTestMessage
       \/ openArtifactFile \/ askArtifactDownload \/ artifactConfirmKey \/ openArtifactInBrowser

-----------------------------------------------------------------------------
(* Messages that come back.                                                *)

\* A failed fetch ends the program, but for those of the artifact browser.
fails(m) ==
    /\ \/ m.kind \in {"runs", "workflows", "jobs", "executions", "tests", "summary"}
       \/ m.kind = "stdout" /\ m.epoch = pager.epoch
    /\ stage' = "Done"
    /\ failed' = TRUE
    /\ inflight' = (inflight \ {m}) \cup {blank}
    /\ UNCHANGED <<sel, data, return, pager, restoreStep, confirm, over, strayed>>

onRuns(m) ==
    /\ m.kind = "runs"
    /\ data' = [data EXCEPT !.runs = m.of]
    /\ sel' = [sel EXCEPT !.filter = m.of]
    /\ stage' = "RunSelect"
    /\ Take(m)
    /\ UNCHANGED <<return, pager, restoreStep, confirm, failed, over, strayed>>

onWorkflows(m) ==
    /\ m.kind = "workflows"
    /\ data' = [data EXCEPT !.workflows = m.of]
    /\ stage' = "WorkflowSelect"
    /\ Take(m)
    /\ UNCHANGED <<sel, return, pager, restoreStep, confirm, failed, over, strayed>>

onJobs(m) ==
    /\ m.kind = "jobs"
    /\ data' = [data EXCEPT !.jobs = m.of]
    /\ stage' = "JobSelect"
    /\ Take(m)
    /\ UNCHANGED <<sel, return, pager, restoreStep, confirm, failed, over, strayed>>

\* A refresh of the step picker goes back to the execution it showed, if that is
\* still there.  A job without executions shows its report.
onExecutions(m) ==
    /\ m.kind = "executions"
    /\ \E n \in 0..2 :
          LET e == IF restoreStep /\ sel.execution \in 1..n THEN sel.execution ELSE 1
              steps == n = 1 \/ (restoreStep /\ sel.execution \in 1..n)
          IN /\ data' = [data EXCEPT !.executions = m.of, !.n = n,
                                     !.steps = IF steps THEN m.of ELSE @]
             /\ sel' = [sel EXCEPT !.execution = IF steps THEN e ELSE @]
             /\ \/ /\ n = 0
                   /\ stage' = "LoadingSummary"
                   /\ Reply(m, cmdFetchSummary("JobSelect"))
                \/ /\ n > 0
                   /\ stage' = IF steps THEN "StepSelect" ELSE "ExecutionSelect"
                   /\ Take(m)
    /\ restoreStep' = FALSE
    /\ UNCHANGED <<return, pager, confirm, failed, over, strayed>>

onTests(m) ==
    /\ m.kind = "tests"
    /\ stage' = "TestSelect"
    /\ Take(m)
    /\ unmoved

\* A list that could not be fetched is shown as an empty one.
onArtifacts(m) ==
    /\ m.kind = "artifacts"
    /\ \E a \in {m.of, None} : data' = [data EXCEPT !.artifacts = a]
    /\ confirm' = FALSE
    /\ stage' = "ArtifactBrowse"
    /\ Take(m)
    /\ UNCHANGED <<sel, return, pager, restoreStep, failed, over, strayed>>

onArtifactFile(m) ==
    /\ m.kind = "file"
    /\ \/ /\ pager.epoch < MaxEpoch
          /\ openStatic("ArtifactBrowse")
       \/ /\ stage' = "ArtifactBrowse"
          /\ UNCHANGED <<return, pager>>
    /\ Take(m)
    /\ UNCHANGED <<sel, data, restoreStep, confirm, failed, over, strayed>>

\* The report of a download, or of a browser, is shown above the artifacts,
\* whatever is on the screen.
onArtifactAction(m) ==
    /\ m.kind \in {"download", "opened"}
    /\ stage' = "ArtifactBrowse"
    /\ strayed' = (strayed \/ (m.kind = "opened" /\ stage # "ArtifactBrowse"))
    /\ Take(m)
    /\ UNCHANGED <<sel, data, return, pager, restoreStep, confirm, failed, over>>

onSummary(m) ==
    /\ m.kind = "summary"
    /\ return' = [return EXCEPT !.summary = m.back]
    /\ stage' = "SummaryPager"
    /\ Take(m)
    /\ UNCHANGED <<sel, data, pager, restoreStep, confirm, failed, over, strayed>>

current(m) == m.epoch = pager.epoch

\* Fault: the poll goes out only when the reader has scrolled to the end.
afterStdoutIdle(m, n, ends) ==
    IF ends /\ ~pager.stderrDone THEN Reply(m, cmdFetchStepStderr)
    ELSE IF ends \/ n = 0 THEN Take(m) ELSE Reply(m, cmdStepPoll)

\* What follows a chunk: stderr once the output has ended, else another poll.
afterStdout(m, n, ends) ==
    IF ends /\ ~pager.stderrDone THEN Reply(m, cmdFetchStepStderr)
    ELSE IF ends THEN Take(m) ELSE Reply(m, cmdStepPoll)

\* Fault: the request does not say how far the output was read.
chunksFromStart(m, n) == [i \in 1..n |-> <<m.of, i>>]

\* n chunks, from where the request asked for them.
chunks(m, n) == [i \in 1..n |-> <<m.of, m.offset + i>>]

onStepStdout(m) ==
    /\ m.kind = "stdout" /\ current(m)
    /\ \E n \in 0..(LogLength - m.offset), ends \in BOOLEAN :
          /\ ends => m.offset + n = LogLength
          /\ pager' = [pager EXCEPT !.buf = @ \o chunks(m, n), !.offset = @ + n, !.terminal = ends,
                                    !.fetching = ends /\ ~pager.stderrDone]
          /\ afterStdout(m, n, ends)
    /\ stage' = "StepPager"
    /\ UNCHANGED <<sel, data, return, restoreStep, confirm, failed, over, strayed>>

\* stderr is one more chunk, and an error or none of it is all the same.
onStepStderr(m) ==
    /\ m.kind = "stderr" /\ current(m)
    /\ \/ /\ pager' = [pager EXCEPT !.fetching = FALSE, !.stderrDone = TRUE,
                                    !.buf = Append(@, <<m.of, LogLength + 1>>)]
          /\ stage' = "StepPager"
       \/ /\ pager' = [pager EXCEPT !.fetching = FALSE, !.stderrDone = TRUE]
          /\ UNCHANGED stage
    /\ Take(m)
    /\ UNCHANGED <<sel, data, return, restoreStep, confirm, failed, over, strayed>>

onStepPoll(m) ==
    /\ m.kind = "poll" /\ current(m) /\ ~pager.fetching /\ ~pager.terminal
    /\ pager' = [pager EXCEPT !.fetching = TRUE]
    /\ Reply(m, cmdFetchStepStdout)
    /\ UNCHANGED <<stage, sel, data, return, restoreStep, confirm, failed, over, strayed>>

\* What belongs to another stream is dropped, and so is a poll that has nothing to do.
dropped(m) ==
    /\ m.kind \in {"stdout", "stderr", "poll"}
    /\ current(m) => m.kind = "poll" /\ (pager.fetching \/ pager.terminal)
    /\ Take(m)
    /\ UNCHANGED stage /\ unmoved

QuitMsg(m) ==
    /\ m.kind = "quit"
    /\ over' = TRUE
    /\ inflight' = {}
    /\ UNCHANGED <<stage, sel, data, return, pager, restoreStep, confirm, failed, strayed>>

Update(m) ==
    \/ onRuns(m) \/ onWorkflows(m) \/ onJobs(m) \/ onExecutions(m) \/ onTests(m)
    \/ onArtifacts(m) \/ onArtifactFile(m) \/ onArtifactAction(m) \/ onSummary(m)
    \/ onStepStdout(m) \/ onStepStderr(m) \/ onStepPoll(m) \/ dropped(m) \/ QuitMsg(m)
    \/ fails(m)

Arrives == goesOn /\ \E m \in inflight : Update(m)

Next == Key \/ Arrives

Spec == Init /\ [][Next]_vars

-----------------------------------------------------------------------------
(* Properties.                                                             *)

\* A spinner never turns for nothing: while a loading screen is up, a message that
\* will end it is on its way, whatever other messages put the flow there or took
\* the pager's stream over (run_get_flow.go, loading, startStepStream).
NeverStuck ==
    stage \in Loading /\ ~over =>
        \E m \in inflight : m.kind = Awaits[stage] /\ (m.kind = "stdout" => m.epoch = pager.epoch)

\* What a screen lists was fetched for what is picked: "fetched data for the current
\* selections, parallel to the pickers" (run_get_flow.go, RunGetFlowModel).
ShownIsPicked ==
    /\ stage \in {"WorkflowSelect", "JobSelect", "ExecutionSelect", "StepSelect", "ArtifactBrowse"}
           => data.workflows = sel.run
    /\ stage \in {"JobSelect", "ExecutionSelect", "StepSelect", "ArtifactBrowse"}
           => data.jobs = sel.workflow /\ RunOf[sel.workflow] = sel.run
    /\ stage \in {"ExecutionSelect", "StepSelect", "ArtifactBrowse"}
           => data.executions = sel.job /\ WorkflowOf[sel.job] = sel.workflow
    /\ stage = "ExecutionSelect" => data.n > 1
    /\ stage = "StepSelect" => data.steps = sel.job /\ sel.execution \in 1..data.n
    /\ stage = "ArtifactBrowse" => data.artifacts \in {None, sel.job}

\* It holds until the report of a browser finds the user on another screen.
ShownIsPickedUnlessStrayed == strayed \/ ShownIsPicked

\* The step pager shows the output of the step that was picked, from its start, no
\* chunk lost or twice, and stderr only after all of it, whichever streams were left
\* with requests and polls on their way (run_get_flow.go, onStepStdout).
PagerShowsTheStep ==
    stage = "StepPager" /\ return.pager = "StepSelect" /\ ~strayed =>
        LET out == [i \in 1..pager.offset |-> <<source, i>>] IN
        \/ pager.buf = out
        \/ /\ pager.terminal /\ pager.stderrDone /\ pager.offset = LogLength
           /\ pager.buf = Append(out, <<source, LogLength + 1>>)

\* While a step's output is on the screen and has not all come, its stream goes on:
\* the next chunk, the poll for it or stderr is on its way, and only one of them
\* (run_get_flow.go, onStepPoll).
StreamGoesOn ==
    LET stream == {m \in inflight : m.kind \in {"stdout", "stderr", "poll"} /\ current(m)} IN
    /\ stage = "StepPager" /\ ~over /\ ~(pager.terminal /\ pager.stderrDone) => stream # {}
    /\ Cardinality(stream) <= 1

\* A message never takes a user who waits for none to another screen, but for the
\* report of a browser: a picker, a pager or a dialog stays until a key leaves it, or
\* the fetch of the step on the screen fails.
StaysPut ==
    [][Arrives /\ stage \notin Loading \cup {"Done"} /\ ~strayed' => stage' \in {stage, "Done"}]_vars
=============================================================================
