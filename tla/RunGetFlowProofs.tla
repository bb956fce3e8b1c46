--------------------------- MODULE RunGetFlowProofs ---------------------------
(***************************************************************************)
(* Safety of the interactive run browser, for any runs, workflows, jobs    *)
(* and steps and any order of answers.  The properties hold together only: *)
(* that a screen is not left by a stray answer rests on there being at     *)
(* most one answer that matters, and that is so because every key that     *)
(* asks for one leaves the screens that can ask.                           *)
(***************************************************************************)
EXTENDS RunGetFlow, FiniteSetTheorems, SequenceTheorems, TLAPS

\* A fetch in the foreground: its answer moves the flow to another screen.
Fore(m) == m.kind \in {"runs", "workflows", "jobs", "executions", "tests", "summary",
                       "artifacts", "file", "download"}

\* A message of the stream that the pager follows.
Live(m) == m.kind \in {"stdout", "stderr", "poll"} /\ m.epoch = pager.epoch

\* The lists above a picker are those of what is picked.
RunShown == data.workflows = sel.run
FlowShown == RunShown /\ data.jobs = sel.workflow /\ RunOf[sel.workflow] = sel.run
JobShown == FlowShown /\ data.executions = sel.job /\ WorkflowOf[sel.job] = sel.workflow

\* So are the executions or the steps a side trip from s comes back to.
Back(s) ==
    /\ JobShown
    /\ IF s = "ExecutionSelect" THEN data.n > 1
       ELSE data.steps = sel.job /\ sel.execution \in 1..data.n

\* What the picker s shows is right, side trips under way included.
Fits(s) ==
    /\ s \in Pickers
    /\ s = "WorkflowSelect" => RunShown
    /\ s = "JobSelect" => FlowShown
    /\ s \in {"ExecutionSelect", "StepSelect"} => Back(s)
    /\ s = "TestSelect" => Back(return.tests)
    /\ s = "ArtifactBrowse" => Back(return.artifacts) /\ data.artifacts \in {None, sel.job}

\* The picker that esc leads to from a page.
under == IF return.pager \in {"TestSelect", "ArtifactBrowse"} THEN return.pager ELSE "StepSelect"

\* The answer m will be right on the screen it leads to.
Apt(m) ==
    /\ m.kind = "workflows" => m.of = sel.run
    /\ m.kind = "jobs" => RunShown /\ m.of = sel.workflow /\ RunOf[m.of] = sel.run
    /\ m.kind = "executions" => FlowShown /\ m.of = sel.job /\ WorkflowOf[m.of] = sel.workflow
    /\ m.kind = "summary" => Fits(m.back)
    /\ m.kind = "tests" => Fits("TestSelect")
    /\ m.kind = "artifacts" => Back(return.artifacts) /\ m.of = sel.job
    /\ m.kind \in {"file", "download"} => Fits("ArtifactBrowse")

\* At most one answer is awaited, by the screen that is up or by one that was quit.
ForeInv ==
    /\ \A m, n \in inflight : Fore(m) /\ Fore(n) => m = n
    /\ \A m \in inflight : Fore(m) =>
          /\ stage = "Done" \/ (stage \in Loading /\ Awaits[stage] = m.kind)
          /\ Apt(m)
    /\ stage \in Loading \ {"LoadingStep"} => \E m \in inflight : Fore(m)

\* Where the flow is, what it shows is right.
PlaceInv ==
    /\ stage \in Pickers => Fits(stage)
    /\ stage = "StepPager" => Fits(under)
    /\ stage = "SummaryPager" => Fits(return.summary)
    /\ stage = "Help" => Fits(return.help)

\* The chunks read so far, in order.
output == [i \in 1..pager.offset |-> <<source, i>>]

\* A message of the stream has what it needs to carry on where the pager is.
Follows(m) ==
    /\ ~pager.stderrDone /\ pager.buf = output /\ pager.offset <= LogLength
    /\ m.kind = "stdout" => /\ pager.fetching /\ ~pager.terminal
                            /\ m.of = source /\ m.offset = pager.offset
    /\ m.kind = "poll" => ~pager.fetching /\ ~pager.terminal
    /\ m.kind = "stderr" => pager.terminal /\ m.of = source /\ pager.offset = LogLength

\* A stream is followed by at most one message, and only by the pager that shows
\* it, or one that was quit.
StreamInv ==
    /\ \A m, n \in inflight : Live(m) /\ Live(n) => m = n
    /\ \A m \in inflight : Live(m) =>
          /\ stage \in {"LoadingStep", "StepPager", "Done"}
          /\ return.pager = "StepSelect" /\ Fits("StepSelect")
          /\ \A n \in inflight : ~Fore(n)
          /\ Follows(m)
    /\ stage = "LoadingStep" => \E m \in inflight : Live(m) /\ m.kind = "stdout"
    /\ stage = "StepPager" =>
          \/ \E m \in inflight : Live(m)
          \/ /\ pager.terminal /\ pager.stderrDone
             /\ return.pager = "StepSelect" =>
                   /\ pager.offset = LogLength
                   /\ pager.buf \in {output, Append(output, <<source, LogLength + 1>>)}

\* No message is of a stream yet to be opened.
EpochInv == \A m \in inflight : m.epoch <= pager.epoch

Settled == ForeInv /\ PlaceInv /\ StreamInv /\ EpochInv

Safe == NeverStuck /\ ShownIsPickedUnlessStrayed /\ PagerShowsTheStep /\ StreamGoesOn

\* All this holds while the flow goes on; what was promised holds for good.
Inv ==
    /\ TypeOK
    /\ goesOn => Settled
    /\ ~goesOn => Safe

-----------------------------------------------------------------------------
(* Types.                                                                  *)

\* There is a copy to be told apart by: fewer messages than copies are there.
LEMMA FreshMessage ==
    ASSUME NEW ms \in SUBSET Message, IsFiniteSet(ms), NEW m \in Message
    PROVE  /\ fresh(ms, m) \in Message \ ms
           /\ \A k \in {fresh(ms, m)} :
                 /\ k.kind = m.kind /\ k.of = m.of /\ k.back = m.back
                 /\ k.epoch = m.epoch /\ k.offset = m.offset
<1> DEFINE n == Cardinality(ms)
           f == [c \in 0..n |-> [m EXCEPT !.copy = c]]
<1>1. n \in Nat
  BY FS_CardinalityType
<1>2. \A c \in Nat : /\ [m EXCEPT !.copy = c] \in Message
                     /\ [m EXCEPT !.copy = c].copy = c
  BY DEF Message
<1>3. \E c \in 0..n : [m EXCEPT !.copy = c] \notin ms
  <2> SUFFICES ASSUME \A c \in 0..n : [m EXCEPT !.copy = c] \in ms PROVE FALSE
    OBVIOUS
  <2>1. f \in [0..n -> ms]
    OBVIOUS
  <2>2. IsFiniteSet(0..n) /\ Cardinality(0..n) = n + 1
    <3> HIDE DEF n
    <3>1. 0 \in Int /\ n \in Int
      BY <1>1
    <3>2. IsFiniteSet(0..n) /\ Cardinality(0..n) = IF 0 > n THEN 0 ELSE n - 0 + 1
      BY <3>1, FS_Interval, Zenon
    <3> QED BY <1>1, <3>2
  <2>3. Cardinality(ms) < Cardinality(0..n)
    <3>1. n < n + 1
      BY <1>1
    <3> QED BY <2>2, <3>1
  <2>4. \E x, y \in 0..n : x # y /\ f[x] = f[y]
    <3> HIDE DEF f
    <3> QED BY <2>1, <2>2, <2>3, FS_PigeonHole
  <2>5. \A x \in 0..n : f[x].copy = x
    <3>1. \A x \in 0..n : f[x] = [m EXCEPT !.copy = x] /\ x \in Nat
      BY <1>1
    <3> QED BY <1>2, <3>1
  <2> HIDE DEF f, n
  <2> QED BY <2>4, <2>5
<1>4. PICK c \in 0..n : fresh(ms, m) = [m EXCEPT !.copy = c] /\ [m EXCEPT !.copy = c] \notin ms
  BY <1>3 DEF fresh
<1>5. c \in Nat
  BY <1>1
<1>6. [m EXCEPT !.copy = c] \in Message
  BY <1>2, <1>5
<1>7. LET k == [m EXCEPT !.copy = c] IN
          /\ k.kind = m.kind /\ k.of = m.of /\ k.back = m.back
          /\ k.epoch = m.epoch /\ k.offset = m.offset
  BY DEF Message
<1> QED BY <1>4, <1>6, <1>7

Plain == {"quit", "runs", "workflows", "jobs", "executions", "tests", "summary", "artifacts",
          "file", "download", "opened", "poll"}

LEMMA MsgType ==
    /\ blank \in Message /\ blank.kind = "quit" /\ blank.epoch = 0
    /\ \A kind \in Plain, of \in Names :
          /\ msg(kind, of) \in Message
          /\ msg(kind, of).kind = kind /\ msg(kind, of).of = of /\ msg(kind, of).epoch = 0
    /\ \A back \in Stages :
          /\ cmdFetchSummary(back) \in Message
          /\ cmdFetchSummary(back).kind = "summary" /\ cmdFetchSummary(back).back = back
          /\ cmdFetchSummary(back).epoch = 0
<1>1. "Done" \in Stages /\ None \in Names
  BY DEF Stages, Names
<1>2. ASSUME NEW kind \in Plain, NEW of \in Names
      PROVE  /\ msg(kind, of) \in Message
             /\ msg(kind, of).kind = kind /\ msg(kind, of).of = of /\ msg(kind, of).epoch = 0
  BY <1>1 DEF msg, Message, Plain
<1>3. blank \in Message /\ blank.kind = "quit" /\ blank.epoch = 0
  BY <1>1, <1>2 DEF blank, Plain
<1>4. ASSUME NEW back \in Stages
      PROVE  /\ cmdFetchSummary(back) \in Message
             /\ cmdFetchSummary(back).kind = "summary" /\ cmdFetchSummary(back).back = back
             /\ cmdFetchSummary(back).epoch = 0
  BY <1>1 DEF cmdFetchSummary, msg, Message
<1> QED BY <1>2, <1>3, <1>4

\* The messages of the stream.
LEMMA StreamMsgType ==
    ASSUME TypeOK
    PROVE  /\ source \in Sources
           /\ cmdFetchStepStdout \in Message /\ cmdFetchStepStdout.kind = "stdout"
           /\ cmdFetchStepStdout.of = source /\ cmdFetchStepStdout.epoch = pager.epoch
           /\ cmdFetchStepStdout.offset = pager.offset
           /\ cmdFetchStepStderr \in Message /\ cmdFetchStepStderr.kind = "stderr"
           /\ cmdFetchStepStderr.of = source /\ cmdFetchStepStderr.epoch = pager.epoch
           /\ cmdStepPoll \in Message /\ cmdStepPoll.kind = "poll" /\ cmdStepPoll.epoch = pager.epoch
<1>1. "Done" \in Stages /\ None \in Names /\ pager.epoch \in Nat /\ pager.offset \in Nat
  BY DEF Stages, Names, TypeOK
<1>2. source \in Sources
  BY DEF source, Sources, TypeOK
<1> HIDE DEF source
<1>3. /\ cmdFetchStepStdout \in Message /\ cmdFetchStepStdout.kind = "stdout"
      /\ cmdFetchStepStdout.of = source /\ cmdFetchStepStdout.epoch = pager.epoch
      /\ cmdFetchStepStdout.offset = pager.offset
  BY <1>1, <1>2 DEF cmdFetchStepStdout, msg, Message
<1>4. /\ cmdFetchStepStderr \in Message /\ cmdFetchStepStderr.kind = "stderr"
      /\ cmdFetchStepStderr.of = source /\ cmdFetchStepStderr.epoch = pager.epoch
  BY <1>1, <1>2 DEF cmdFetchStepStderr, msg, Message
<1>5. cmdStepPoll \in Message /\ cmdStepPoll.kind = "poll" /\ cmdStepPoll.epoch = pager.epoch
  BY <1>1 DEF cmdStepPoll, msg, Message
<1> QED BY <1>2, <1>3, <1>4, <1>5

\* What a handler may do to the messages.
LEMMA InflightType ==
    ASSUME TypeOK, NEW ms \in SUBSET inflight, NEW m \in Message
    PROVE  /\ ms \subseteq Message /\ IsFiniteSet(ms)
           /\ ms \cup {fresh(ms, m)} \subseteq Message /\ IsFiniteSet(ms \cup {fresh(ms, m)})
           /\ ms \cup {m} \subseteq Message /\ IsFiniteSet(ms \cup {m})
<1>1. ms \subseteq Message /\ IsFiniteSet(ms)
  BY FS_Subset DEF TypeOK
<1>2. fresh(ms, m) \in Message
  BY <1>1, FreshMessage
<1> QED BY <1>1, <1>2, FS_AddElement

LEMMA Loadings ==
    /\ Loading = {"LoadingRuns", "LoadingWorkflows", "LoadingJobs", "LoadingExecutions",
                  "LoadingStep", "LoadingSummary", "LoadingTests", "LoadingArtifacts",
                  "LoadingArtifactFile", "DownloadingArtifacts"}
    /\ Awaits["LoadingRuns"] = "runs" /\ Awaits["LoadingWorkflows"] = "workflows"
    /\ Awaits["LoadingJobs"] = "jobs" /\ Awaits["LoadingExecutions"] = "executions"
    /\ Awaits["LoadingStep"] = "stdout" /\ Awaits["LoadingSummary"] = "summary"
    /\ Awaits["LoadingTests"] = "tests" /\ Awaits["LoadingArtifacts"] = "artifacts"
    /\ Awaits["LoadingArtifactFile"] = "file" /\ Awaits["DownloadingArtifacts"] = "download"
BY DEF Loading, Awaits

LEMMA StageNames ==
    /\ Stages = Pickers \cup Loading \cup {"StepPager", "SummaryPager", "RunFilter", "Help", "Done"}
    /\ Pickers \cap Loading = {}
    /\ Loading \cap {"StepPager", "SummaryPager", "RunFilter", "Help", "Done"} = {}
    /\ Pickers \cap {"StepPager", "SummaryPager", "RunFilter", "Help", "Done"} = {}
BY Loadings DEF Stages, Pickers

\* A key that asks for something.
LEMMA FetchType ==
    ASSUME TypeOK, NEW l \in Loading, NEW m \in Message, fetch(l, m)
    PROVE  /\ stage' \in Stages
           /\ inflight' \subseteq Message /\ IsFiniteSet(inflight')
<1>1. stage' = l /\ inflight' = inflight \cup {fresh(inflight, m)}
  BY DEF fetch, Send
<1> QED BY <1>1, InflightType DEF Stages

LEMMA ParentType == TypeOK => parent \in Stages \/ stage \in Loading \cup {"RunSelect", "Done"}
<1> SUFFICES ASSUME TypeOK, stage \notin Loading \cup {"RunSelect", "Done"}
             PROVE  parent \in Stages
  OBVIOUS
<1>1. Pickers \subseteq Stages /\ aboveSteps \in Pickers
  BY DEF Stages, Pickers, aboveSteps
<1>2. return \in [tests: Stages, artifacts: Stages, summary: Stages, help: Stages, pager: Stages]
  BY DEF TypeOK
<1>3. stage \in {"WorkflowSelect", "JobSelect", "ExecutionSelect", "StepSelect", "TestSelect",
                 "ArtifactBrowse", "StepPager", "SummaryPager", "Help", "RunFilter"}
  BY Loadings DEF TypeOK, Stages, Pickers
<1> QED BY <1>1, <1>2, <1>3 DEF parent, Pickers

\* What the pager may become.
Pager == [epoch: Nat, buf: Seq(Sources \X Nat), offset: Nat, terminal: BOOLEAN,
          stderrDone: BOOLEAN, fetching: BOOLEAN]

LEMMA PagerType ==
    ASSUME TypeOK
    PROVE  /\ pager \in Pager /\ startStepStream \in Pager /\ leavePager \in Pager
           /\ [pager EXCEPT !.epoch = @ + 1, !.fetching = FALSE, !.terminal = TRUE,
                            !.stderrDone = TRUE, !.buf = <<>>, !.offset = 0] \in Pager
<1> DEFINE B == Seq(Sources \X Nat)
<1>1. <<>> \in B
  OBVIOUS
<1>2. pager \in Pager /\ Pager = [epoch: Nat, buf: B, offset: Nat, terminal: BOOLEAN,
                                  stderrDone: BOOLEAN, fetching: BOOLEAN]
  BY DEF TypeOK, Pager
<1> HIDE DEF B
<1>e. PICK e \in Nat : e = pager.epoch + 1
  BY <1>2
<1>3. startStepStream \in Pager
  <2>1. startStepStream = [pager EXCEPT !.epoch = e, !.buf = <<>>, !.offset = 0,
                               !.terminal = FALSE, !.stderrDone = FALSE, !.fetching = TRUE]
    BY <1>e DEF startStepStream
  <2> QED BY <1>1, <1>2, <2>1
<1>4. leavePager \in Pager
  BY <1>1, <1>2 DEF leavePager
<1>5. [pager EXCEPT !.epoch = @ + 1, !.fetching = FALSE, !.terminal = TRUE,
                    !.stderrDone = TRUE, !.buf = <<>>, !.offset = 0] \in Pager
  BY <1>1, <1>2, <1>e
<1> QED BY <1>2, <1>3, <1>4, <1>5

LEMMA KeyType == TypeOK /\ goesOn /\ Key => TypeOK'
<1> SUFFICES ASSUME TypeOK, goesOn, Key PROVE TypeOK'
  OBVIOUS
<1> USE Loadings
<1>s. /\ stage \in Stages
      /\ sel \in [filter: Names, run: Names, workflow: Names, job: Names, execution: 0..2,
                  step: Names]
      /\ data \in [runs: Names, workflows: Names, jobs: Names, executions: Names, n: 0..2,
                   steps: Names, artifacts: Names]
      /\ return \in [tests: Stages, artifacts: Stages, summary: Stages, help: Stages,
                     pager: Stages]
  BY DEF TypeOK
<1>n. /\ Filters \cup Runs \cup Workflows \cup Jobs \cup Steps \cup {None} \subseteq Names
      /\ Pickers \subseteq Stages /\ Loading \subseteq Stages
      /\ {"StepPager", "SummaryPager", "RunFilter", "Help", "Done"} \subseteq Stages
  BY DEF Names, Stages
\* A fetch of something named, with the rest left as it is but for sel and return.
<1>f. ASSUME NEW l \in Loading, NEW kind \in Plain, NEW of \in Names, fetch(l, msg(kind, of))
      PROVE  stage' \in Stages /\ inflight' \subseteq Message /\ IsFiniteSet(inflight')
  <2>1. msg(kind, of) \in Message
    BY MsgType
  <2> QED BY <1>f, <2>1, FetchType
<1>1. CASE quit
  BY <1>1, <1>n, MsgType, FS_AddElement DEF quit, TypeOK
<1>2. CASE openHelp
  BY <1>2, <1>n DEF openHelp, TypeOK
<1>3. CASE changeFilter
  <2>1. PICK f \in Filters : fetch("LoadingRuns", msg("runs", f))
    BY <1>3 DEF changeFilter
  <2>2. stage' \in Stages /\ inflight' \subseteq Message /\ IsFiniteSet(inflight')
    BY <2>1, <1>f, <1>n DEF Plain
  <2> QED BY <1>3, <2>2 DEF changeFilter, unmoved, TypeOK
<1>4. CASE openRunFilter
  BY <1>4, <1>n DEF openRunFilter, unmoved, TypeOK
<1>5. CASE pickRun
  <2>1. PICK r \in Runs : sel' = [sel EXCEPT !.run = r]
                          /\ fetch("LoadingWorkflows", msg("workflows", r))
    BY <1>5 DEF pickRun
  <2>2. stage' \in Stages /\ inflight' \subseteq Message /\ IsFiniteSet(inflight')
    BY <2>1, <1>f, <1>n DEF Plain
  <2> QED BY <1>5, <2>1, <2>2, <1>n DEF pickRun, TypeOK
<1>6. CASE pickWorkflow
  <2>1. PICK w \in Workflows : sel' = [sel EXCEPT !.workflow = w]
                               /\ fetch("LoadingJobs", msg("jobs", w))
    BY <1>6 DEF pickWorkflow
  <2>2. stage' \in Stages /\ inflight' \subseteq Message /\ IsFiniteSet(inflight')
    BY <2>1, <1>f, <1>n DEF Plain
  <2> QED BY <1>6, <2>1, <2>2, <1>n DEF pickWorkflow, TypeOK
<1>7. CASE pickJob
  <2>1. PICK j \in Jobs : sel' = [sel EXCEPT !.job = j]
                          /\ fetch("LoadingExecutions", msg("executions", j))
    BY <1>7 DEF pickJob
  <2>2. stage' \in Stages /\ inflight' \subseteq Message /\ IsFiniteSet(inflight')
    BY <2>1, <1>f, <1>n DEF Plain
  <2> QED BY <1>7, <2>1, <2>2, <1>n DEF pickJob, TypeOK
<1>8. CASE pickExecution
  <2>1. PICK e \in 1..data.n : sel' = [sel EXCEPT !.execution = e]
    BY <1>8 DEF pickExecution
  <2>2. e \in 0..2 /\ data.executions \in Names
    BY <1>s
  <2> QED BY <1>8, <2>1, <2>2, <1>n DEF pickExecution, TypeOK, Pickers
<1>9. CASE refresh
  <2>1. sel.run \in Names /\ sel.workflow \in Names /\ sel.job \in Names
    BY <1>s
  <2>2. stage' \in Stages /\ inflight' \subseteq Message /\ IsFiniteSet(inflight')
    <3>1. CASE fetch("LoadingWorkflows", msg("workflows", sel.run))
      BY <3>1, <2>1, <1>f DEF Plain
    <3>2. CASE fetch("LoadingJobs", msg("jobs", sel.workflow))
      BY <3>2, <2>1, <1>f DEF Plain
    <3>3. CASE fetch("LoadingExecutions", msg("executions", sel.job))
      BY <3>3, <2>1, <1>f DEF Plain
    <3>4. CASE fetch("LoadingTests", msg("tests", sel.job))
      BY <3>4, <2>1, <1>f DEF Plain
    <3>5. CASE fetch("LoadingArtifacts", msg("artifacts", sel.job))
      BY <3>5, <2>1, <1>f DEF Plain
    <3> QED BY <1>9, <3>1, <3>2, <3>3, <3>4, <3>5 DEF refresh
  <2>3. restoreStep' \in BOOLEAN
    BY <1>9 DEF refresh
  <2> QED BY <1>9, <2>2, <2>3 DEF refresh, TypeOK
<1>10. CASE pickStep
  <2>1. PICK s \in Steps : /\ sel' = [sel EXCEPT !.step = s]
                           /\ Send([msg("stdout", source') EXCEPT !.epoch = pager.epoch + 1,
                                                                  !.offset = 0])
    BY <1>10 DEF pickStep
  <2>2. sel' \in [filter: Names, run: Names, workflow: Names, job: Names, execution: 0..2,
                  step: Names]
    BY <2>1, <1>s, <1>n
  <2>3. PICK of \in Sources : of = source'
    BY <2>2 DEF source, Sources
  <2>e. pager.epoch + 1 \in Nat
    BY DEF TypeOK
  <2>4. [msg("stdout", of) EXCEPT !.epoch = pager.epoch + 1, !.offset = 0] \in Message
    BY <1>n, <2>e DEF msg, Message
  <2>5. inflight' = inflight \cup {fresh(inflight,
               [msg("stdout", of) EXCEPT !.epoch = pager.epoch + 1, !.offset = 0])}
    BY <2>1, <2>3 DEF Send, msg
  <2>6. inflight' \subseteq Message /\ IsFiniteSet(inflight')
    BY <2>4, <2>5, InflightType
  <2>7. pager' \in Pager
    BY <1>10, PagerType DEF pickStep
  <2> QED BY <1>10, <2>2, <2>6, <2>7, <1>n DEF pickStep, TypeOK, Pickers, Pager
<1>11. CASE openSummary
  <2>1. cmdFetchSummary(stage) \in Message
    BY <1>s, MsgType
  <2>2. stage' \in Stages /\ inflight' \subseteq Message /\ IsFiniteSet(inflight')
    BY <1>11, <2>1, FetchType DEF openSummary
  <2> QED BY <1>11, <2>2 DEF openSummary, unmoved, TypeOK
<1>12. CASE enterFailedTests \/ enterArtifacts
  <2>1. sel.job \in Names
    BY <1>s
  <2>2. stage' \in Stages /\ inflight' \subseteq Message /\ IsFiniteSet(inflight')
    <3>1. CASE fetch("LoadingTests", msg("tests", sel.job))
      BY <3>1, <2>1, <1>f DEF Plain
    <3>2. CASE fetch("LoadingArtifacts", msg("artifacts", sel.job))
      BY <3>2, <2>1, <1>f DEF Plain
    <3> QED BY <1>12, <3>1, <3>2 DEF enterFailedTests, enterArtifacts
  <2>3. return' \in [tests: Stages, artifacts: Stages, summary: Stages, help: Stages, pager: Stages]
    BY <1>12, <1>s DEF enterFailedTests, enterArtifacts
  <2> QED BY <1>12, <2>2, <2>3 DEF enterFailedTests, enterArtifacts, TypeOK
<1>13. CASE openTestMessage
  <2>1. pager' \in Pager
    BY <1>13, PagerType DEF openTestMessage, openStatic
  <2> QED BY <1>13, <1>n, <2>1 DEF openTestMessage, openStatic, TypeOK, Pickers, Pager
<1>14. CASE openArtifactFile
  <2>1. data.artifacts \in Names
    BY <1>s
  <2>2. stage' \in Stages /\ inflight' \subseteq Message /\ IsFiniteSet(inflight')
    BY <1>14, <2>1, <1>f DEF Plain, openArtifactFile
  <2> QED BY <1>14, <2>2 DEF openArtifactFile, unmoved, TypeOK
<1>15. CASE askArtifactDownload
  BY <1>15 DEF askArtifactDownload, TypeOK
<1>16. CASE artifactConfirmKey
  <2>1. data.artifacts \in Names
    BY <1>s
  <2>2. stage' \in Stages /\ inflight' \subseteq Message /\ IsFiniteSet(inflight')
    <3>1. CASE fetch("DownloadingArtifacts", msg("download", data.artifacts))
      BY <3>1, <2>1, <1>f DEF Plain
    <3>2. CASE UNCHANGED <<stage, inflight>>
      BY <3>2 DEF TypeOK
    <3> QED BY <1>16, <3>1, <3>2 DEF artifactConfirmKey
  <2> QED BY <1>16, <2>2 DEF artifactConfirmKey, TypeOK
<1>17. CASE openArtifactInBrowser
  <2>1. msg("opened", data.artifacts) \in Message
    BY <1>s, MsgType DEF Plain
  <2>2. inflight' \subseteq Message /\ IsFiniteSet(inflight')
    BY <1>17, <2>1, InflightType DEF openArtifactInBrowser, Send
  <2> QED BY <1>17, <2>2 DEF openArtifactInBrowser, unmoved, TypeOK
<1>18. CASE esc
  <2>1. stage' \in Stages
    BY <1>18, ParentType DEF esc, Pickers
  <2>2. return' \in [tests: Stages, artifacts: Stages, summary: Stages, help: Stages, pager: Stages]
    <3>1. "RunSelect" \in Stages
      BY DEF Stages, Pickers
    <3>2. forget \in [tests: Stages, artifacts: Stages, summary: Stages, help: Stages,
                      pager: Stages]
      <4>1. \/ forget = return
            \/ forget = [return EXCEPT !.tests = "RunSelect"]
            \/ forget = [return EXCEPT !.summary = "RunSelect"]
            \/ forget = [return EXCEPT !.help = "RunSelect"]
            \/ forget = [return EXCEPT !.pager = "RunSelect"]
        BY DEF forget
      <4> QED BY <1>s, <3>1, <4>1
    <3>3. return' = forget
      BY <1>18 DEF esc
    <3> QED BY <3>2, <3>3
  <2>3. pager' \in Pager
    <3>1. pager' = leavePager \/ pager' = pager
      BY <1>18 DEF esc
    <3> QED BY <3>1, PagerType
  <2> QED BY <1>18, <2>1, <2>2, <2>3 DEF esc, TypeOK, Pager
<1> QED BY <1>1, <1>2, <1>3, <1>4, <1>5, <1>6, <1>7, <1>8, <1>9, <1>10, <1>11, <1>12, <1>13,
           <1>14, <1>15, <1>16, <1>17, <1>18 DEF Key

-----------------------------------------------------------------------------
(* What is on its way.                                                     *)

\* Nothing in ms matters to the screen that is up, or ever will.
Quiet(ms) == \A x \in ms : ~Fore(x) /\ ~Live(x) /\ x.epoch <= pager.epoch

\* A screen that waits for nothing has nothing on its way.
LEMMA QuietBefore ==
    ASSUME Settled, stage \notin Loading \cup {"Done", "StepPager"}
    PROVE  Quiet(inflight)
<1>1. \A x \in inflight : ~Fore(x)
  BY DEF Settled, ForeInv
<1>2. \A x \in inflight : ~Live(x)
  BY Loadings DEF Settled, StreamInv
<1> QED BY <1>1, <1>2 DEF Settled, EpochInv, Quiet

\* Nor is there anything on its way beside the answer that is awaited.
LEMMA QuietAfter ==
    ASSUME Settled, NEW m \in inflight, Fore(m) \/ Live(m)
    PROVE  Quiet(inflight \ {m})
<1>1. \A x \in inflight : Fore(x) => Fore(m) /\ x = m
  BY DEF Settled, ForeInv, StreamInv
<1>2. \A x \in inflight : Live(x) => Live(m) /\ x = m
  BY DEF Settled, StreamInv
<1> QED BY <1>1, <1>2 DEF Settled, EpochInv, Quiet

\* What does not matter goes on not to matter, unless a stream is opened.
LEMMA QuietStays ==
    ASSUME NEW ms, Quiet(ms), pager'.epoch = pager.epoch
    PROVE  Quiet(ms)'
BY DEF Quiet, Live

\* What belongs to the streams so far is nothing to the next.
LEMMA QuietNext ==
    ASSUME TypeOK, EpochInv, NEW ms \in SUBSET inflight, \A x \in ms : ~Fore(x),
           pager'.epoch = pager.epoch + 1
    PROVE  Quiet(ms)'
<1>1. pager.epoch \in Nat /\ \A x \in ms : x.epoch \in Nat /\ x.epoch <= pager.epoch
  BY DEF TypeOK, EpochInv, Message
<1>2. \A x \in ms : x.epoch # pager'.epoch /\ x.epoch <= pager'.epoch
  BY <1>1
<1> QED BY <1>2 DEF Quiet, Live

\* A fetch is sent from a screen that waits for nothing.
LEMMA OneAsked ==
    ASSUME NEW ms \in SUBSET Message, IsFiniteSet(ms), NEW m \in Message,
           Quiet(ms)', inflight' = ms \cup {fresh(ms, m)},
           Fore(m), m.epoch <= pager'.epoch, Apt(m)',
           stage' \in Loading \ {"LoadingStep"}, Awaits[stage'] = m.kind
    PROVE  Settled'
<1>1. PICK k \in Message \ ms : k = fresh(ms, m)
  BY FreshMessage
<1>2. k.kind = m.kind /\ k.of = m.of /\ k.back = m.back /\ k.epoch = m.epoch
  BY <1>1, FreshMessage
<1>3. Fore(k) /\ ~Live(k)' /\ k.epoch <= pager'.epoch
  BY <1>2 DEF Fore, Live
<1>4. Apt(k)'
  BY <1>2 DEF Apt
<1>5. inflight' = ms \cup {k}
  BY <1>1
<1>6. /\ \A x \in inflight' : Fore(x) => x = k
      /\ \A x \in inflight' : ~Live(x)' /\ x.epoch <= pager'.epoch
  BY <1>3, <1>5 DEF Quiet
<1>7. ForeInv'
  BY <1>2, <1>3, <1>4, <1>5, <1>6 DEF ForeInv
<1>8. PlaceInv'
  BY StageNames DEF PlaceInv
<1>9. StreamInv'
  BY <1>6, StageNames DEF StreamInv
<1>10. EpochInv'
  BY <1>6 DEF EpochInv
<1> QED BY <1>7, <1>8, <1>9, <1>10 DEF Settled

\* A screen that waits for nothing is entered with nothing on its way.
LEMMA QuietPlace ==
    ASSUME NEW ms, Quiet(ms)', inflight' \subseteq ms,
           stage' \notin Loading \cup {"StepPager"}, PlaceInv'
    PROVE  Settled'
<1>1. \A x \in inflight' : ~Fore(x) /\ ~Live(x)' /\ x.epoch <= pager'.epoch
  BY DEF Quiet
<1>2. ForeInv'
  BY <1>1 DEF ForeInv
<1>3. StreamInv'
  BY <1>1, Loadings DEF StreamInv
<1>4. EpochInv'
  BY <1>1 DEF EpochInv
<1> QED BY <1>2, <1>3, <1>4 DEF Settled

\* So is a page that has all of its content.
LEMMA QuietPage ==
    ASSUME NEW ms, Quiet(ms)', inflight' \subseteq ms,
           stage' = "StepPager", pager'.terminal, pager'.stderrDone,
           return'.pager = "StepSelect" =>
               /\ pager'.offset = LogLength
               /\ pager'.buf \in {output', Append(output', <<source', LogLength + 1>>)},
           Fits(under)'
    PROVE  Settled'
<1>1. \A x \in inflight' : ~Fore(x) /\ ~Live(x)' /\ x.epoch <= pager'.epoch
  BY DEF Quiet
<1>2. ForeInv'
  BY <1>1, Loadings DEF ForeInv
<1>3. PlaceInv'
  BY StageNames DEF PlaceInv
<1>4. StreamInv'
  BY <1>1 DEF StreamInv
<1>5. EpochInv'
  BY <1>1 DEF EpochInv
<1> QED BY <1>2, <1>3, <1>4, <1>5 DEF Settled

\* A stream goes on by one message.
LEMMA OneLive ==
    ASSUME NEW ms \in SUBSET Message, IsFiniteSet(ms), NEW m \in Message,
           Quiet(ms)', inflight' = ms \cup {fresh(ms, m)},
           Live(m)', Follows(m)', pager'.epoch \in Nat,
           return'.pager = "StepSelect", Fits("StepSelect")',
           stage' \in {"StepPager", "Done"} \/ (stage' = "LoadingStep" /\ m.kind = "stdout")
    PROVE  Settled'
<1>1. PICK k \in Message \ ms : k = fresh(ms, m)
  BY FreshMessage
<1>2. k.kind = m.kind /\ k.of = m.of /\ k.epoch = m.epoch /\ k.offset = m.offset
  BY <1>1, FreshMessage
<1>3. Live(k)' /\ ~Fore(k) /\ k.epoch <= pager'.epoch
  BY <1>2 DEF Fore, Live
<1>4. Follows(k)'
  BY <1>2 DEF Follows
<1>5. inflight' = ms \cup {k}
  BY <1>1
<1>6. \A x \in inflight' : ~Fore(x) /\ (Live(x)' => x = k) /\ x.epoch <= pager'.epoch
  BY <1>3, <1>5 DEF Quiet
<1>7. ForeInv'
  BY <1>6, Loadings DEF ForeInv
<1>8. PlaceInv'
  <2>1. under' = "StepSelect"
    BY DEF under
  <2>2. Fits(under)'
    BY <2>1 DEF Fits, Back
  <2> QED BY <2>2, Loadings DEF PlaceInv, Pickers
<1>9. StreamInv'
  BY <1>2, <1>3, <1>4, <1>5, <1>6 DEF StreamInv
<1>10. EpochInv'
  BY <1>6 DEF EpochInv
<1> QED BY <1>7, <1>8, <1>9, <1>10 DEF Settled

-----------------------------------------------------------------------------
(* Keys.                                                                   *)

\* What a screen shows stays right while what it is about stays as it is.
LEMMA FitsSame ==
    ASSUME NEW s, Fits(s), data' = data,
           sel'.run = sel.run, sel'.workflow = sel.workflow, sel'.job = sel.job,
           sel'.execution = sel.execution,
           return'.tests = return.tests, return'.artifacts = return.artifacts
    PROVE  Fits(s)'
BY DEF Fits, Back, JobShown, FlowShown, RunShown

\* A screen that waits for nothing may ask for one thing.
LEMMA AsksFor ==
    ASSUME TypeOK, Settled, stage \notin Loading \cup {"Done", "StepPager"}, pager' = pager,
           NEW l \in Loading \ {"LoadingStep"}, NEW m \in Message, fetch(l, m),
           m.kind = Awaits[l], m.epoch = 0, Apt(m)'
    PROVE  Settled'
<1>1. PICK ms : ms = inflight
  OBVIOUS
<1>2. ms \subseteq Message /\ IsFiniteSet(ms) /\ pager.epoch \in Nat
  BY <1>1 DEF TypeOK
<1>3. Quiet(ms)
  BY <1>1, QuietBefore
<1>4. Quiet(ms)'
  BY <1>3, QuietStays
<1>5. stage' = l /\ inflight' = ms \cup {fresh(ms, m)}
  BY <1>1 DEF fetch, Send
<1>6. Fore(m) /\ m.epoch <= pager'.epoch
  BY <1>2, Loadings DEF Fore
<1> QED BY <1>2, <1>4, <1>5, <1>6, OneAsked

\* The same for what is asked for by name.
LEMMA AsksForName ==
    ASSUME TypeOK, Settled, stage \notin Loading \cup {"Done", "StepPager"}, pager' = pager,
           NEW l \in Loading \ {"LoadingStep"}, NEW of \in Names, fetch(l, msg(Awaits[l], of)),
           \A m \in Message : m.kind = Awaits[l] /\ m.of = of => Apt(m)'
    PROVE  Settled'
<1>1. Awaits[l] \in Plain
  BY Loadings DEF Plain
<1>2. PICK m \in Message : m = msg(Awaits[l], of)
  BY <1>1, MsgType
<1>3. m.kind = Awaits[l] /\ m.of = of /\ m.epoch = 0
  BY <1>1, <1>2, MsgType
<1> QED BY <1>2, <1>3, AsksFor

\* Picking from a list that is right asks for the right list.
LEMMA PickKeys ==
    ASSUME TypeOK, Settled, changeFilter \/ pickRun \/ pickWorkflow \/ pickJob
    PROVE  Settled'
<1> USE Loadings
<1>n. Filters \cup Runs \cup Workflows \cup Jobs \subseteq Names
  BY DEF Names
<1>s. sel \in [filter: Names, run: Names, workflow: Names, job: Names, execution: 0..2,
               step: Names]
  BY DEF TypeOK
<1>q. stage \in {"RunSelect", "RunFilter", "WorkflowSelect", "JobSelect"}
  BY DEF changeFilter, pickRun, pickWorkflow, pickJob
<1>p. pager' = pager /\ data' = data
  BY DEF changeFilter, pickRun, pickWorkflow, pickJob, unmoved
<1>f. Fits(stage) \/ stage = "RunFilter"
  BY <1>q DEF Settled, PlaceInv, Pickers
<1>1. CASE changeFilter
  <2>1. PICK f \in Filters : fetch("LoadingRuns", msg("runs", f))
    BY <1>1 DEF changeFilter
  <2>2. \A m \in Message : m.kind = "runs" /\ m.of = f => Apt(m)'
    BY DEF Apt
  <2> QED BY <1>n, <1>q, <1>p, <2>1, <2>2, AsksForName
<1>2. CASE pickRun
  <2>1. PICK r \in Runs : /\ sel' = [sel EXCEPT !.run = r]
                          /\ fetch("LoadingWorkflows", msg("workflows", r))
    BY <1>2 DEF pickRun
  <2>2. sel'.run = r
    BY <1>s, <2>1
  <2>3. \A m \in Message : m.kind = "workflows" /\ m.of = r => Apt(m)'
    BY <2>2 DEF Apt
  <2> QED BY <1>n, <1>q, <1>p, <2>1, <2>3, AsksForName
<1>3. CASE pickWorkflow
  <2>1. PICK w \in Workflows : /\ RunOf[w] = data.workflows
                               /\ sel' = [sel EXCEPT !.workflow = w]
                               /\ fetch("LoadingJobs", msg("jobs", w))
    BY <1>3 DEF pickWorkflow
  <2>2. sel'.run = sel.run /\ sel'.workflow = w
    BY <1>s, <2>1
  <2>3. RunShown
    BY <1>3, <1>f DEF pickWorkflow, Fits
  <2>4. \A m \in Message : m.kind = "jobs" /\ m.of = w => Apt(m)'
    BY <1>p, <2>1, <2>2, <2>3 DEF Apt, RunShown
  <2> QED BY <1>n, <1>q, <1>p, <2>1, <2>4, AsksForName
<1>4. CASE pickJob
  <2>1. PICK j \in Jobs : /\ WorkflowOf[j] = data.jobs
                          /\ sel' = [sel EXCEPT !.job = j]
                          /\ fetch("LoadingExecutions", msg("executions", j))
    BY <1>4 DEF pickJob
  <2>2. sel'.run = sel.run /\ sel'.workflow = sel.workflow /\ sel'.job = j
    BY <1>s, <2>1
  <2>3. FlowShown
    BY <1>4, <1>f DEF pickJob, Fits
  <2>4. \A m \in Message : m.kind = "executions" /\ m.of = j => Apt(m)'
    BY <1>p, <2>1, <2>2, <2>3 DEF Apt, FlowShown, RunShown
  <2> QED BY <1>n, <1>q, <1>p, <2>1, <2>4, AsksForName
<1> QED BY <1>1, <1>2, <1>3, <1>4

\* So does asking again for what is picked, and the side trips.
LEMMA RefreshKeys ==
    ASSUME TypeOK, Settled, refresh \/ openSummary
    PROVE  Settled'
<1> USE Loadings
<1>s. sel.run \in Names /\ sel.workflow \in Names /\ sel.job \in Names
  BY DEF TypeOK
<1>q. stage \in {"WorkflowSelect", "JobSelect", "ExecutionSelect", "StepSelect", "TestSelect",
                 "ArtifactBrowse"}
  BY DEF refresh, openSummary, offersMeta
<1>p. pager' = pager /\ data' = data /\ sel' = sel /\ return' = return
  BY DEF refresh, openSummary, unmoved
<1>f. Fits(stage)
  BY <1>q DEF Settled, PlaceInv, Pickers
<1>1. CASE refresh
  <2>1. CASE stage = "WorkflowSelect" /\ fetch("LoadingWorkflows", msg("workflows", sel.run))
    <3>1. PICK of \in Names : of = sel.run
      BY <1>s
    <3>2. \A m \in Message : m.kind = "workflows" /\ m.of = of => Apt(m)'
      BY <1>p, <3>1 DEF Apt
    <3> QED BY <1>q, <1>p, <2>1, <3>1, <3>2, AsksForName
  <2>2. CASE stage = "JobSelect" /\ fetch("LoadingJobs", msg("jobs", sel.workflow))
    <3>1. PICK of \in Names : of = sel.workflow
      BY <1>s
    <3>2. FlowShown
      BY <1>f, <2>2 DEF Fits
    <3>3. \A m \in Message : m.kind = "jobs" /\ m.of = of => Apt(m)'
      BY <1>p, <3>1, <3>2 DEF Apt, FlowShown, RunShown
    <3> QED BY <1>q, <1>p, <2>2, <3>1, <3>3, AsksForName
  <2>3. CASE /\ stage \in {"ExecutionSelect", "StepSelect"}
             /\ fetch("LoadingExecutions", msg("executions", sel.job))
    <3>1. PICK of \in Names : of = sel.job
      BY <1>s
    <3>2. JobShown
      BY <1>f, <2>3 DEF Fits, Back
    <3>3. \A m \in Message : m.kind = "executions" /\ m.of = of => Apt(m)'
      BY <1>p, <3>1, <3>2 DEF Apt, JobShown, FlowShown, RunShown
    <3> QED BY <1>q, <1>p, <2>3, <3>1, <3>3, AsksForName
  <2>4. CASE stage = "TestSelect" /\ fetch("LoadingTests", msg("tests", sel.job))
    <3>1. PICK of \in Names : of = sel.job
      BY <1>s
    <3>2. Fits("TestSelect")'
      BY <1>f, <1>p, <2>4, FitsSame
    <3>3. \A m \in Message : m.kind = "tests" /\ m.of = of => Apt(m)'
      BY <3>2 DEF Apt
    <3> QED BY <1>q, <1>p, <2>4, <3>1, <3>3, AsksForName
  <2>5. CASE stage = "ArtifactBrowse" /\ fetch("LoadingArtifacts", msg("artifacts", sel.job))
    <3>1. PICK of \in Names : of = sel.job
      BY <1>s
    <3>2. Fits("ArtifactBrowse")'
      BY <1>f, <1>p, <2>5, FitsSame
    <3>3. \A m \in Message : m.kind = "artifacts" /\ m.of = of => Apt(m)'
      BY <1>p, <3>1, <3>2 DEF Apt, Fits
    <3> QED BY <1>q, <1>p, <2>5, <3>1, <3>3, AsksForName
  <2> QED BY <1>1, <2>1, <2>2, <2>3, <2>4, <2>5 DEF refresh
<1>2. CASE openSummary
  <2>1. PICK back \in Stages : back = stage
    BY DEF TypeOK
  <2>2. PICK m \in Message : m = cmdFetchSummary(back)
    BY MsgType
  <2>3. m.kind = "summary" /\ m.back = back /\ m.epoch = 0
    BY <2>2, MsgType
  <2>4. Fits(back)
    BY <1>f, <2>1
  <2>5. Fits(back)'
    BY <1>p, <2>4, FitsSame
  <2>6. Apt(m)'
    BY <2>3, <2>5 DEF Apt
  <2>7. fetch("LoadingSummary", m)
    BY <1>2, <2>1, <2>2 DEF openSummary
  <2> QED BY <1>q, <1>p, <2>3, <2>6, <2>7, AsksFor
<1> QED BY <1>1, <1>2

\* And the trips aside to the tests and the artifacts.
LEMMA AsideKeys ==
    ASSUME TypeOK, Settled,
           enterFailedTests \/ enterArtifacts \/ openArtifactFile \/ artifactConfirmKey
    PROVE  Settled'
<1> USE Loadings
<1>s. sel.job \in Names /\ data.artifacts \in Names
  BY DEF TypeOK
<1>r. return \in [tests: Stages, artifacts: Stages, summary: Stages, help: Stages, pager: Stages]
  BY DEF TypeOK
<1>q. stage \in {"ExecutionSelect", "StepSelect", "ArtifactBrowse"}
  BY DEF enterFailedTests, enterArtifacts, openArtifactFile, artifactConfirmKey, offersMeta
<1>p. pager' = pager /\ data' = data /\ sel' = sel
  BY DEF enterFailedTests, enterArtifacts, openArtifactFile, artifactConfirmKey, unmoved
<1>f. Fits(stage)
  BY <1>q DEF Settled, PlaceInv, Pickers
<1>1. CASE enterFailedTests \/ enterArtifacts
  <2>1. PICK of \in Names : of = sel.job
    BY <1>s
  <2>2. PICK s : s = stage /\ s \in {"ExecutionSelect", "StepSelect"}
    BY <1>1 DEF enterFailedTests, enterArtifacts, offersMeta
  <2>3. Back(s)
    BY <1>f, <2>2 DEF Fits
  <2>4. Back(s)'
    BY <1>p, <2>3 DEF Back, JobShown, FlowShown, RunShown
  <2>5. CASE enterFailedTests
    <3>1. return'.tests = s
      BY <1>r, <2>2, <2>5 DEF enterFailedTests
    <3>2. Back(return.tests)'
      BY <2>4, <3>1 DEF Back
    <3>3. \A m \in Message : m.kind = "tests" /\ m.of = of => Apt(m)'
      BY <3>2 DEF Apt, Fits, Pickers
    <3>4. fetch("LoadingTests", msg("tests", of))
      BY <2>1, <2>5 DEF enterFailedTests
    <3> QED BY <1>q, <1>p, <3>3, <3>4, AsksForName
  <2>6. CASE enterArtifacts
    <3>1. return'.artifacts = s
      BY <1>r, <2>2, <2>6 DEF enterArtifacts
    <3>2. Back(return.artifacts)'
      BY <2>4, <3>1 DEF Back
    <3>3. \A m \in Message : m.kind = "artifacts" /\ m.of = of => Apt(m)'
      BY <1>p, <2>1, <3>2 DEF Apt
    <3>4. fetch("LoadingArtifacts", msg("artifacts", of))
      BY <2>1, <2>6 DEF enterArtifacts
    <3> QED BY <1>q, <1>p, <3>3, <3>4, AsksForName
  <2> QED BY <1>1, <2>5, <2>6
<1>2. CASE openArtifactFile \/ artifactConfirmKey
  <2>1. stage = "ArtifactBrowse" /\ return' = return
    BY <1>2 DEF openArtifactFile, artifactConfirmKey, unmoved
  <2>2. Fits("ArtifactBrowse")'
    BY <1>f, <1>p, <2>1, FitsSame
  <2>3. PICK of \in Names : of = data.artifacts
    BY <1>s
  <2>4. \A m \in Message : m.kind \in {"file", "download"} /\ m.of = of => Apt(m)'
    BY <2>2 DEF Apt
  <2>5. CASE fetch("LoadingArtifactFile", msg("file", data.artifacts))
    BY <1>q, <1>p, <2>3, <2>4, <2>5, AsksForName
  <2>6. CASE fetch("DownloadingArtifacts", msg("download", data.artifacts))
    BY <1>q, <1>p, <2>3, <2>4, <2>6, AsksForName
  <2>7. CASE UNCHANGED <<stage, inflight>>
    <3>1. PICK ms : ms = inflight
      OBVIOUS
    <3>2. Quiet(ms)
      BY <2>1, <3>1, QuietBefore
    <3>3. Quiet(ms)'
      BY <1>p, <3>2, QuietStays
    <3>4. PlaceInv'
      BY <2>1, <2>2, <2>7 DEF PlaceInv
    <3> QED BY <2>1, <2>7, <3>1, <3>3, <3>4, QuietPlace
  <2> QED BY <1>2, <2>5, <2>6, <2>7 DEF openArtifactFile, artifactConfirmKey
<1> QED BY <1>1, <1>2

\* Keys that ask for nothing lead to what is right already.
LEMMA MoveKeys ==
    ASSUME TypeOK, Settled,
           openHelp \/ openRunFilter \/ pickExecution \/ askArtifactDownload
             \/ openArtifactInBrowser
    PROVE  Settled'
<1> USE Loadings
<1>t. /\ sel \in [filter: Names, run: Names, workflow: Names, job: Names, execution: 0..2,
                  step: Names]
      /\ data \in [runs: Names, workflows: Names, jobs: Names, executions: Names, n: 0..2,
                   steps: Names, artifacts: Names]
      /\ return \in [tests: Stages, artifacts: Stages, summary: Stages, help: Stages,
                     pager: Stages]
  BY DEF TypeOK
<1>q. stage \in Pickers
  BY DEF openHelp, openRunFilter, pickExecution, askArtifactDownload, openArtifactInBrowser, Pickers
<1>p. pager' = pager
  BY DEF openHelp, openRunFilter, pickExecution, askArtifactDownload, openArtifactInBrowser, unmoved
<1>f. Fits(stage)
  BY <1>q DEF Settled, PlaceInv
<1>k. PICK ms : ms = inflight
  OBVIOUS
<1>m. Quiet(ms)
  BY <1>q, <1>k, QuietBefore DEF Pickers
<1>n. Quiet(ms)'
  BY <1>p, <1>m, QuietStays
<1>1. CASE openHelp
  <2>1. PICK s : s = stage
    OBVIOUS
  <2>2. return'.help = s /\ return'.tests = return.tests /\ return'.artifacts = return.artifacts
    BY <1>1, <1>t, <2>1 DEF openHelp
  <2>3. Fits(s)'
    BY <1>1, <1>f, <2>1, <2>2, FitsSame DEF openHelp
  <2>4. Fits(return.help)'
    BY <2>2, <2>3 DEF Fits, Back
  <2>5. PlaceInv'
    BY <1>1, <2>4 DEF openHelp, PlaceInv, Pickers
  <2> QED BY <1>1, <1>k, <1>n, <2>5, QuietPlace DEF openHelp
<1>2. CASE openRunFilter
  <2>1. PlaceInv'
    BY <1>2 DEF openRunFilter, PlaceInv, Pickers
  <2> QED BY <1>2, <1>k, <1>n, <2>1, QuietPlace DEF openRunFilter
<1>3. CASE pickExecution
  <2>1. PICK e \in 1..data.n : sel' = [sel EXCEPT !.execution = e]
    BY <1>3 DEF pickExecution
  <2>2. /\ sel'.run = sel.run /\ sel'.workflow = sel.workflow /\ sel'.job = sel.job
        /\ sel'.execution = e
    BY <1>t, <2>1
  <2>3. /\ data'.workflows = data.workflows /\ data'.jobs = data.jobs
        /\ data'.executions = data.executions /\ data'.n = data.n
        /\ data'.steps = data.executions
    BY <1>3, <1>t DEF pickExecution
  <2>4. JobShown
    BY <1>3, <1>f DEF pickExecution, Fits, Back
  <2>5. Fits("StepSelect")'
    BY <2>2, <2>3, <2>4 DEF Fits, Back, JobShown, FlowShown, RunShown, Pickers
  <2>6. PlaceInv'
    BY <1>3, <2>5 DEF pickExecution, PlaceInv
  <2> QED BY <1>3, <1>k, <1>n, <2>6, QuietPlace DEF pickExecution
<1>4. CASE askArtifactDownload
  <2>1. Fits("ArtifactBrowse")'
    BY <1>4, <1>f, FitsSame DEF askArtifactDownload
  <2>2. PlaceInv'
    BY <1>4, <2>1 DEF askArtifactDownload, PlaceInv
  <2> QED BY <1>4, <1>k, <1>n, <2>2, QuietPlace DEF askArtifactDownload
<1>5. CASE openArtifactInBrowser
  <2>1. Fits("ArtifactBrowse")'
    BY <1>5, <1>f, FitsSame DEF openArtifactInBrowser, unmoved
  <2>2. PlaceInv'
    BY <1>5, <2>1 DEF openArtifactInBrowser, PlaceInv
  <2>3. PICK of \in Names : of = data.artifacts
    BY <1>t
  <2>4. PICK m \in Message : m = msg("opened", of)
    BY MsgType DEF Plain
  <2>5. m.kind = "opened" /\ m.epoch = 0
    BY <2>4, MsgType DEF Plain
  <2>6. ms \in SUBSET Message /\ IsFiniteSet(ms) /\ pager.epoch \in Nat
    BY <1>k DEF TypeOK
  <2>7. PICK k : k = fresh(ms, m)
    OBVIOUS
  <2>8. k.kind = "opened" /\ k.epoch = 0
    BY <2>5, <2>6, <2>7, FreshMessage
  <2>9. Quiet(ms \cup {k})'
    BY <1>n, <1>p, <2>6, <2>8 DEF Quiet, Fore, Live
  <2>10. inflight' = ms \cup {k}
    BY <1>5, <1>k, <2>3, <2>4, <2>7 DEF openArtifactInBrowser, Send
  <2> QED BY <1>5, <2>2, <2>9, <2>10, QuietPlace DEF openArtifactInBrowser
<1> QED BY <1>1, <1>2, <1>3, <1>4, <1>5

\* What esc leads to is right: a picker is, if those below it are.
LEMMA EscFits ==
    ASSUME TypeOK, Settled, esc
    PROVE  Fits(parent)
<1>f. stage \in Pickers => Fits(stage)
  BY DEF Settled, PlaceInv
<1>1. CASE stage = "WorkflowSelect"
  BY <1>1 DEF parent, Fits, Pickers
<1>2. CASE stage = "JobSelect"
  <2>1. parent = "WorkflowSelect"
    BY <1>2 DEF parent
  <2>2. RunShown
    BY <1>2, <1>f DEF Fits, Pickers, FlowShown
  <2> QED BY <2>1, <2>2 DEF Fits, Pickers
<1>3. CASE stage = "ExecutionSelect"
  <2>1. parent = "JobSelect"
    BY <1>3 DEF parent
  <2>2. FlowShown
    BY <1>3, <1>f DEF Fits, Back, JobShown, Pickers
  <2> QED BY <2>1, <2>2 DEF Fits, Pickers
<1>4. CASE stage = "StepSelect"
  <2>1. parent = IF data.n > 1 THEN "ExecutionSelect" ELSE "JobSelect"
    BY <1>4 DEF parent, aboveSteps
  <2>2. JobShown
    BY <1>4, <1>f DEF Fits, Back, Pickers
  <2> QED BY <2>1, <2>2 DEF Fits, Back, JobShown, Pickers
<1>5. CASE stage = "TestSelect"
  <2>1. parent = IF return.tests = "ExecutionSelect" THEN "ExecutionSelect" ELSE "StepSelect"
    BY <1>5 DEF parent
  <2>2. Back(return.tests)
    BY <1>5, <1>f DEF Fits, Pickers
  <2> QED BY <2>1, <2>2 DEF Fits, Back, Pickers
<1>6. CASE stage = "ArtifactBrowse"
  <2>1. parent = IF return.artifacts = "ExecutionSelect" THEN "ExecutionSelect" ELSE "StepSelect"
    BY <1>6 DEF parent
  <2>2. Back(return.artifacts)
    BY <1>6, <1>f DEF Fits, Pickers
  <2> QED BY <2>1, <2>2 DEF Fits, Back, Pickers
<1>7. CASE stage = "StepPager"
  <2>1. parent = under
    BY <1>7 DEF parent, under
  <2>2. Fits(under)
    BY <1>7 DEF Settled, PlaceInv
  <2> QED BY <2>1, <2>2
<1>8. CASE stage = "SummaryPager"
  <2>1. parent = return.summary
    BY <1>8 DEF parent
  <2> QED BY <1>8, <2>1 DEF Settled, PlaceInv
<1>9. CASE stage = "Help"
  <2>1. parent = return.help
    BY <1>9 DEF parent
  <2> QED BY <1>9, <2>1 DEF Settled, PlaceInv
<1>10. CASE stage = "RunFilter"
  BY <1>10 DEF parent, Fits, Pickers
<1> QED BY <1>1, <1>2, <1>3, <1>4, <1>5, <1>6, <1>7, <1>8, <1>9, <1>10 DEF esc, Pickers

\* esc, which leaves a stream for good where it leaves the pager.
LEMMA EscKey ==
    ASSUME TypeOK, Settled, esc
    PROVE  Settled'
<1> USE Loadings
<1>t. return \in [tests: Stages, artifacts: Stages, summary: Stages, help: Stages, pager: Stages]
  BY DEF TypeOK
<1>1. PICK s : s = parent
  OBVIOUS
<1>2. Fits(s) /\ s \in Pickers
  BY <1>1, EscFits DEF Fits
<1>3. Fits(s)'
  <2>1. CASE stage = "TestSelect"
    <3>1. s \in {"ExecutionSelect", "StepSelect"}
      BY <1>1, <2>1 DEF parent
    <3> QED BY <1>2, <3>1 DEF esc, Fits, Back, JobShown, FlowShown, RunShown
  <2>2. CASE stage # "TestSelect"
    <3>1. return'.tests = return.tests /\ return'.artifacts = return.artifacts
      BY <1>t, <2>2 DEF esc, forget
    <3> QED BY <1>2, <3>1, FitsSame DEF esc
  <2> QED BY <2>1, <2>2
<1>4. stage' = s
  BY <1>1 DEF esc
<1>5. PlaceInv'
  BY <1>2, <1>3, <1>4 DEF PlaceInv, Pickers
<1>6. PICK ms : ms = inflight
  OBVIOUS
<1>7. Quiet(ms)'
  <2>1. CASE stage = "StepPager"
    <3>1. \A x \in ms : ~Fore(x)
      BY <1>6, <2>1 DEF Settled, ForeInv
    <3>2. pager'.epoch = pager.epoch + 1
      BY <2>1 DEF esc, leavePager
    <3> QED BY <1>6, <3>1, <3>2, QuietNext DEF Settled
  <2>2. CASE stage # "StepPager"
    <3>1. stage \notin Loading \cup {"Done", "StepPager"}
      BY <2>2 DEF esc, Pickers
    <3>2. Quiet(ms)
      BY <1>6, <3>1, QuietBefore
    <3>3. pager' = pager
      BY <2>2 DEF esc
    <3> QED BY <3>2, <3>3, QuietStays
  <2> QED BY <2>1, <2>2
<1>8. stage' \notin Loading \cup {"StepPager"} /\ inflight' \subseteq ms
  BY <1>2, <1>4, <1>6 DEF Pickers, esc
<1> QED BY <1>5, <1>7, <1>8, QuietPlace

\* A page of fixed content over a picker that is right.
LEMMA StaticPage ==
    ASSUME TypeOK, EpochInv, NEW ms \in SUBSET inflight, \A x \in ms : ~Fore(x),
           NEW back \in {"TestSelect", "ArtifactBrowse"}, Fits(back), openStatic(back),
           inflight' \subseteq ms, sel' = sel, data' = data
    PROVE  Settled'
<1>t. /\ return \in [tests: Stages, artifacts: Stages, summary: Stages, help: Stages,
                     pager: Stages]
      /\ pager \in [epoch: Nat, buf: Seq(Sources \X Nat), offset: Nat, terminal: BOOLEAN,
                    stderrDone: BOOLEAN, fetching: BOOLEAN]
  BY DEF TypeOK
<1>1. /\ return'.pager = back /\ return'.tests = return.tests
      /\ return'.artifacts = return.artifacts
  BY <1>t DEF openStatic
<1>2. /\ pager'.epoch = pager.epoch + 1 /\ pager'.terminal /\ pager'.stderrDone
      /\ stage' = "StepPager"
  BY <1>t DEF openStatic
<1>3. Quiet(ms)'
  BY <1>2, QuietNext
<1>4. Fits(back)'
  BY <1>1, FitsSame
<1>5. under' = back
  BY <1>1 DEF under
<1>6. Fits(under)'
  BY <1>4, <1>5 DEF Fits, Back
<1> QED BY <1>1, <1>2, <1>3, <1>6, QuietPage

\* A test's message is a page over the tests.
LEMMA TestKey ==
    ASSUME TypeOK, Settled, openTestMessage
    PROVE  Settled'
<1>1. stage = "TestSelect" /\ openStatic("TestSelect") /\ UNCHANGED <<sel, data, inflight>>
  BY DEF openTestMessage
<1>2. Fits("TestSelect")
  BY <1>1 DEF Settled, PlaceInv, Pickers
<1>3. PICK ms : ms = inflight
  OBVIOUS
<1>4. \A x \in ms : ~Fore(x)
  BY <1>1, <1>3, Loadings DEF Settled, ForeInv
<1>5. inflight' \subseteq ms /\ ms \subseteq inflight
  BY <1>1, <1>3
<1> QED BY <1>1, <1>2, <1>4, <1>5, StaticPage DEF Settled

\* The step that is picked is asked for from its start.
LEMMA StepKey ==
    ASSUME TypeOK, TypeOK', Settled, pickStep
    PROVE  Settled'
<1> USE Loadings
<1>t. /\ sel \in [filter: Names, run: Names, workflow: Names, job: Names, execution: 0..2,
                  step: Names]
      /\ return \in [tests: Stages, artifacts: Stages, summary: Stages, help: Stages,
                     pager: Stages]
      /\ pager \in [epoch: Nat, buf: Seq(Sources \X Nat), offset: Nat, terminal: BOOLEAN,
                    stderrDone: BOOLEAN, fetching: BOOLEAN]
  BY DEF TypeOK
<1>1. PICK s \in Steps :
         /\ sel' = [sel EXCEPT !.step = s]
         /\ Send([msg("stdout", source') EXCEPT !.epoch = pager.epoch + 1, !.offset = 0])
  BY DEF pickStep
<1>2. /\ stage = "StepSelect" /\ stage' = "LoadingStep" /\ pager' = startStepStream
      /\ return' = [return EXCEPT !.pager = "StepSelect"] /\ data' = data
  BY DEF pickStep
<1>3. /\ return'.pager = "StepSelect" /\ return'.tests = return.tests
      /\ return'.artifacts = return.artifacts
  BY <1>t, <1>2
<1>4. /\ pager'.epoch = pager.epoch + 1 /\ pager'.buf = <<>> /\ pager'.offset = 0
      /\ ~pager'.terminal /\ ~pager'.stderrDone /\ pager'.fetching
  BY <1>t, <1>2 DEF startStepStream
<1>5. /\ sel'.run = sel.run /\ sel'.workflow = sel.workflow /\ sel'.job = sel.job
      /\ sel'.execution = sel.execution
  BY <1>t, <1>1
<1>6. Fits("StepSelect")
  BY <1>2 DEF Settled, PlaceInv, Pickers
<1>7. Fits("StepSelect")'
  BY <1>2, <1>3, <1>5, <1>6, FitsSame
<1>8. PICK ms : ms = inflight
  OBVIOUS
<1>9. /\ \A x \in ms : ~Fore(x)
      /\ ms \subseteq Message /\ IsFiniteSet(ms)
  BY <1>2, <1>8 DEF Settled, ForeInv, TypeOK
<1>10. Quiet(ms)'
  BY <1>4, <1>8, <1>9, QuietNext DEF Settled
<1>11. PICK e \in Nat : e = pager.epoch + 1
  BY <1>t
<1>12. PICK of \in Sources : of = source'
  BY DEF TypeOK, source, Sources
<1>13. "Done" \in Stages
  BY DEF Stages
<1>14. PICK m : m = [msg("stdout", of) EXCEPT !.epoch = e, !.offset = 0]
  OBVIOUS
<1>15. m \in Message /\ m.kind = "stdout" /\ m.of = of /\ m.epoch = e /\ m.offset = 0
  BY <1>13, <1>14 DEF msg, Message
<1>16. inflight' = ms \cup {fresh(ms, m)}
  BY <1>1, <1>8, <1>11, <1>12, <1>14 DEF Send, msg
<1>17. Live(m)' /\ pager'.epoch \in Nat
  BY <1>4, <1>11, <1>15 DEF Live
<1>18. output' = <<>>
  <2>1. output' = [i \in 1..0 |-> <<source', i>>]
    BY <1>4 DEF output
  <2> QED BY <2>1
<1>19. Follows(m)'
  BY <1>4, <1>12, <1>15, <1>18, FlowAssumption DEF Follows
<1> QED BY <1>2, <1>3, <1>7, <1>9, <1>10, <1>15, <1>16, <1>17, <1>19, OneLive

\* A flow that is quit stays right for the answer that finds it.
LEMMA QuitKey ==
    ASSUME TypeOK, Settled, quit
    PROVE  Settled'
<1> USE Loadings
<1>1. /\ stage' = "Done" /\ inflight' = inflight \cup {blank}
      /\ UNCHANGED <<sel, data, return, pager>>
  BY DEF quit
<1>2. blank.kind = "quit" /\ blank.epoch <= pager.epoch
  BY MsgType DEF TypeOK
<1>3. PICK b : b = blank /\ ~Fore(b) /\ b.kind = "quit" /\ b.epoch <= pager.epoch
  BY <1>2 DEF Fore
<1>4. \A x : Live(x)' <=> Live(x)
  BY <1>1 DEF Live
<1>5. ~Live(b)
  BY <1>3 DEF Live
<1>6. \A s : Fits(s) => Fits(s)'
  BY <1>1 DEF Fits, Back, JobShown, FlowShown, RunShown
<1>7. \A x : Apt(x) => Apt(x)'
  BY <1>1, <1>6 DEF Apt, Back, JobShown, FlowShown, RunShown
<1>8. \A x : Follows(x) => Follows(x)'
  BY <1>1 DEF Follows, output, source
<1>9. ForeInv'
  <2>1. \A x \in inflight' : Fore(x) => x \in inflight
    BY <1>1, <1>3
  <2> QED BY <1>1, <1>7, <2>1 DEF Settled, ForeInv
<1>10. PlaceInv'
  BY <1>1 DEF PlaceInv, Pickers
<1>11. StreamInv'
  <2>1. \A x \in inflight' : Live(x)' => x \in inflight /\ Live(x)
    BY <1>1, <1>3, <1>4, <1>5
  <2>2. \A x \in inflight' : x \in inflight \/ ~Fore(x)
    BY <1>1, <1>3
  <2>3. Fits("StepSelect") => Fits("StepSelect")'
    BY <1>6
  <2> QED BY <1>1, <1>8, <2>1, <2>2, <2>3 DEF Settled, StreamInv
<1>12. EpochInv'
  BY <1>1, <1>3 DEF Settled, EpochInv
<1> QED BY <1>9, <1>10, <1>11, <1>12 DEF Settled

\* Every key keeps all that is known, and the flow goes on.
LEMMA KeyStep ==
    ASSUME TypeOK, TypeOK', goesOn, Settled, Key
    PROVE  goesOn' /\ Settled'
<1>1. goesOn'
  BY DEF goesOn, Key, quit, openHelp, esc, refresh, changeFilter, openRunFilter, pickRun,
         pickWorkflow, pickJob, pickExecution, pickStep, openSummary, enterFailedTests,
         enterArtifacts, openTestMessage, openArtifactFile, askArtifactDownload,
         artifactConfirmKey, openArtifactInBrowser, unmoved
<1> QED BY <1>1, PickKeys, RefreshKeys, AsideKeys, MoveKeys, EscKey, TestKey, StepKey, QuitKey
        DEF Key

-----------------------------------------------------------------------------
(* Messages.                                                               *)

LEMMA MessageFields ==
    ASSUME NEW m \in Message
    PROVE  /\ m.back \in Stages /\ m.epoch \in Nat /\ m.offset \in Nat
           /\ m.kind \in {"stdout", "stderr"} => m.of \in Sources
           /\ m.kind \in Plain => m.of \in Names
           /\ m.kind \in Plain \cup {"stdout", "stderr"}
BY DEF Message, Plain

\* Chunks are sources with a number.
LEMMA ChunksType ==
    ASSUME NEW m \in Message, m.kind = "stdout", NEW n \in Nat
    PROVE  chunks(m, n) \in Seq(Sources \X Nat) /\ Len(chunks(m, n)) = n
<1>1. m.of \in Sources /\ m.offset \in Nat
  BY MessageFields
<1>2. \A i \in 1..n : <<m.of, m.offset + i>> \in Sources \X Nat
  BY <1>1
<1> QED BY <1>2 DEF chunks

\* What the stream's handlers make of the pager.
LEMMA StreamType ==
    ASSUME TypeOK, NEW m \in inflight, onStepStdout(m) \/ onStepStderr(m) \/ onStepPoll(m)
    PROVE  TypeOK'
<1> DEFINE B == Seq(Sources \X Nat)
<1>m. m \in Message /\ "StepPager" \in Stages
  BY DEF TypeOK, Stages
<1>p. /\ pager \in [epoch: Nat, buf: B, offset: Nat, terminal: BOOLEAN, stderrDone: BOOLEAN,
                    fetching: BOOLEAN]
      /\ LogLength \in Nat
  BY FlowAssumption DEF TypeOK
<1>1. PICK ms \in SUBSET inflight : ms = inflight \ {m}
  OBVIOUS
<1>i. ASSUME \/ inflight' = ms
             \/ \E r \in Message : inflight' = ms \cup {fresh(ms, r)}
      PROVE  inflight' \subseteq Message /\ IsFiniteSet(inflight')
  BY <1>i, <1>m, InflightType
<1>2. CASE onStepStdout(m)
  <2>1. PICK n \in 0..(LogLength - m.offset), ends \in BOOLEAN :
           /\ pager' = [pager EXCEPT !.buf = @ \o chunks(m, n), !.offset = @ + n,
                                     !.terminal = ends, !.fetching = ends /\ ~pager.stderrDone]
           /\ afterStdout(m, n, ends)
    BY <1>2 DEF onStepStdout
  <2>o. m.offset \in Int /\ LogLength \in Int
    BY <1>m, <1>p, MessageFields
  <2>n. n \in Nat
    BY <2>o, <2>1
  <2>2. n \in Nat /\ m.kind = "stdout"
    BY <1>2, <2>n DEF onStepStdout
  <2>3. pager.buf \o chunks(m, n) \in B
    BY <1>m, <1>p, <2>2, ChunksType, ConcatProperties
  <2>4. PICK b \in B : b = pager.buf \o chunks(m, n)
    BY <2>3
  <2>5. PICK o \in Nat : o = pager.offset + n
    BY <1>p, <2>2
  <2>6. PICK f \in BOOLEAN : f = (ends /\ ~pager.stderrDone)
    OBVIOUS
  <2> HIDE DEF B
  <2>7. pager' = [pager EXCEPT !.buf = b, !.offset = o, !.terminal = ends, !.fetching = f]
    BY <2>1, <2>4, <2>5, <2>6
  <2>8. pager' \in [epoch: Nat, buf: B, offset: Nat, terminal: BOOLEAN, stderrDone: BOOLEAN,
                    fetching: BOOLEAN]
    BY <1>p, <2>7
  <2>9. inflight' \subseteq Message /\ IsFiniteSet(inflight')
    BY <1>1, <1>i, <2>1, StreamMsgType DEF afterStdout, Reply, Take
  <2> QED BY <1>2, <1>m, <2>8, <2>9 DEF onStepStdout, TypeOK, B
<1>3. CASE onStepStderr(m)
  <2>1. m.of \in Sources /\ LogLength + 1 \in Nat
    BY <1>3, <1>m, <1>p, MessageFields DEF onStepStderr
  <2>2. Append(pager.buf, <<m.of, LogLength + 1>>) \in B
    BY <1>p, <2>1, AppendProperties
  <2>3. PICK b \in B : b = Append(pager.buf, <<m.of, LogLength + 1>>)
    BY <2>2
  <2> HIDE DEF B
  <2>4. \/ pager' = [pager EXCEPT !.fetching = FALSE, !.stderrDone = TRUE, !.buf = b]
        \/ pager' = [pager EXCEPT !.fetching = FALSE, !.stderrDone = TRUE]
    BY <1>3, <2>3 DEF onStepStderr
  <2>5. pager' \in [epoch: Nat, buf: B, offset: Nat, terminal: BOOLEAN, stderrDone: BOOLEAN,
                    fetching: BOOLEAN]
    BY <1>p, <2>4
  <2>6. inflight' \subseteq Message /\ IsFiniteSet(inflight')
    BY <1>3, <1>1, <1>i DEF onStepStderr, Take
  <2> QED BY <1>3, <1>m, <2>5, <2>6 DEF onStepStderr, TypeOK, B
<1>4. CASE onStepPoll(m)
  <2> HIDE DEF B
  <2>1. pager' \in [epoch: Nat, buf: B, offset: Nat, terminal: BOOLEAN, stderrDone: BOOLEAN,
                    fetching: BOOLEAN]
    BY <1>4, <1>p DEF onStepPoll
  <2>2. inflight' \subseteq Message /\ IsFiniteSet(inflight')
    BY <1>4, <1>1, <1>i, StreamMsgType DEF onStepPoll, Reply
  <2> QED BY <1>4, <2>1, <2>2 DEF onStepPoll, TypeOK, B
<1> QED BY <1>2, <1>3, <1>4

\* The other handlers take the message away, but for a summary asked for instead.
LEMMA AnswerType ==
    ASSUME TypeOK, NEW m \in inflight, Update(m),
           ~(onStepStdout(m) \/ onStepStderr(m) \/ onStepPoll(m))
    PROVE  TypeOK'
<1>m. m \in Message
  BY DEF TypeOK
<1>t. /\ sel \in [filter: Names, run: Names, workflow: Names, job: Names, execution: 0..2,
                  step: Names]
      /\ data \in [runs: Names, workflows: Names, jobs: Names, executions: Names, n: 0..2,
                   steps: Names, artifacts: Names]
      /\ return \in [tests: Stages, artifacts: Stages, summary: Stages, help: Stages,
                     pager: Stages]
  BY DEF TypeOK
<1>n. /\ Pickers \subseteq Stages /\ Loading \subseteq Stages /\ None \in Names
      /\ {"StepPager", "SummaryPager", "RunFilter", "Help", "Done"} \subseteq Stages
  BY DEF Stages, Names
<1>1. PICK ms \in SUBSET inflight : ms = inflight \ {m}
  OBVIOUS
<1>i. ms \subseteq Message /\ IsFiniteSet(ms) /\ ms \cup {blank} \subseteq Message
      /\ IsFiniteSet(ms \cup {blank})
  BY MsgType, InflightType
<1>2. CASE onRuns(m) \/ onWorkflows(m) \/ onJobs(m)
  <2>1. m.of \in Names
    BY <1>2, <1>m, MessageFields DEF onRuns, onWorkflows, onJobs, Plain
  <2>2. /\ sel' \in [filter: Names, run: Names, workflow: Names, job: Names, execution: 0..2,
                     step: Names]
        /\ data' \in [runs: Names, workflows: Names, jobs: Names, executions: Names, n: 0..2,
                      steps: Names, artifacts: Names]
    BY <1>2, <1>t, <2>1 DEF onRuns, onWorkflows, onJobs
  <2>3. /\ stage' \in Stages /\ inflight' = ms
        /\ UNCHANGED <<return, pager, restoreStep, confirm, failed, over, strayed>>
    BY <1>2, <1>1, <1>n DEF onRuns, onWorkflows, onJobs, Take, Pickers
  <2> QED BY <1>i, <2>2, <2>3 DEF TypeOK
<1>3. CASE onExecutions(m)
  <2>1. m.of \in Names
    BY <1>3, <1>m, MessageFields DEF onExecutions, Plain
  <2>2. PICK n \in 0..2, steps \in BOOLEAN, e \in 0..2 :
           /\ data' = [data EXCEPT !.executions = m.of, !.n = n,
                                   !.steps = IF steps THEN m.of ELSE @]
           /\ sel' = [sel EXCEPT !.execution = IF steps THEN e ELSE @]
           /\ \/ /\ stage' = "LoadingSummary"
                 /\ Reply(m, cmdFetchSummary("JobSelect"))
              \/ /\ stage' = IF steps THEN "StepSelect" ELSE "ExecutionSelect"
                 /\ Take(m)
    <3>1. PICK n \in 0..2 :
             LET e == IF restoreStep /\ sel.execution \in 1..n THEN sel.execution ELSE 1
                 steps == n = 1 \/ (restoreStep /\ sel.execution \in 1..n)
             IN /\ data' = [data EXCEPT !.executions = m.of, !.n = n,
                                        !.steps = IF steps THEN m.of ELSE @]
                /\ sel' = [sel EXCEPT !.execution = IF steps THEN e ELSE @]
                /\ \/ /\ n = 0
                      /\ stage' = "LoadingSummary"
                      /\ Reply(m, cmdFetchSummary("JobSelect"))
                   \/ /\ n > 0
                      /\ stage' = IF steps THEN "StepSelect" ELSE "ExecutionSelect"
                      /\ Take(m)
      BY <1>3 DEF onExecutions
    <3>2. PICK steps \in BOOLEAN : steps = (n = 1 \/ (restoreStep /\ sel.execution \in 1..n))
      OBVIOUS
    <3>3. PICK e \in 0..2 :
             e = IF restoreStep /\ sel.execution \in 1..n THEN sel.execution ELSE 1
      BY <1>t
    <3> QED BY <3>1, <3>2, <3>3
  <2>3. /\ sel' \in [filter: Names, run: Names, workflow: Names, job: Names, execution: 0..2,
                     step: Names]
        /\ data' \in [runs: Names, workflows: Names, jobs: Names, executions: Names, n: 0..2,
                      steps: Names, artifacts: Names]
    BY <1>t, <2>1, <2>2
  <2>4. PICK r \in Message : r = cmdFetchSummary("JobSelect")
    BY <1>n, MsgType DEF Pickers
  <2>5. inflight' \subseteq Message /\ IsFiniteSet(inflight')
    BY <1>1, <1>i, <2>2, <2>4, InflightType DEF Reply, Take
  <2>6. stage' \in Stages
    BY <2>2, <1>n, Loadings DEF Pickers
  <2> QED BY <1>3, <2>3, <2>5, <2>6 DEF onExecutions, TypeOK
<1>4. CASE onTests(m)
  BY <1>4, <1>1, <1>i, <1>n DEF onTests, Take, unmoved, TypeOK, Pickers
<1>5. CASE onArtifacts(m)
  <2>1. PICK a \in {m.of, None} : data' = [data EXCEPT !.artifacts = a]
    BY <1>5 DEF onArtifacts
  <2>2. a \in Names
    BY <1>5, <1>m, <1>n, <2>1, MessageFields DEF onArtifacts, Plain
  <2>3. data' \in [runs: Names, workflows: Names, jobs: Names, executions: Names, n: 0..2,
                   steps: Names, artifacts: Names]
    BY <1>t, <2>1, <2>2
  <2> QED BY <1>5, <1>1, <1>i, <1>n, <2>3 DEF onArtifacts, Take, TypeOK, Pickers
<1>6. CASE onArtifactFile(m)
  <2>1. pager' \in Pager
    BY <1>6, PagerType DEF onArtifactFile, openStatic
  <2>2. return' \in [tests: Stages, artifacts: Stages, summary: Stages, help: Stages, pager: Stages]
    BY <1>6, <1>t, <1>n DEF onArtifactFile, openStatic, Pickers
  <2>3. stage' \in Stages
    BY <1>6, <1>n DEF onArtifactFile, openStatic, Pickers
  <2> QED BY <1>6, <1>1, <1>i, <2>1, <2>2, <2>3 DEF onArtifactFile, Take, TypeOK, Pager
<1>7. CASE onArtifactAction(m)
  BY <1>7, <1>1, <1>i, <1>n DEF onArtifactAction, Take, TypeOK, Pickers
<1>8. CASE onSummary(m)
  <2>1. return' \in [tests: Stages, artifacts: Stages, summary: Stages, help: Stages, pager: Stages]
    BY <1>8, <1>t, <1>m, MessageFields DEF onSummary
  <2> QED BY <1>8, <1>1, <1>i, <1>n, <2>1 DEF onSummary, Take, TypeOK
<1>9. CASE dropped(m)
  BY <1>9, <1>1, <1>i DEF dropped, Take, unmoved, TypeOK
<1>10. CASE QuitMsg(m)
  BY <1>10, FS_EmptySet DEF QuitMsg, TypeOK
<1>11. CASE fails(m)
  BY <1>11, <1>1, <1>i, <1>n DEF fails, TypeOK
<1> QED BY <1>2, <1>3, <1>4, <1>5, <1>6, <1>7, <1>8, <1>9, <1>10, <1>11 DEF Update

\* Every step keeps the types.
LEMMA StepType == TypeOK /\ [Next]_vars => TypeOK'
<1> SUFFICES ASSUME TypeOK, [Next]_vars PROVE TypeOK'
  OBVIOUS
<1>1. CASE Key
  BY <1>1, KeyType DEF Key
<1>2. CASE Arrives
  BY <1>2, StreamType, AnswerType DEF Arrives
<1>3. CASE UNCHANGED vars
  BY <1>3 DEF vars, TypeOK
<1> QED BY <1>1, <1>2, <1>3 DEF Next

\* An answer leads to a screen that it makes right.
LEMMA AnswerStep ==
    ASSUME TypeOK, Settled, NEW m \in inflight,
           \/ onRuns(m) \/ onWorkflows(m) \/ onJobs(m) \/ onTests(m) \/ onArtifacts(m)
           \/ onSummary(m) \/ (onArtifactAction(m) /\ m.kind = "download")
    PROVE  Settled'
<1>t. /\ sel \in [filter: Names, run: Names, workflow: Names, job: Names, execution: 0..2,
                  step: Names]
      /\ data \in [runs: Names, workflows: Names, jobs: Names, executions: Names, n: 0..2,
                   steps: Names, artifacts: Names]
      /\ return \in [tests: Stages, artifacts: Stages, summary: Stages, help: Stages,
                     pager: Stages]
  BY DEF TypeOK
<1>1. PICK ms : ms = inflight \ {m}
  OBVIOUS
<1>2. Fore(m)
  BY DEF onRuns, onWorkflows, onJobs, onTests, onArtifacts, onSummary, onArtifactAction, Fore
<1>3. Quiet(ms)
  BY <1>1, <1>2, QuietAfter
<1>4. pager' = pager
  BY DEF onRuns, onWorkflows, onJobs, onTests, onArtifacts, onSummary, onArtifactAction, unmoved
<1>5. Quiet(ms)'
  BY <1>3, <1>4, QuietStays
<1>6. Apt(m)
  BY <1>2 DEF Settled, ForeInv
<1>7. PlaceInv'
  <2>1. CASE onRuns(m)
    <3>1. stage' = "RunSelect"
      BY <2>1 DEF onRuns
    <3> QED BY <3>1 DEF PlaceInv, Fits, Pickers
  <2>2. CASE onWorkflows(m)
    <3>1. stage' = "WorkflowSelect" /\ sel' = sel /\ data'.workflows = m.of
      BY <1>t, <2>2 DEF onWorkflows
    <3>2. m.of = sel.run
      BY <1>6, <2>2 DEF Apt, onWorkflows
    <3>3. RunShown'
      BY <3>1, <3>2 DEF RunShown
    <3> QED BY <3>1, <3>3 DEF PlaceInv, Fits, Pickers
  <2>3. CASE onJobs(m)
    <3>1. stage' = "JobSelect" /\ sel' = sel /\ data'.jobs = m.of /\ data'.workflows = data.workflows
      BY <1>t, <2>3 DEF onJobs
    <3>2. RunShown /\ m.of = sel.workflow /\ RunOf[m.of] = sel.run
      BY <1>6, <2>3 DEF Apt, onJobs
    <3>3. FlowShown'
      BY <3>1, <3>2 DEF FlowShown, RunShown
    <3> QED BY <3>1, <3>3 DEF PlaceInv, Fits, Pickers
  <2>4. CASE onTests(m)
    <3>1. stage' = "TestSelect" /\ sel' = sel /\ data' = data /\ return' = return
      BY <2>4 DEF onTests, unmoved
    <3>2. Fits("TestSelect")
      BY <1>6, <2>4 DEF Apt, onTests
    <3>3. Fits("TestSelect")'
      BY <3>1, <3>2, FitsSame
    <3> QED BY <3>1, <3>3 DEF PlaceInv
  <2>5. CASE onArtifacts(m)
    <3>1. PICK a \in {m.of, None} : data' = [data EXCEPT !.artifacts = a]
      BY <2>5 DEF onArtifacts
    <3>2. /\ data'.workflows = data.workflows /\ data'.jobs = data.jobs
          /\ data'.executions = data.executions /\ data'.n = data.n /\ data'.steps = data.steps
          /\ data'.artifacts = a
      BY <1>t, <3>1
    <3>3. stage' = "ArtifactBrowse" /\ sel' = sel /\ return' = return
      BY <2>5 DEF onArtifacts
    <3>4. Back(return.artifacts) /\ m.of = sel.job
      BY <1>6, <2>5 DEF Apt, onArtifacts
    <3>5. Back(return.artifacts)'
      BY <3>2, <3>3, <3>4 DEF Back, JobShown, FlowShown, RunShown
    <3>6. Fits("ArtifactBrowse")'
      BY <3>1, <3>2, <3>3, <3>4, <3>5 DEF Fits, Pickers
    <3> QED BY <3>3, <3>6 DEF PlaceInv
  <2>6. CASE onSummary(m)
    <3>1. PICK s : s = m.back
      OBVIOUS
    <3>2. /\ return'.summary = s /\ return'.tests = return.tests
          /\ return'.artifacts = return.artifacts
      BY <1>t, <2>6, <3>1 DEF onSummary
    <3>3. stage' = "SummaryPager" /\ sel' = sel /\ data' = data
      BY <2>6 DEF onSummary
    <3>4. Fits(s)
      BY <1>6, <2>6, <3>1 DEF Apt, onSummary
    <3>5. Fits(s)'
      BY <3>2, <3>3, <3>4, FitsSame
    <3>6. Fits(return.summary)'
      BY <3>2, <3>5 DEF Fits, Back
    <3> QED BY <3>3, <3>6 DEF PlaceInv, Pickers
  <2>7. CASE onArtifactAction(m) /\ m.kind = "download"
    <3>1. stage' = "ArtifactBrowse" /\ sel' = sel /\ data' = data /\ return' = return
      BY <2>7 DEF onArtifactAction
    <3>2. Fits("ArtifactBrowse")
      BY <1>6, <2>7 DEF Apt
    <3>3. Fits("ArtifactBrowse")'
      BY <3>1, <3>2, FitsSame
    <3> QED BY <3>1, <3>3 DEF PlaceInv
  <2> QED BY <2>1, <2>2, <2>3, <2>4, <2>5, <2>6, <2>7
<1>8. inflight' = ms
  BY <1>1 DEF onRuns, onWorkflows, onJobs, onTests, onArtifacts, onSummary, onArtifactAction, Take
<1>9. stage' \notin Loading \cup {"StepPager"}
  BY Loadings
  DEF onRuns, onWorkflows, onJobs, onTests, onArtifacts, onSummary, onArtifactAction
<1> QED BY <1>5, <1>7, <1>8, <1>9, QuietPlace

\* The executions lead to steps, or to their own picker, or to the report instead.
LEMMA ExecutionsStep ==
    ASSUME TypeOK, Settled, NEW m \in inflight, onExecutions(m)
    PROVE  Settled'
<1>t. /\ sel \in [filter: Names, run: Names, workflow: Names, job: Names, execution: 0..2,
                  step: Names]
      /\ data \in [runs: Names, workflows: Names, jobs: Names, executions: Names, n: 0..2,
                   steps: Names, artifacts: Names]
  BY DEF TypeOK
<1>1. PICK ms : ms = inflight \ {m}
  OBVIOUS
<1>2. m.kind = "executions" /\ Fore(m) /\ pager' = pager
  BY DEF onExecutions, Fore
<1>3. Quiet(ms)
  BY <1>1, <1>2, QuietAfter
<1>4. Quiet(ms)'
  BY <1>2, <1>3, QuietStays
<1>5. FlowShown /\ m.of = sel.job /\ WorkflowOf[m.of] = sel.workflow
  BY <1>2 DEF Settled, ForeInv, Apt
<1>6. PICK n \in 0..2 :
         LET e == IF restoreStep /\ sel.execution \in 1..n THEN sel.execution ELSE 1
             steps == n = 1 \/ (restoreStep /\ sel.execution \in 1..n)
         IN /\ data' = [data EXCEPT !.executions = m.of, !.n = n,
                                    !.steps = IF steps THEN m.of ELSE @]
            /\ sel' = [sel EXCEPT !.execution = IF steps THEN e ELSE @]
            /\ \/ /\ n = 0
                  /\ stage' = "LoadingSummary"
                  /\ Reply(m, cmdFetchSummary("JobSelect"))
               \/ /\ n > 0
                  /\ stage' = IF steps THEN "StepSelect" ELSE "ExecutionSelect"
                  /\ Take(m)
  BY DEF onExecutions
<1>7. PICK steps \in BOOLEAN : steps <=> n = 1 \/ (restoreStep /\ sel.execution \in 1..n)
  OBVIOUS
<1>8. PICK e \in 0..2 : e = IF restoreStep /\ sel.execution \in 1..n THEN sel.execution ELSE 1
  BY <1>t
<1>9. steps => e \in 1..n
  <2>1. n \in Int
    OBVIOUS
  <2> QED BY <1>7, <1>8, <2>1
<1>10. /\ data'.executions = m.of /\ data'.n = n /\ data'.workflows = data.workflows
       /\ data'.jobs = data.jobs
       /\ sel'.run = sel.run /\ sel'.workflow = sel.workflow /\ sel'.job = sel.job
  BY <1>t, <1>6
<1>11. steps => data'.steps = m.of /\ sel'.execution = e
  BY <1>t, <1>6, <1>7, <1>8
<1>12. FlowShown' /\ JobShown'
  <2>1. /\ data.workflows = sel.run /\ data.jobs = sel.workflow /\ RunOf[sel.workflow] = sel.run
        /\ m.of = sel.job /\ WorkflowOf[sel.job] = sel.workflow
    BY <1>5 DEF FlowShown, RunShown
  <2> QED BY <1>10, <2>1 DEF JobShown, FlowShown, RunShown
<1>13. CASE n = 0
  <2>1. stage' = "LoadingSummary" /\ Reply(m, cmdFetchSummary("JobSelect"))
    BY <1>6, <1>13
  <2>2. PICK r \in Message : r = cmdFetchSummary("JobSelect")
    BY MsgType DEF Stages, Pickers
  <2>3. r.kind = "summary" /\ r.back = "JobSelect" /\ r.epoch = 0
    BY <2>2, MsgType DEF Stages, Pickers
  <2>4. Apt(r)'
    BY <1>12, <2>3 DEF Apt, Fits, Pickers
  <2>5. inflight' = ms \cup {fresh(ms, r)}
    BY <1>1, <2>1, <2>2 DEF Reply
  <2>6. ms \in SUBSET Message /\ IsFiniteSet(ms) /\ pager.epoch \in Nat
    BY <1>1, FS_Subset DEF TypeOK
  <2>7. r.epoch <= pager'.epoch /\ Fore(r)
    BY <1>2, <2>3, <2>6 DEF Fore
  <2>8. stage' \in Loading \ {"LoadingStep"} /\ Awaits[stage'] = r.kind
    BY <2>1, <2>3, Loadings
  <2> QED BY <1>4, <2>4, <2>5, <2>6, <2>7, <2>8, OneAsked
<1>14. CASE n > 0
  <2>1. stage' = (IF steps THEN "StepSelect" ELSE "ExecutionSelect") /\ Take(m)
    BY <1>6, <1>7, <1>14
  <2>2. ~steps => n > 1
    BY <1>7, <1>14
  <2>3. PlaceInv'
    <3>1. CASE steps
      <4>1. data'.steps = sel'.job /\ sel'.execution \in 1..data'.n
        BY <1>5, <1>9, <1>10, <1>11, <3>1
      <4>2. Back("StepSelect")'
        BY <1>12, <4>1 DEF Back
      <4> QED BY <2>1, <3>1, <4>2 DEF PlaceInv, Fits, Pickers
    <3>2. CASE ~steps
      <4>1. Back("ExecutionSelect")'
        BY <1>10, <1>12, <2>2, <3>2 DEF Back
      <4> QED BY <2>1, <3>2, <4>1 DEF PlaceInv, Fits, Pickers
    <3> QED BY <3>1, <3>2
  <2>4. stage' \notin Loading \cup {"StepPager"} /\ inflight' = ms
    BY <1>1, <2>1, Loadings DEF Take
  <2> QED BY <1>4, <2>3, <2>4, QuietPlace
<1>15. n = 0 \/ n > 0
  OBVIOUS
<1> QED BY <1>13, <1>14, <1>15

\* A file leads to its page, or back to the artifacts.
LEMMA FileStep ==
    ASSUME TypeOK, Settled, NEW m \in inflight, onArtifactFile(m)
    PROVE  Settled'
<1>1. PICK ms \in SUBSET inflight : ms = inflight \ {m}
  OBVIOUS
<1>2. Fore(m) /\ inflight' = ms /\ sel' = sel /\ data' = data
  BY <1>1 DEF onArtifactFile, Fore, Take
<1>3. Quiet(ms)
  BY <1>1, <1>2, QuietAfter
<1>4. Fits("ArtifactBrowse")
  BY <1>2 DEF Settled, ForeInv, Apt, onArtifactFile
<1>5. CASE openStatic("ArtifactBrowse")
  BY <1>2, <1>3, <1>4, <1>5, StaticPage DEF Settled, Quiet
<1>6. CASE stage' = "ArtifactBrowse" /\ UNCHANGED <<return, pager>>
  <2>1. Fits("ArtifactBrowse")'
    BY <1>2, <1>4, <1>6, FitsSame
  <2>2. PlaceInv'
    BY <1>6, <2>1 DEF PlaceInv
  <2>3. Quiet(ms)'
    BY <1>3, <1>6, QuietStays
  <2> QED BY <1>2, <1>6, <2>2, <2>3, QuietPlace, Loadings
<1> QED BY <1>5, <1>6 DEF onArtifactFile

\* A browser that reports where the artifacts are up changes nothing.
LEMMA OpenedStep ==
    ASSUME TypeOK, Settled, NEW m \in inflight, onArtifactAction(m), stage = "ArtifactBrowse"
    PROVE  Settled'
<1>1. PICK ms : ms = inflight
  OBVIOUS
<1>2. Quiet(ms)
  BY <1>1, Loadings, QuietBefore
<1>3. Quiet(ms)' /\ inflight' \subseteq ms
  BY <1>1, <1>2, QuietStays DEF onArtifactAction, Take
<1>4. Fits("ArtifactBrowse")
  BY DEF Settled, PlaceInv, Pickers
<1>5. Fits("ArtifactBrowse")' /\ stage' = "ArtifactBrowse"
  BY <1>4, FitsSame DEF onArtifactAction
<1>6. PlaceInv'
  BY <1>5 DEF PlaceInv
<1> QED BY <1>3, <1>5, <1>6, QuietPlace, Loadings

\* A fetch that fails ends all that is awaited.
LEMMA FailStep ==
    ASSUME TypeOK, Settled, NEW m \in inflight, fails(m)
    PROVE  Settled'
<1>1. PICK b : b = blank
  OBVIOUS
<1>2. ~Fore(b) /\ ~Live(b) /\ b.epoch <= pager.epoch
  BY <1>1, MsgType DEF Fore, Live, TypeOK
<1>3. PICK ms : ms = (inflight \ {m}) \cup {b}
  OBVIOUS
<1>4. Fore(m) \/ Live(m)
  BY DEF fails, Fore, Live
<1>5. Quiet(ms)
  BY <1>2, <1>3, <1>4, QuietAfter DEF Quiet
<1>6. Quiet(ms)' /\ inflight' = ms
  BY <1>1, <1>3, <1>5, QuietStays DEF fails
<1>7. stage' = "Done"
  BY DEF fails
<1>8. PlaceInv'
  BY <1>7 DEF PlaceInv, Pickers
<1> QED BY <1>6, <1>7, <1>8, QuietPlace, Loadings

\* The chunks so far with the next ones are the chunks so far.
LEMMA Joined ==
    ASSUME NEW x \in Sources, NEW a \in Nat, NEW n \in Nat
    PROVE  [i \in 1..a |-> <<x, i>>] \o [i \in 1..n |-> <<x, a + i>>]
             = [i \in 1..(a + n) |-> <<x, i>>]
<1> DEFINE S == Sources \X Nat
           s == [i \in 1..a |-> <<x, i>>]
           t == [i \in 1..n |-> <<x, a + i>>]
           u == [i \in 1..(a + n) |-> <<x, i>>]
<1>1. \A i \in 1..a : <<x, i>> \in S
  OBVIOUS
<1>2. \A i \in 1..n : <<x, a + i>> \in S
  OBVIOUS
<1>3. a + n \in Nat /\ \A i \in 1..(a + n) : <<x, i>> \in S
  OBVIOUS
<1>4. s \in Seq(S) /\ Len(s) = a /\ t \in Seq(S) /\ Len(t) = n
  <2> HIDE DEF S
  <2> QED BY <1>1, <1>2
<1>5. u \in Seq(S) /\ Len(u) = a + n
  <2> HIDE DEF S
  <2> QED BY <1>3
<1>6. \A i \in 1..(a + n) : u[i] = IF i <= a THEN s[i] ELSE t[i - a]
  <2> TAKE i \in 1..(a + n)
  <2>1. CASE i <= a
    <3>1. i \in 1..a
      BY <2>1
    <3> QED BY <2>1, <3>1
  <2>2. CASE ~(i <= a)
    <3>1. i - a \in 1..n /\ a + (i - a) = i
      BY <2>2
    <3>2. t[i - a] = <<x, a + (i - a)>>
      BY <3>1
    <3> QED BY <2>2, <3>1, <3>2
  <2> QED BY <2>1, <2>2
<1> HIDE DEF S, s, t, u
<1>7. /\ s \o t \in Seq(S) /\ Len(s \o t) = a + n
      /\ \A i \in 1..(a + n) : (s \o t)[i] = IF i <= a THEN s[i] ELSE t[i - a]
  BY <1>4, ConcatProperties
<1>8. s \o t = u
  BY <1>5, <1>6, <1>7, SeqEqual
<1> QED BY <1>8 DEF s, t, u

\* A message of the stream finds the pager that it is for.
LEMMA Following ==
    ASSUME TypeOK, Settled, NEW m \in inflight, Live(m)
    PROVE  /\ Follows(m) /\ Fits("StepSelect") /\ return.pager = "StepSelect"
           /\ stage \in {"StepPager", "Done"} \/ (stage = "LoadingStep" /\ m.kind = "stdout")
           /\ \A ms : ms = inflight \ {m} => Quiet(ms) /\ ms \subseteq Message /\ IsFiniteSet(ms)
<1>1. /\ Follows(m) /\ Fits("StepSelect") /\ return.pager = "StepSelect"
      /\ stage \in {"LoadingStep", "StepPager", "Done"}
  BY DEF Settled, StreamInv
<1>2. stage = "LoadingStep" => m.kind = "stdout"
  BY DEF Settled, StreamInv
<1>3. Quiet(inflight \ {m})
  BY QuietAfter
<1>4. inflight \ {m} \subseteq Message /\ IsFiniteSet(inflight \ {m})
  BY FS_Subset DEF TypeOK
<1> QED BY <1>1, <1>2, <1>3, <1>4

\* A chunk adds the output that comes next, and is followed by one message.
LEMMA StdoutStep ==
    ASSUME TypeOK, Settled, NEW m \in inflight, onStepStdout(m)
    PROVE  Settled'
<1>t. /\ pager \in [epoch: Nat, buf: Seq(Sources \X Nat), offset: Nat, terminal: BOOLEAN,
                    stderrDone: BOOLEAN, fetching: BOOLEAN]
      /\ LogLength \in Nat
  BY FlowAssumption DEF TypeOK
<1>1. PICK ms : ms = inflight \ {m}
  OBVIOUS
<1>2. Live(m) /\ m.kind = "stdout"
  BY DEF onStepStdout, Live, current
<1>3. /\ Follows(m) /\ Fits("StepSelect") /\ return.pager = "StepSelect"
      /\ Quiet(ms) /\ ms \subseteq Message /\ IsFiniteSet(ms)
  BY <1>1, <1>2, Following
<1>4. /\ ~pager.stderrDone /\ pager.buf = output /\ m.of = source /\ m.offset = pager.offset
  BY <1>2, <1>3 DEF Follows
<1>5. PICK n \in 0..(LogLength - m.offset), ends \in BOOLEAN :
         /\ ends => m.offset + n = LogLength
         /\ pager' = [pager EXCEPT !.buf = @ \o chunks(m, n), !.offset = @ + n,
                                   !.terminal = ends, !.fetching = ends /\ ~pager.stderrDone]
         /\ afterStdout(m, n, ends)
  BY DEF onStepStdout
<1>6. pager.offset \in Nat /\ n \in Nat /\ pager.offset + n <= LogLength
  <2>1. pager.offset \in Int /\ LogLength \in Int
    BY <1>t
  <2> QED BY <1>t, <1>4, <1>5, <2>1
<1>7. /\ pager'.epoch = pager.epoch /\ pager'.offset = pager.offset + n
      /\ pager'.buf = pager.buf \o chunks(m, n)
      /\ pager'.stderrDone = pager.stderrDone
  BY <1>t, <1>5
<1>8. (pager'.terminal <=> ends) /\ (pager'.fetching <=> ends)
  BY <1>t, <1>4, <1>5
<1>9. UNCHANGED <<sel, data, return>> /\ stage' = "StepPager"
  BY DEF onStepStdout
<1>10. source' = source
  BY <1>9 DEF source
<1>11. pager'.buf = output'
  <2>1. output = [i \in 1..pager.offset |-> <<source, i>>]
    BY DEF output
  <2>2. chunks(m, n) = [i \in 1..n |-> <<source, pager.offset + i>>]
    BY <1>4 DEF chunks
  <2>3. output' = [i \in 1..(pager.offset + n) |-> <<source, i>>]
    BY <1>7, <1>10 DEF output
  <2>4. source \in Sources
    BY StreamMsgType
  <2>5. output \o chunks(m, n) = output'
    BY <1>6, <2>1, <2>2, <2>3, <2>4, Joined
  <2> QED BY <1>4, <1>7, <2>5
<1>12. Quiet(ms)'
  BY <1>3, <1>7, QuietStays
<1>13. Fits("StepSelect")' /\ return'.pager = "StepSelect"
  BY <1>3, <1>9, FitsSame
<1>14. CASE ends
  <2>1. PICK r \in Message : r = cmdFetchStepStderr
    BY StreamMsgType
  <2>2. r.kind = "stderr" /\ r.of = source /\ r.epoch = pager.epoch
    BY <2>1, StreamMsgType
  <2>3. inflight' = ms \cup {fresh(ms, r)}
    BY <1>1, <1>4, <1>5, <1>14, <2>1 DEF afterStdout, Reply
  <2>4. pager'.offset = LogLength
    BY <1>4, <1>5, <1>7, <1>14
  <2>5. Follows(r)'
    BY <1>4, <1>6, <1>7, <1>8, <1>10, <1>11, <1>14, <2>2, <2>4 DEF Follows
  <2>6. Live(r)' /\ pager'.epoch \in Nat
    BY <1>t, <1>7, <2>2 DEF Live
  <2> QED BY <1>3, <1>9, <1>12, <1>13, <2>3, <2>5, <2>6, OneLive
<1>15. CASE ~ends
  <2>1. PICK r \in Message : r = cmdStepPoll
    BY StreamMsgType
  <2>2. r.kind = "poll" /\ r.epoch = pager.epoch
    BY <2>1, StreamMsgType
  <2>3. inflight' = ms \cup {fresh(ms, r)}
    BY <1>1, <1>5, <1>15, <2>1 DEF afterStdout, Reply
  <2>4. Follows(r)'
    BY <1>4, <1>6, <1>7, <1>8, <1>11, <1>15, <2>2 DEF Follows
  <2>5. Live(r)' /\ pager'.epoch \in Nat
    BY <1>t, <1>7, <2>2 DEF Live
  <2> QED BY <1>3, <1>9, <1>12, <1>13, <2>3, <2>4, <2>5, OneLive
<1> QED BY <1>14, <1>15

\* stderr comes after all of the output and ends the stream.
LEMMA StderrStep ==
    ASSUME TypeOK, Settled, NEW m \in inflight, onStepStderr(m)
    PROVE  Settled'
<1>t. pager \in [epoch: Nat, buf: Seq(Sources \X Nat), offset: Nat, terminal: BOOLEAN,
                 stderrDone: BOOLEAN, fetching: BOOLEAN]
  BY DEF TypeOK
<1>1. PICK ms : ms = inflight \ {m}
  OBVIOUS
<1>2. Live(m) /\ m.kind = "stderr"
  BY DEF onStepStderr, Live, current
<1>3. /\ Follows(m) /\ Fits("StepSelect") /\ return.pager = "StepSelect" /\ Quiet(ms)
      /\ stage \in {"StepPager", "Done"}
  BY <1>1, <1>2, Following
<1>4. /\ pager.buf = output /\ pager.terminal /\ m.of = source /\ pager.offset = LogLength
  BY <1>2, <1>3 DEF Follows
<1>5. /\ UNCHANGED <<sel, data, return>> /\ stage' \in {"StepPager", "Done"}
      /\ inflight' = ms
  BY <1>1, <1>3 DEF onStepStderr, Take
<1>6. /\ pager'.epoch = pager.epoch /\ pager'.offset = pager.offset
      /\ pager'.terminal = pager.terminal /\ pager'.stderrDone
      /\ pager'.buf \in {pager.buf, Append(pager.buf, <<m.of, LogLength + 1>>)}
  BY <1>t DEF onStepStderr
<1>7. source' = source
  BY <1>5 DEF source
<1>8. output' = output
  BY <1>6, <1>7 DEF output
<1>9. pager'.buf \in {output', Append(output', <<source', LogLength + 1>>)}
  BY <1>4, <1>6, <1>7, <1>8
<1>10. Quiet(ms)'
  BY <1>3, <1>6, QuietStays
<1>11. Fits("StepSelect")' /\ return'.pager = "StepSelect"
  BY <1>3, <1>5, FitsSame
<1>12. CASE stage' = "StepPager"
  <2>1. under' = "StepSelect"
    BY <1>11 DEF under
  <2>2. Fits(under)'
    BY <1>11, <2>1 DEF Fits, Back
  <2> QED BY <1>4, <1>5, <1>6, <1>9, <1>10, <1>12, <2>2, QuietPage
<1>13. CASE stage' = "Done"
  <2>1. PlaceInv'
    BY <1>13 DEF PlaceInv, Pickers
  <2> QED BY <1>5, <1>10, <1>13, <2>1, QuietPlace, Loadings
<1> QED BY <1>5, <1>12, <1>13

\* A poll is followed by a request for what comes next.
LEMMA PollStep ==
    ASSUME TypeOK, Settled, NEW m \in inflight, onStepPoll(m)
    PROVE  Settled'
<1>t. pager \in [epoch: Nat, buf: Seq(Sources \X Nat), offset: Nat, terminal: BOOLEAN,
                 stderrDone: BOOLEAN, fetching: BOOLEAN]
  BY DEF TypeOK
<1>1. PICK ms : ms = inflight \ {m}
  OBVIOUS
<1>2. Live(m) /\ m.kind = "poll"
  BY DEF onStepPoll, Live, current
<1>3. /\ Follows(m) /\ Fits("StepSelect") /\ return.pager = "StepSelect" /\ Quiet(ms)
      /\ ms \subseteq Message /\ IsFiniteSet(ms) /\ stage \in {"StepPager", "Done"}
  BY <1>1, <1>2, Following
<1>4. ~pager.stderrDone /\ pager.buf = output /\ pager.offset <= LogLength /\ ~pager.terminal
  BY <1>2, <1>3 DEF Follows
<1>5. UNCHANGED <<sel, data, return, stage>>
  BY DEF onStepPoll
<1>6. pager' = [pager EXCEPT !.fetching = TRUE]
  BY DEF onStepPoll
<1>7. /\ pager'.epoch = pager.epoch /\ pager'.offset = pager.offset /\ pager'.buf = pager.buf
      /\ pager'.terminal = pager.terminal /\ pager'.stderrDone = pager.stderrDone
      /\ pager'.fetching
  BY <1>t, <1>6
<1>8. source' = source
  BY <1>5 DEF source
<1>9. output' = output
  BY <1>7, <1>8 DEF output
<1>10. Quiet(ms)'
  BY <1>3, <1>7, QuietStays
<1>11. Fits("StepSelect")' /\ return'.pager = "StepSelect"
  BY <1>3, <1>5, FitsSame
<1>12. PICK r \in Message : r = cmdFetchStepStdout
  BY StreamMsgType
<1>13. /\ r.kind = "stdout" /\ r.of = source /\ r.epoch = pager.epoch
       /\ r.offset = pager.offset
  BY <1>12, StreamMsgType
<1>14. inflight' = ms \cup {fresh(ms, r)}
  BY <1>1, <1>12 DEF onStepPoll, Reply
<1>15. Follows(r)'
  BY <1>4, <1>7, <1>8, <1>9, <1>13 DEF Follows
<1>16. Live(r)' /\ pager'.epoch \in Nat
  BY <1>t, <1>7, <1>13 DEF Live
<1> QED BY <1>3, <1>5, <1>10, <1>11, <1>14, <1>15, <1>16, OneLive

\* What is dropped was of no stream any more.
LEMMA DroppedStep ==
    ASSUME TypeOK, Settled, NEW m \in inflight, dropped(m)
    PROVE  Settled'
<1>1. ~Fore(m)
  BY DEF dropped, Fore
<1>2. ~Live(m)
  <2> SUFFICES ASSUME Live(m) PROVE FALSE
    OBVIOUS
  <2>1. m.kind = "poll" /\ (pager.fetching \/ pager.terminal)
    BY DEF dropped, Live, current
  <2>2. Follows(m)
    BY Following
  <2> QED BY <2>1, <2>2 DEF Follows
<1>3. /\ UNCHANGED <<stage, sel, data, return, pager>> /\ inflight' = inflight \ {m}
  BY DEF dropped, Take, unmoved
<1>4. \A x : Live(x)' <=> Live(x)
  BY <1>3 DEF Live
<1>5. \A s : Fits(s) => Fits(s)'
  BY <1>3 DEF Fits, Back, JobShown, FlowShown, RunShown
<1>6. \A x : Apt(x) => Apt(x)'
  BY <1>3, <1>5 DEF Apt, Back, JobShown, FlowShown, RunShown
<1>7. \A x : Follows(x) => Follows(x)'
  BY <1>3 DEF Follows, output, source
<1>8. source' = source /\ output' = output
  BY <1>3 DEF source, output
<1>9. ForeInv'
  BY <1>1, <1>3, <1>6 DEF Settled, ForeInv
<1>10. PlaceInv'
  <2>1. stage \in Pickers => Fits(stage)'
    BY <1>3 DEF Settled, PlaceInv, Fits, Back, JobShown, FlowShown, RunShown
  <2>2. stage = "StepPager" => Fits(under)'
    BY <1>3 DEF Settled, PlaceInv, Fits, Back, JobShown, FlowShown, RunShown, under
  <2>3. stage = "SummaryPager" => Fits(return.summary)'
    BY <1>3 DEF Settled, PlaceInv, Fits, Back, JobShown, FlowShown, RunShown
  <2>4. stage = "Help" => Fits(return.help)'
    BY <1>3 DEF Settled, PlaceInv, Fits, Back, JobShown, FlowShown, RunShown
  <2> QED BY <1>3, <2>1, <2>2, <2>3, <2>4 DEF PlaceInv
<1>11. StreamInv'
  BY <1>2, <1>3, <1>4, <1>5, <1>7, <1>8 DEF Settled, StreamInv
<1>12. EpochInv'
  BY <1>3 DEF Settled, EpochInv
<1> QED BY <1>9, <1>10, <1>11, <1>12 DEF Settled

-----------------------------------------------------------------------------
(* The properties.                                                         *)

\* What the flow follows is at most one message.
LEMMA OneFollowed ==
    ASSUME NEW ms, NEW live, live \subseteq ms, \A m, n \in live : m = n
    PROVE  Cardinality(live) <= 1
<1>1. CASE live = {}
  BY <1>1, FS_EmptySet
<1>2. CASE live # {}
  <2>1. PICK m : live = {m}
    BY <1>2
  <2> QED BY <2>1, FS_Singleton
<1> QED BY <1>1, <1>2

\* While the flow goes on, what is known of it is more than what is promised.
LEMMA SettledSafe ==
    ASSUME Settled
    PROVE  NeverStuck /\ ShownIsPicked /\ PagerShowsTheStep /\ StreamGoesOn
<1>1. NeverStuck
  <2>1. ASSUME stage = "LoadingStep"
        PROVE  \E m \in inflight : m.kind = "stdout" /\ m.epoch = pager.epoch
    BY <2>1 DEF Settled, StreamInv, Live
  <2>2. ASSUME stage \in Loading, stage # "LoadingStep"
        PROVE  \E m \in inflight : m.kind = Awaits[stage] /\ m.kind # "stdout"
    <3>1. PICK m \in inflight : Fore(m)
      BY <2>2 DEF Settled, ForeInv
    <3>2. m.kind = Awaits[stage]
      BY <2>2, <3>1, Loadings DEF Settled, ForeInv
    <3> QED BY <3>1, <3>2 DEF Fore
  <2> QED BY <2>1, <2>2, Loadings DEF NeverStuck
<1>2. ShownIsPicked
  <2>1. stage \in Pickers => Fits(stage)
    BY DEF Settled, PlaceInv
  <2> QED BY <2>1 DEF ShownIsPicked, Fits, Back, JobShown, FlowShown, RunShown, Pickers
<1>3. PagerShowsTheStep
  <2> SUFFICES ASSUME stage = "StepPager", return.pager = "StepSelect"
               PROVE  \/ pager.buf = output
                      \/ /\ pager.terminal /\ pager.stderrDone /\ pager.offset = LogLength
                         /\ pager.buf = Append(output, <<source, LogLength + 1>>)
    BY DEF PagerShowsTheStep, output
  <2>1. CASE \E m \in inflight : Live(m)
    BY <2>1 DEF Settled, StreamInv, Follows
  <2>2. CASE ~\E m \in inflight : Live(m)
    BY <2>2 DEF Settled, StreamInv
  <2> QED BY <2>1, <2>2
<1>4. StreamGoesOn
  <2> DEFINE stream == {m \in inflight : m.kind \in {"stdout", "stderr", "poll"} /\ current(m)}
  <2>1. \A m : m \in stream <=> m \in inflight /\ Live(m)
    BY DEF Live, current
  <2>2. stage = "StepPager" /\ ~(pager.terminal /\ pager.stderrDone) => stream # {}
    <3> SUFFICES ASSUME stage = "StepPager", ~(pager.terminal /\ pager.stderrDone)
                 PROVE  stream # {}
      OBVIOUS
    <3>1. PICK m \in inflight : Live(m)
      BY DEF Settled, StreamInv
    <3>2. m \in stream
      BY <2>1, <3>1
    <3> QED BY <3>2
  <2>3. \A m, n \in stream : m = n
    BY <2>1 DEF Settled, StreamInv
  <2>4. Cardinality(stream) <= 1
    <3> HIDE DEF stream
    <3> QED BY <2>3, OneFollowed
  <2> QED BY <2>2, <2>4 DEF StreamGoesOn
<1> QED BY <1>1, <1>2, <1>3, <1>4

\* What is shown does not change as the program ends.
LEMMA QuitStep ==
    ASSUME Settled, NEW m, QuitMsg(m)
    PROVE  Safe'
<1>1. /\ over' /\ inflight' = {} /\ UNCHANGED <<stage, sel, data, return, pager, strayed>>
  BY DEF QuitMsg
<1>2. NeverStuck'
  BY <1>1 DEF NeverStuck
<1>3. ShownIsPickedUnlessStrayed'
  BY <1>1, SettledSafe DEF ShownIsPickedUnlessStrayed, ShownIsPicked
<1>4. PagerShowsTheStep'
  BY <1>1, SettledSafe DEF PagerShowsTheStep, source
<1>5. StreamGoesOn'
  <2> DEFINE stream == {x \in inflight : x.kind \in {"stdout", "stderr", "poll"} /\ current(x)}
  <2>1. stream' = {}
    BY <1>1
  <2>2. Cardinality(stream') <= 1
    <3> HIDE DEF stream
    <3> QED BY <2>1, FS_EmptySet
  <2> QED BY <1>1, <2>2 DEF StreamGoesOn
<1> QED BY <1>2, <1>3, <1>4, <1>5 DEF Safe

\* A browser that finds the user elsewhere puts the artifacts up, and no more.
LEMMA StrayStep ==
    ASSUME Settled, NEW m \in inflight, onArtifactAction(m), strayed'
    PROVE  Safe'
<1>1. stage' = "ArtifactBrowse" /\ pager' = pager /\ inflight' = inflight \ {m}
  BY DEF onArtifactAction, Take
<1>2. StreamGoesOn'
  <2> DEFINE stream == {x \in inflight : x.kind \in {"stdout", "stderr", "poll"} /\ current(x)}
  <2>1. \A x : x \in stream' => x \in inflight /\ Live(x)
    BY <1>1 DEF Live, current
  <2>2. \A x, y \in stream' : x = y
    BY <2>1 DEF Settled, StreamInv
  <2>3. Cardinality(stream') <= 1
    <3> HIDE DEF stream
    <3> QED BY <2>2, OneFollowed
  <2> QED BY <1>1, <2>3 DEF StreamGoesOn
<1> QED BY <1>1, <1>2, Loadings
    DEF Safe, NeverStuck, ShownIsPickedUnlessStrayed, PagerShowsTheStep

\* A message keeps all that is known, or ends the flow with what is promised kept.
LEMMA ArrivesStep ==
    ASSUME TypeOK, goesOn, Settled, Arrives
    PROVE  (goesOn' /\ Settled') \/ (~goesOn' /\ Safe')
<1>1. PICK m \in inflight : Update(m)
  BY DEF Arrives
<1>2. CASE QuitMsg(m)
  BY <1>2, QuitStep DEF QuitMsg, goesOn
<1>3. CASE onArtifactAction(m) /\ strayed'
  BY <1>3, StrayStep DEF goesOn
<1>4. CASE onArtifactAction(m) /\ ~strayed'
  <2>1. goesOn'
    BY <1>4 DEF onArtifactAction, goesOn
  <2>2. m.kind = "download" \/ stage = "ArtifactBrowse"
    BY <1>4 DEF onArtifactAction
  <2> QED BY <1>4, <2>1, <2>2, AnswerStep, OpenedStep
<1>5. CASE ~QuitMsg(m) /\ ~onArtifactAction(m)
  <2>1. goesOn'
    <3>1. onRuns(m) \/ onWorkflows(m) \/ onJobs(m) \/ onExecutions(m) \/ onTests(m)
            => UNCHANGED <<over, strayed>>
      BY DEF onRuns, onWorkflows, onJobs, onExecutions, onTests, unmoved
    <3>2. onArtifacts(m) \/ onArtifactFile(m) \/ onSummary(m) \/ fails(m)
            => UNCHANGED <<over, strayed>>
      BY DEF onArtifacts, onArtifactFile, onSummary, fails
    <3>3. onStepStdout(m) \/ onStepStderr(m) \/ onStepPoll(m) \/ dropped(m)
            => UNCHANGED <<over, strayed>>
      BY DEF onStepStdout, onStepStderr, onStepPoll, dropped, unmoved
    <3> QED BY <1>1, <1>5, <3>1, <3>2, <3>3 DEF Update, goesOn
  <2>2. Settled'
    BY <1>1, <1>5, AnswerStep, ExecutionsStep, FileStep, FailStep, StdoutStep, StderrStep,
       PollStep, DroppedStep DEF Update
  <2> QED BY <2>1, <2>2
<1> QED BY <1>2, <1>3, <1>4, <1>5

LEMMA InitInv == Init => Inv
<1> SUFFICES ASSUME Init PROVE Inv
  OBVIOUS
<1> USE Loadings
<1>1. PICK f \in Filters :
         /\ sel = [filter |-> f, run |-> None, workflow |-> None, job |-> None, execution |-> 0,
                   step |-> None]
         /\ inflight = {msg("runs", f)}
  BY DEF Init
<1>2. PICK m : m = msg("runs", f)
  OBVIOUS
<1>3. m \in Message /\ m.kind = "runs" /\ m.epoch = 0
  BY <1>2, MsgType DEF Plain, Names
<1>4. inflight = {m} /\ stage = "LoadingRuns" /\ pager.epoch = 0
  BY <1>1, <1>2 DEF Init
<1>5. TypeOK
  <2>1. inflight \subseteq Message /\ IsFiniteSet(inflight)
    BY <1>3, <1>4, FS_Singleton
  <2>2. sel \in [filter: Names, run: Names, workflow: Names, job: Names, execution: 0..2,
                 step: Names]
    BY <1>1 DEF Names
  <2>3. data \in [runs: Names, workflows: Names, jobs: Names, executions: Names, n: 0..2,
                  steps: Names, artifacts: Names]
    BY DEF Init, Names
  <2>4. return \in [tests: Stages, artifacts: Stages, summary: Stages, help: Stages, pager: Stages]
    BY DEF Init, Stages, Pickers
  <2>5. pager \in [epoch: Nat, buf: Seq(Sources \X Nat), offset: Nat, terminal: BOOLEAN,
                   stderrDone: BOOLEAN, fetching: BOOLEAN]
    <3> DEFINE B == Seq(Sources \X Nat)
    <3>1. <<>> \in B
      OBVIOUS
    <3> HIDE DEF B
    <3>2. pager \in [epoch: Nat, buf: B, offset: Nat, terminal: BOOLEAN, stderrDone: BOOLEAN,
                     fetching: BOOLEAN]
      BY <3>1 DEF Init
    <3> QED BY <3>2 DEF B
  <2>6. stage \in Stages
    BY <1>4 DEF Stages
  <2> QED BY <2>1, <2>2, <2>3, <2>4, <2>5, <2>6 DEF Init, TypeOK
<1>6. Settled
  <2>1. Fore(m) /\ ~Live(m) /\ Apt(m) /\ m.epoch <= pager.epoch
    BY <1>3, <1>4 DEF Fore, Live, Apt
  <2>2. ForeInv
    BY <1>3, <1>4, <2>1 DEF ForeInv
  <2>3. PlaceInv
    BY <1>4 DEF PlaceInv, Pickers
  <2>4. StreamInv
    BY <1>4, <2>1 DEF StreamInv
  <2>5. EpochInv
    BY <1>4, <2>1 DEF EpochInv
  <2> QED BY <2>2, <2>3, <2>4, <2>5 DEF Settled
<1> QED BY <1>5, <1>6 DEF Inv, Init, goesOn

LEMMA StutterInv == Inv /\ UNCHANGED vars => Inv'
<1> SUFFICES ASSUME Inv, UNCHANGED vars PROVE Inv'
  OBVIOUS
<1>1. UNCHANGED <<stage, sel, data, return, pager, inflight, over, strayed>>
  BY DEF vars
<1>2. TypeOK'
  BY StepType DEF Inv
<1>3. goesOn' = goesOn
  BY <1>1 DEF goesOn
<1>4. \A s : Fits(s) => Fits(s)'
  BY <1>1 DEF Fits, Back, JobShown, FlowShown, RunShown
<1>5. \A x : (Live(x)' <=> Live(x)) /\ (Follows(x) => Follows(x)') /\ (Apt(x) => Apt(x)')
  BY <1>1, <1>4 DEF Live, Follows, Apt, output, source, Back, JobShown, FlowShown, RunShown
<1>6. Settled => Settled'
  <2> SUFFICES ASSUME Settled PROVE Settled'
    OBVIOUS
  <2>1. ForeInv'
    BY <1>1, <1>5 DEF Settled, ForeInv
  <2>2. PlaceInv'
    BY <1>1 DEF Settled, PlaceInv, Fits, Back, JobShown, FlowShown, RunShown, under
  <2>3. StreamInv'
    BY <1>1, <1>4, <1>5 DEF Settled, StreamInv, output, source
  <2>4. EpochInv'
    BY <1>1 DEF Settled, EpochInv
  <2> QED BY <2>1, <2>2, <2>3, <2>4 DEF Settled
<1>7. Safe => Safe'
  BY <1>1 DEF Safe, NeverStuck, ShownIsPickedUnlessStrayed, ShownIsPicked, PagerShowsTheStep,
              StreamGoesOn, current, source
<1> QED BY <1>2, <1>3, <1>6, <1>7 DEF Inv

LEMMA StepInv == Inv /\ [Next]_vars => Inv'
<1> SUFFICES ASSUME Inv, [Next]_vars PROVE Inv'
  OBVIOUS
<1>1. TypeOK /\ TypeOK'
  BY StepType DEF Inv
<1>2. CASE Key
  <2>1. goesOn /\ Settled
    BY <1>2 DEF Key, Inv
  <2>2. goesOn' /\ Settled'
    BY <1>1, <1>2, <2>1, KeyStep
  <2> QED BY <1>1, <2>2 DEF Inv
<1>3. CASE Arrives
  <2>1. goesOn /\ Settled
    BY <1>3 DEF Arrives, Inv
  <2>2. (goesOn' /\ Settled') \/ (~goesOn' /\ Safe')
    BY <1>1, <1>3, <2>1, ArrivesStep
  <2> QED BY <1>1, <2>2 DEF Inv
<1>4. CASE UNCHANGED vars
  BY <1>4, StutterInv
<1> QED BY <1>2, <1>3, <1>4 DEF Next

\* The inductive invariant holds of every flow, until it strays or ends and after.
THEOREM Invariance == Spec => []Inv
BY InitInv, StepInv, PTL DEF Spec

LEMMA InvSafe == Inv => Safe
BY SettledSafe DEF Inv, Safe, ShownIsPickedUnlessStrayed

\* The state stays one of the types it is declared with, whatever the answers.
THEOREM TypeCorrect == Spec => []TypeOK
<1>1. Inv => TypeOK
  BY DEF Inv
<1> QED BY <1>1, Invariance, PTL

\* No spinner turns for nothing.
THEOREM Answered == Spec => []NeverStuck
<1>1. Inv => NeverStuck
  BY InvSafe DEF Safe
<1> QED BY <1>1, Invariance, PTL

\* Every picker lists what was fetched for what is picked, until a browser's
\* report finds the user on another screen.
THEOREM Shown == Spec => []ShownIsPickedUnlessStrayed
<1>1. Inv => ShownIsPickedUnlessStrayed
  BY InvSafe DEF Safe
<1> QED BY <1>1, Invariance, PTL

\* The step pager shows the output of the step that was picked, in order and once.
THEOREM Paged == Spec => []PagerShowsTheStep
<1>1. Inv => PagerShowsTheStep
  BY InvSafe DEF Safe
<1> QED BY <1>1, Invariance, PTL

\* A stream that is shown goes on, by one message at a time.
THEOREM Streamed == Spec => []StreamGoesOn
<1>1. Inv => StreamGoesOn
  BY InvSafe DEF Safe
<1> QED BY <1>1, Invariance, PTL

\* No answer takes the user from a screen that waits for none, but the report of a
\* browser.
THEOREM Stays == Spec => StaysPut
<1> DEFINE Kept == Arrives /\ stage \notin Loading \cup {"Done"} /\ ~strayed'
                      => stage' \in {stage, "Done"}
<1>1. Inv /\ [Next]_vars => [Kept]_vars
  <2> SUFFICES ASSUME Inv, Arrives, stage \notin Loading \cup {"Done"}, ~strayed'
               PROVE  stage' \in {stage, "Done"}
    OBVIOUS
  <2>1. TypeOK /\ Settled
    BY DEF Inv, Arrives
  <2>2. PICK m \in inflight : Update(m)
    BY DEF Arrives
  <2>3. ~Fore(m)
    BY <2>1 DEF Settled, ForeInv
  <2>4. CASE onStepStdout(m) \/ onStepStderr(m)
    <3>1. Live(m)
      BY <2>4 DEF onStepStdout, onStepStderr, Live, current
    <3>2. stage = "StepPager"
      BY <2>1, <3>1, Loadings DEF Settled, StreamInv
    <3> QED BY <2>4, <3>2 DEF onStepStdout, onStepStderr
  <2>5. CASE onArtifactAction(m)
    BY <2>3, <2>5 DEF onArtifactAction, Fore
  <2>6. CASE onStepPoll(m) \/ dropped(m) \/ QuitMsg(m) \/ fails(m)
    BY <2>6 DEF onStepPoll, dropped, QuitMsg, fails
  <2> QED BY <2>2, <2>3, <2>4, <2>5, <2>6
      DEF Update, Fore, onRuns, onWorkflows, onJobs, onExecutions, onTests, onArtifacts,
          onArtifactFile, onSummary
<1> QED BY <1>1, Invariance, PTL DEF Spec, StaysPut
=============================================================================
