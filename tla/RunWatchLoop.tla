---------------------------- MODULE RunWatchLoop ----------------------------
(***************************************************************************)
(* `circleci run watch` away from a terminal (internal/cmd/run/watch.go):  *)
(* waiting for the run of a commit to appear (--sha), then polling it until *)
(* its workflows are done, --failfast trips or the timeout elapses.  A poll *)
(* is several API reads, one after the other, of a run that goes on         *)
(* changing meanwhile.                                                      *)
(***************************************************************************)
EXTENDS Integers, FiniteSets

CONSTANTS
    Workflows,       \* the workflows the run may ever have
    Outcomes,        \* how a workflow may end, besides "failed"
    BySHA,           \* --sha: the run may not exist yet
    PollInterval,    \* ui.RunWatchPollInterval
    MaxPollInterval, \* ui.RunWatchMaxPollInterval
    SearchInterval,  \* the pause between two searches
    ShaWait,         \* shaWaitDuration
    Timeout,         \* --timeout
    FailFast,        \* --failfast
    ReadTimeout,     \* httpcl's per-request timeout: no read takes longer
    MaxTime          \* bound: the clock stops here, after every watch has returned

ASSUME LoopAssumption ==
    /\ IsFiniteSet(Workflows)
    /\ Outcomes \subseteq {"succeeded", "canceled", "errored", "unauthorized", "not_run"}
    /\ BySHA \in BOOLEAN /\ FailFast \in BOOLEAN
    /\ PollInterval \in Nat \ {0} /\ SearchInterval \in Nat \ {0}
    /\ MaxPollInterval \in Nat /\ PollInterval <= MaxPollInterval
    /\ ShaWait \in Nat /\ Timeout \in Nat /\ ReadTimeout \in Nat
    /\ MaxTime \in Nat

VARIABLES
    run,       \* the run's phase on the server; "absent" before it is created
    createdAt, \* history: when it was created, while it is looked for
    wf,        \* wf[w]: the workflow on the server
    now,       \* time
    pc,        \* where the command is
    got,       \* the poll being put together: [run, wf, jobs]
    toRead,    \* workflows whose jobs are still to be read
    state,     \* the last complete poll
    interval,  \* pollInterval
    deadline,  \* of watchUntilDone; out of reach before it starts
    wakeAt,    \* end of the sleep, or of the time a read may take
    ctxDone,   \* the context was cancelled
    exit       \* how the command returned

server == <<run, createdAt, wf>>
vars   == <<run, createdAt, wf, now, pc, got, toRead, state, interval, deadline, wakeAt, ctxDone, exit>>

Absent == [phase |-> "absent", outcome |-> "", current |-> "", jobFailed |-> FALSE]

\* "other": the status word of the run itself, which the summary knows no more of.
Poll == [done: BOOLEAN, failed: BOOLEAN,
         outcome: {"succeeded", "canceled", "failed", "running", "other"}]

NoPoll == [done |-> FALSE, failed |-> FALSE, outcome |-> "running"]

NoRead == [run |-> "absent", wf |-> [w \in Workflows |-> Absent],
           jobs |-> [w \in Workflows |-> FALSE]]

Init ==
    /\ run \in IF BySHA THEN {"absent", "created"} ELSE {"created", "started"}
    /\ createdAt = 0
    /\ wf = [w \in Workflows |-> Absent]
    /\ now = 0
    /\ pc = IF BySHA THEN "search" ELSE "start"
    /\ got = NoRead /\ toRead = {} /\ state = NoPoll
    /\ interval = PollInterval
    /\ deadline = MaxTime /\ wakeAt = ReadTimeout
    /\ ctxDone = FALSE /\ exit = "none"

-----------------------------------------------------------------------------
(* The server, as far as the client can tell: a run is created, gets       *)
(* workflows (a setup workflow continues with more of them, so they need   *)
(* not all be there at once) and ends, as not_run with none at all when    *)
(* its config does not compile (apiclient/job.go:361).                     *)

RunCreated ==
    /\ run = "absent"
    /\ run' = "created" /\ createdAt' = now
    /\ UNCHANGED wf

RunStarts == run = "created" /\ run' = "started" /\ UNCHANGED <<createdAt, wf>>

RunEnds ==
    /\ \/ run = "created"
       \/ run = "started" /\ \A w \in Workflows : wf[w].phase # "started"
    /\ run' = "ended"
    /\ UNCHANGED <<createdAt, wf>>

WorkflowStarts(w) ==
    /\ run = "started" /\ wf[w].phase = "absent"
    /\ wf' = [wf EXCEPT ![w].phase = "started"]
    /\ UNCHANGED <<run, createdAt>>

JobFails(w) ==
    /\ wf[w].phase = "started" /\ ~wf[w].jobFailed
    /\ wf' = [wf EXCEPT ![w].jobFailed = TRUE, ![w].current = "failed"]
    /\ UNCHANGED <<run, createdAt>>

WorkflowEnds(w) ==
    /\ wf[w].phase = "started"
    /\ \E o \in IF wf[w].jobFailed THEN {"failed"} ELSE Outcomes :
          wf' = [wf EXCEPT ![w].phase = "ended", ![w].outcome = o]
    /\ UNCHANGED <<run, createdAt>>

Server ==
    /\ exit = "none"
    /\ \/ RunCreated \/ RunStarts \/ RunEnds
       \/ \E w \in Workflows : WorkflowStarts(w) \/ JobFails(w) \/ WorkflowEnds(w)
    /\ UNCHANGED <<now, pc, got, toRead, state, interval, deadline, wakeAt, ctxDone, exit>>

-----------------------------------------------------------------------------
(* One poll's verdict on the run.                                          *)

listed(r) == {w \in Workflows : r.wf[w].phase # "absent"}

allWorkflowsDone(r) ==
    /\ listed(r) # {}
    /\ \A w \in listed(r) : r.wf[w].phase = "ended"

\* Fault: any success makes the run a success.
deriveDisplayStatusAny(r) ==
    IF \E w \in listed(r) : r.wf[w].outcome = "succeeded" THEN "succeeded" ELSE "failed"

deriveDisplayStatus(r) ==
    LET any(o) == \E w \in listed(r) : r.wf[w].outcome = o
    IN  CASE \/ any("failed") \/ any("errored")
             \/ \E w \in listed(r) : r.wf[w].current = "failed"  -> "failed"
          [] OTHER ->
             CASE \E w \in listed(r) : r.wf[w].phase # "ended"   -> "running"
               [] OTHER -> IF any("canceled") THEN "canceled"
                           ELSE IF any("succeeded") THEN "succeeded" ELSE "other"

watchState(r) == [done    |-> allWorkflowsDone(r),
                  failed  |-> \E w \in listed(r) : r.jobs[w],
                  outcome |-> deriveDisplayStatus(r)]

watchFinalResult(s) ==
    CASE s.outcome = "succeeded" -> "success"
      [] s.outcome = "canceled"  -> "runCanceled"
      [] OTHER                   -> "runFailed"

-----------------------------------------------------------------------------
(* The command.                                                            *)

goto(place) == pc' = place /\ exit' = exit

ends(e) == pc' = "done" /\ exit' = e

\* A read fails, for the API's reasons or because the context is done.
readFails ==
    /\ pc \in {"search", "answer", "run", "workflows", "jobs"}
    /\ \/ ends("apiError")
       \/ ctxDone /\ ends("interrupted")
    /\ UNCHANGED <<server, now, got, toRead, state, interval, deadline, wakeAt, ctxDone>>

\* waitForRunBySHA: the server looks, and later its answer arrives.
search ==
    /\ pc = "search"
    /\ got' = [NoRead EXCEPT !.run = run]
    /\ goto("answer")
    /\ UNCHANGED <<server, now, toRead, state, interval, deadline, wakeAt, ctxDone>>

\* Fault: gives up as soon as the next search would be past the deadline.
searchAnswersEager ==
    /\ pc = "answer"
    /\ \/ got.run # "absent" /\ goto("start") /\ UNCHANGED wakeAt
       \/ /\ got.run = "absent" /\ now + SearchInterval > ShaWait
          /\ ends("notFound") /\ UNCHANGED wakeAt
       \/ /\ got.run = "absent" /\ now + SearchInterval <= ShaWait
          /\ goto("pause") /\ wakeAt' = now + SearchInterval
    /\ UNCHANGED <<server, now, got, toRead, state, interval, deadline, ctxDone>>

searchAnswers ==
    /\ pc = "answer"
    /\ \/ got.run # "absent" /\ goto("start") /\ UNCHANGED wakeAt
       \/ got.run = "absent" /\ now > ShaWait /\ ends("notFound") /\ UNCHANGED wakeAt
       \/ /\ got.run = "absent" /\ now <= ShaWait
          /\ goto("pause") /\ wakeAt' = now + SearchInterval
    /\ UNCHANGED <<server, now, got, toRead, state, interval, deadline, ctxDone>>

\* The head of watchUntilDone.
start ==
    /\ pc = "start"
    /\ goto("run")
    /\ deadline' = now + Timeout /\ wakeAt' = now + ReadTimeout
    /\ createdAt' = 0
    /\ UNCHANGED <<run, wf, now, got, toRead, state, interval, ctxDone>>

\* fetchWatchState: the run, its workflows, and the jobs of each of those.
getRun ==
    /\ pc = "run"
    /\ got' = [NoRead EXCEPT !.run = run]
    /\ goto("workflows") /\ wakeAt' = now + ReadTimeout
    /\ UNCHANGED <<server, now, toRead, state, interval, deadline, ctxDone>>

getRunWorkflows ==
    /\ pc = "workflows"
    /\ got' = [got EXCEPT !.wf = [w \in Workflows |-> [wf[w] EXCEPT !.jobFailed = FALSE]]]
    /\ toRead' = {w \in Workflows : wf[w].phase # "absent"}
    /\ goto("jobs") /\ wakeAt' = now + ReadTimeout
    /\ UNCHANGED <<server, now, state, interval, deadline, ctxDone>>

getWorkflowJobs(w) ==
    /\ pc = "jobs" /\ w \in toRead
    /\ got' = [got EXCEPT !.jobs[w] = wf[w].jobFailed]
    /\ toRead' = toRead \ {w}
    /\ wakeAt' = now + ReadTimeout
    /\ UNCHANGED <<server, now, pc, state, interval, deadline, ctxDone, exit>>

observe ==
    /\ pc = "jobs" /\ toRead = {}
    /\ state' = watchState(got)
    /\ goto("switch")
    /\ UNCHANGED <<server, now, got, toRead, interval, deadline, wakeAt, ctxDone>>

\* Fault: the timeout is looked at before the poll that just came back.
decideTimeoutFirst ==
    /\ pc = "switch"
    /\ \/ now > deadline /\ ends("timeout") /\ UNCHANGED wakeAt
       \/ now <= deadline /\ state.done /\ ends(watchFinalResult(state)) /\ UNCHANGED wakeAt
       \/ now <= deadline /\ ~state.done /\ FailFast /\ state.failed /\ ends("failFast") /\ UNCHANGED wakeAt
       \/ /\ now <= deadline /\ ~state.done /\ ~(FailFast /\ state.failed)
          /\ goto("sleep") /\ wakeAt' = now + interval
    /\ UNCHANGED <<server, now, got, toRead, state, interval, deadline, ctxDone>>

decide ==
    LET trips == FailFast /\ state.failed
    IN  /\ pc = "switch"
        /\ \/ state.done /\ ends(watchFinalResult(state)) /\ UNCHANGED wakeAt
           \/ ~state.done /\ trips /\ ends("failFast") /\ UNCHANGED wakeAt
           \/ ~state.done /\ ~trips /\ now > deadline /\ ends("timeout") /\ UNCHANGED wakeAt
           \/ ~state.done /\ ~trips /\ now <= deadline /\ goto("sleep") /\ wakeAt' = now + interval
        /\ UNCHANGED <<server, now, got, toRead, state, interval, deadline, ctxDone>>

widen == IF interval < MaxPollInterval THEN interval + PollInterval ELSE interval

\* Fault: the deadline is set afresh for every poll.
wakeAfresh ==
    /\ pc \in {"sleep", "pause"} /\ now >= wakeAt
    /\ goto(IF pc = "sleep" THEN "start" ELSE "search")
    /\ interval' = IF pc = "sleep" THEN widen ELSE interval
    /\ wakeAt' = now + ReadTimeout
    /\ UNCHANGED <<server, now, got, toRead, state, deadline, ctxDone>>

\* The two ends of sleepOrCancel.
wake ==
    /\ pc \in {"sleep", "pause"} /\ now >= wakeAt
    /\ goto(IF pc = "sleep" THEN "run" ELSE "search")
    /\ interval' = IF pc = "sleep" THEN widen ELSE interval
    /\ wakeAt' = now + ReadTimeout
    /\ UNCHANGED <<server, now, got, toRead, state, deadline, ctxDone>>

\* Fault: an interrupted sleep is reported as the end of the wait.
sleepCancelledAsTimeout ==
    /\ pc \in {"sleep", "pause"} /\ ctxDone
    /\ ends("timeout")
    /\ UNCHANGED <<server, now, got, toRead, state, interval, deadline, wakeAt, ctxDone>>

sleepCancelled ==
    /\ pc \in {"sleep", "pause"} /\ ctxDone
    /\ ends("interrupted")
    /\ UNCHANGED <<server, now, got, toRead, state, interval, deadline, wakeAt, ctxDone>>

Signal ==
    /\ exit = "none" /\ ~ctxDone
    /\ ctxDone' = TRUE
    /\ UNCHANGED <<server, now, pc, got, toRead, state, interval, deadline, wakeAt, exit>>

\* Time passes while the command waits, for an answer or for its timer, and
\* neither comes late.
Advance ==
    /\ pc \in {"search", "answer", "run", "workflows", "jobs", "pause", "sleep"}
    /\ pc = "jobs" => toRead # {}
    /\ now < wakeAt /\ now < MaxTime
    /\ now' = now + 1
    /\ UNCHANGED <<server, pc, got, toRead, state, interval, deadline, wakeAt, ctxDone, exit>>

Returned == exit # "none" /\ UNCHANGED vars

Command ==
    \/ search \/ searchAnswers \/ start \/ getRun \/ getRunWorkflows
    \/ \E w \in Workflows : getWorkflowJobs(w)
    \/ readFails \/ observe \/ decide \/ wake \/ sleepCancelled

Next == Server \/ Command \/ Signal \/ Advance \/ Returned

\* Every read comes back or fails within its timeout, and timers fire; nothing
\* is assumed of the server or the user.
Spec == Init /\ [][Next]_vars /\ WF_vars(Command) /\ WF_vars(Advance)

-----------------------------------------------------------------------------
(* Properties.                                                             *)

Runs   == {"absent", "created", "started", "ended"}
OfFlow == [phase : {"absent", "started", "ended"}, outcome : Outcomes \cup {"", "failed"},
           current : {"", "failed"}, jobFailed : BOOLEAN]

TypeOK ==
    /\ run \in Runs /\ createdAt \in Nat /\ wf \in [Workflows -> OfFlow] /\ now \in Nat
    /\ pc \in {"search", "answer", "pause", "start", "run", "workflows", "jobs", "switch", "sleep", "done"}
    /\ got \in [run : Runs, wf : [Workflows -> OfFlow], jobs : [Workflows -> BOOLEAN]]
    /\ toRead \subseteq Workflows /\ state \in Poll
    /\ interval \in Nat /\ deadline \in Nat /\ wakeAt \in Nat /\ ctxDone \in BOOLEAN
    /\ exit \in {"none", "apiError", "notFound", "timeout", "failFast", "interrupted",
                 "success", "runCanceled", "runFailed"}
    /\ exit = "none" <=> pc # "done"

Promise == INSTANCE RunWatchPromise WITH
    Polls <- Poll, last <- state, asked <- ctxDone,
    due <- now > deadline,
    exit <- IF exit = "notFound" THEN "apiError" ELSE exit

\* Both watchers return what their polls, the clock or the user account for.
ImplementsPromise == Promise!Spec

\* A success is true of the run itself, not just of the snapshot: whatever moved
\* between the reads of one poll, every workflow that was listed has ended on the
\* server, none failed or was cancelled, and one succeeded.
SuccessIsTrue ==
    exit = "success" =>
        /\ \A w \in listed(got) : /\ wf[w].phase = "ended"
                                  /\ wf[w].outcome \notin {"failed", "errored", "canceled"}
                                  /\ ~wf[w].jobFailed
        /\ \E w \in listed(got) : wf[w].outcome = "succeeded"

\* A timeout is reported only after the full time, at most one wait and one poll (a
\* read for the run, one for its workflows, one for each) after it, and never of a
\* finished run, nor of a failing job with --failfast, however late the poll that
\* says so came (watch.go, watchUntilDone).
TimeoutIsDue ==
    exit = "timeout" =>
        /\ ~allWorkflowsDone(got) /\ (FailFast => \A w \in listed(got) : ~got.jobs[w])
        /\ now > deadline
        /\ now <= deadline + MaxPollInterval + PollInterval
                   + (2 + Cardinality(Workflows)) * ReadTimeout

\* --sha gives up only on a run created too late for the last search to see it
\* (the deadline is looked at after a search, not before the next), and then
\* without delay.
NotFoundIsLate ==
    exit = "notFound" =>
        /\ run # "absent" => createdAt + ReadTimeout > ShaWait
        /\ now <= ShaWait + SearchInterval + 2 * ReadTimeout

\* The command returns, by itself, whatever becomes of the run.
Terminates == <>(exit # "none")

\* "Run ... did not complete within" the timeout (watch.go:433): it had not ended
\* when the last poll asked.
TimeoutMeansNotComplete == exit = "timeout" => got.run # "ended"
=============================================================================
