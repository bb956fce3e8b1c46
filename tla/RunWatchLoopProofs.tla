------------------------- MODULE RunWatchLoopProofs -------------------------
(***************************************************************************)
(* What the watcher away from a terminal returns, for any workflows, any   *)
(* times and any course of the run on the server.                          *)
(***************************************************************************)
EXTENDS RunWatchLoop, FiniteSetTheorems, TLAPS

\* What has ended on the server stays as a poll has seen it, and a workflow of which a
\* job failed ends as failed.
ServerInv == \A w \in Workflows :
    /\ wf[w].jobFailed /\ wf[w].phase = "ended" => wf[w].outcome = "failed"
    /\ got.wf[w].phase = "ended" => wf[w].phase = "ended" /\ wf[w].outcome = got.wf[w].outcome

\* What is decided on is the verdict on the poll in hand.
VerdictInv ==
    /\ pc = "switch" \/ exit \in {"success", "timeout"} => state = watchState(got)
    /\ exit = "success" => state.done /\ watchFinalResult(state) = "success"
    /\ exit = "timeout" => ~state.done /\ ~(FailFast /\ state.failed)

\* The command never outsleeps its timer, nor the time of a read.
Waits   == {"search", "answer", "pause", "run", "workflows", "sleep"}
TimerInv == pc \in Waits \/ (pc = "jobs" /\ toRead # {}) => now <= wakeAt

\* The latest a poll can begin, and how far it has got since then.
LastWake == deadline + MaxPollInterval + PollInterval
Reads(n) == n * ReadTimeout
PollInv ==
    /\ interval <= MaxPollInterval + PollInterval
    /\ pc = "sleep" => wakeAt <= LastWake
    /\ pc = "run" => wakeAt <= LastWake + Reads(1)
    /\ pc = "workflows" => wakeAt <= LastWake + Reads(2)
    /\ pc = "jobs" /\ toRead # {} =>
          wakeAt <= LastWake + Reads(3 + Cardinality(Workflows) - Cardinality(toRead))
    /\ (pc = "jobs" /\ toRead = {}) \/ pc = "switch" \/ exit = "timeout" =>
          now <= LastWake + Reads(2 + Cardinality(Workflows))
    /\ exit = "timeout" => now > deadline

\* A search asks no earlier than a read's time before its answer is due, so a run that
\* it did not see is younger than that.
SearchInv ==
    /\ pc \in {"search", "answer"} => wakeAt <= now + ReadTimeout
    /\ pc \in {"search", "answer"} => wakeAt <= ShaWait + SearchInterval + 2 * ReadTimeout
    /\ pc = "pause" => wakeAt <= ShaWait + SearchInterval
    /\ pc = "answer" /\ got.run = "absent" /\ run # "absent" => wakeAt <= createdAt + ReadTimeout
    /\ NotFoundIsLate

\* The deadline is out of reach until the watch proper sets it.
DeadlineInv == now <= MaxTime /\ (pc \in {"search", "answer", "pause", "start"} => deadline = MaxTime)

Inv == TypeOK /\ ServerInv /\ VerdictInv /\ TimerInv /\ PollInv /\ SearchInv /\ DeadlineInv
-----------------------------------------------------------------------------
Got == [run : Runs, wf : [Workflows -> OfFlow], jobs : [Workflows -> BOOLEAN]]

LEMMA NothingRead == NoRead \in Got /\ NoPoll \in Poll /\ Absent \in OfFlow
BY DEF NoRead, Got, NoPoll, Poll, Absent, OfFlow, Runs

LEMMA GotType == TypeOK => got \in Got /\ got.wf \in [Workflows -> OfFlow] /\ got.jobs \in [Workflows -> BOOLEAN]
BY DEF TypeOK, Got

LEMMA InitType == Init => TypeOK
<1> SUFFICES ASSUME Init PROVE TypeOK
  OBVIOUS
<1>1. run \in Runs /\ wf \in [Workflows -> OfFlow]
  BY NothingRead DEF Init, Runs
<1> QED BY <1>1, NothingRead, LoopAssumption DEF Init, TypeOK, Got

\* The server moves one workflow at most, and none that has ended.
Moves == \A w \in Workflows :
    /\ wf'[w] \in OfFlow
    /\ wf[w].phase = "ended" => wf'[w] = wf[w]
    /\ wf'[w].jobFailed /\ wf'[w].phase = "ended" => wf[w] = wf'[w] \/ wf'[w].outcome = "failed"

LEMMA FlowMoves ==
    ASSUME TypeOK, NEW w \in Workflows, NEW f \in OfFlow, wf' = [wf EXCEPT ![w] = f],
           wf[w].phase # "ended", f.jobFailed /\ f.phase = "ended" => f.outcome = "failed"
    PROVE  wf' \in [Workflows -> OfFlow] /\ Moves
BY DEF TypeOK, Moves

LEMMA ServerMoves ==
    ASSUME TypeOK, Server
    PROVE  /\ wf' \in [Workflows -> OfFlow] /\ Moves
           /\ run' \in Runs /\ createdAt' \in Nat /\ exit = "none"
           /\ \/ createdAt' = createdAt /\ (run' = "absent" <=> run = "absent")
              \/ run = "absent" /\ createdAt' = now
           /\ UNCHANGED <<now, pc, got, toRead, state, interval, deadline, wakeAt, ctxDone, exit>>
<1>0. UNCHANGED <<now, pc, got, toRead, state, interval, deadline, wakeAt, ctxDone, exit>> /\ exit = "none"
  BY DEF Server
<1>1. CASE RunCreated \/ RunStarts \/ RunEnds
  <2>1. wf' = wf /\ wf \in [Workflows -> OfFlow] /\ Moves
    BY <1>1 DEF RunCreated, RunStarts, RunEnds, TypeOK, Moves
  <2>2. /\ run' \in Runs /\ createdAt' \in Nat
        /\ \/ createdAt' = createdAt /\ (run' = "absent" <=> run = "absent")
           \/ run = "absent" /\ createdAt' = now
    BY <1>1 DEF RunCreated, RunStarts, RunEnds, TypeOK, Runs
  <2> QED BY <1>0, <2>1, <2>2
<1>2. ASSUME NEW w \in Workflows, WorkflowStarts(w) \/ JobFails(w) \/ WorkflowEnds(w)
      PROVE  wf' \in [Workflows -> OfFlow] /\ Moves /\ UNCHANGED <<run, createdAt>>
  <2>0. wf[w] \in OfFlow
    BY DEF TypeOK
  <2>1. CASE WorkflowStarts(w)
    <3>1. wf' = [wf EXCEPT ![w] = [wf[w] EXCEPT !.phase = "started"]] /\ wf[w].phase = "absent"
      BY <2>1 DEF WorkflowStarts
    <3>2. [wf[w] EXCEPT !.phase = "started"] \in OfFlow /\ [wf[w] EXCEPT !.phase = "started"].phase = "started"
      BY <2>0 DEF OfFlow
    <3> QED BY <2>1, <3>1, <3>2, FlowMoves DEF WorkflowStarts
  <2>2. CASE JobFails(w)
    <3>1. wf' = [wf EXCEPT ![w] = [wf[w] EXCEPT !.jobFailed = TRUE, !.current = "failed"]]
          /\ wf[w].phase = "started"
      BY <2>2 DEF JobFails
    <3>2. /\ [wf[w] EXCEPT !.jobFailed = TRUE, !.current = "failed"] \in OfFlow
          /\ [wf[w] EXCEPT !.jobFailed = TRUE, !.current = "failed"].phase = wf[w].phase
      BY <2>0 DEF OfFlow
    <3> QED BY <2>2, <3>1, <3>2, FlowMoves DEF JobFails
  <2>3. CASE WorkflowEnds(w)
    <3>1. PICK o \in IF wf[w].jobFailed THEN {"failed"} ELSE Outcomes :
             wf' = [wf EXCEPT ![w] = [wf[w] EXCEPT !.phase = "ended", !.outcome = o]]
      BY <2>3 DEF WorkflowEnds
    <3>2. /\ [wf[w] EXCEPT !.phase = "ended", !.outcome = o] \in OfFlow
          /\ [wf[w] EXCEPT !.phase = "ended", !.outcome = o].outcome = o
          /\ [wf[w] EXCEPT !.phase = "ended", !.outcome = o].jobFailed = wf[w].jobFailed
      BY <2>0, <3>1 DEF OfFlow
    <3>3. wf[w].phase = "started"
      BY <2>3 DEF WorkflowEnds
    <3> QED BY <2>3, <3>1, <3>2, <3>3, FlowMoves DEF WorkflowEnds
  <2> QED BY <1>2, <2>1, <2>2, <2>3
<1>3. CASE \E w \in Workflows : WorkflowStarts(w) \/ JobFails(w) \/ WorkflowEnds(w)
  <2>1. wf' \in [Workflows -> OfFlow] /\ Moves /\ UNCHANGED <<run, createdAt>>
    BY <1>2, <1>3
  <2> QED BY <1>0, <2>1 DEF TypeOK
<1> QED BY <1>1, <1>3 DEF Server

LEMMA VerdictType ==
    ASSUME NEW r \in Got
    PROVE  watchState(r) \in Poll
<1>1. deriveDisplayStatus(r) \in {"succeeded", "canceled", "failed", "running", "other"}
  BY DEF deriveDisplayStatus
<1>2. allWorkflowsDone(r) \in BOOLEAN /\ (\E w \in listed(r) : r.jobs[w]) \in BOOLEAN
  BY DEF allWorkflowsDone
<1> QED BY <1>1, <1>2 DEF watchState, Poll

LEMMA StepType == TypeOK /\ [Next]_vars => TypeOK'
<1> SUFFICES ASSUME TypeOK, [Next]_vars PROVE TypeOK'
  OBVIOUS
<1> USE DEF goto, ends
<1>0. /\ PollInterval \in Nat /\ SearchInterval \in Nat /\ MaxPollInterval \in Nat
      /\ Timeout \in Nat /\ ReadTimeout \in Nat
  BY LoopAssumption
<1>1. CASE Server
  BY <1>1, ServerMoves DEF TypeOK
<1>2. CASE search
  <2>1. got' \in Got
    BY <1>2 DEF search, NoRead, Got, TypeOK, Runs, Absent, OfFlow
  <2> QED BY <1>2, <2>1 DEF search, server, TypeOK, Got
<1>3. CASE searchAnswers
  BY <1>0, <1>3 DEF searchAnswers, server, TypeOK
<1>4. CASE start
  BY <1>0, <1>4 DEF start, TypeOK
<1>5. CASE getRun
  <2>1. got' \in Got
    BY <1>5 DEF getRun, NoRead, Got, TypeOK, Runs, Absent, OfFlow
  <2> QED BY <1>0, <1>5, <2>1 DEF getRun, server, TypeOK, Got
<1>6. CASE getRunWorkflows
  <2>1. [w \in Workflows |-> [wf[w] EXCEPT !.jobFailed = FALSE]] \in [Workflows -> OfFlow]
    <3>1. ASSUME NEW w \in Workflows PROVE [wf[w] EXCEPT !.jobFailed = FALSE] \in OfFlow
      <4>1. wf[w] \in OfFlow
        BY DEF TypeOK
      <4> QED BY <4>1 DEF OfFlow
    <3> QED BY <3>1
  <2>2. got' \in Got
    BY <1>6, <2>1 DEF getRunWorkflows, TypeOK, Got
  <2>3. toRead' \subseteq Workflows /\ wakeAt' \in Nat /\ pc' = "jobs"
    BY <1>0, <1>6 DEF getRunWorkflows, TypeOK
  <2>4. UNCHANGED <<server, now, state, interval, deadline, ctxDone, exit>> /\ exit = "none"
    BY <1>6 DEF getRunWorkflows, TypeOK
  <2> QED BY <2>2, <2>3, <2>4 DEF server, TypeOK, Got
<1>7. ASSUME NEW w \in Workflows, getWorkflowJobs(w) PROVE TypeOK'
  <2>1. wf[w].jobFailed \in BOOLEAN
    BY DEF TypeOK, OfFlow
  <2>2. [got.jobs EXCEPT ![w] = wf[w].jobFailed] \in [Workflows -> BOOLEAN]
    BY <2>1, GotType
  <2>3. got' = [got EXCEPT !.jobs = [got.jobs EXCEPT ![w] = wf[w].jobFailed]]
    BY <1>7 DEF getWorkflowJobs
  <2>4. got' \in Got
    BY <2>2, <2>3, GotType DEF Got
  <2> QED BY <1>0, <1>7, <2>4 DEF getWorkflowJobs, server, TypeOK, Got
<1>8. CASE readFails
  BY <1>8 DEF readFails, server, TypeOK
<1>9. CASE observe
  BY <1>9, GotType, VerdictType DEF observe, server, TypeOK
<1>10. CASE decide
  <2>1. watchFinalResult(state) \in {"success", "runCanceled", "runFailed"}
    BY DEF watchFinalResult
  <2>2. wakeAt' \in Nat
    BY <1>10 DEF decide, TypeOK
  <2> QED BY <1>10, <2>1, <2>2 DEF decide, server, TypeOK
<1>11. CASE wake
  BY <1>0, <1>11 DEF wake, widen, server, TypeOK
<1>12. CASE sleepCancelled \/ Signal
  BY <1>12 DEF sleepCancelled, Signal, server, TypeOK
<1>13. CASE Advance
  BY <1>13 DEF Advance, server, TypeOK
<1>14. CASE UNCHANGED vars
  BY <1>14 DEF vars, server, TypeOK
<1> QED BY <1>1, <1>2, <1>3, <1>4, <1>5, <1>6, <1>7, <1>8, <1>9, <1>10, <1>11, <1>12, <1>13, <1>14
        DEF Next, Command, Returned
-----------------------------------------------------------------------------
LEMMA ServerStep == TypeOK /\ ServerInv /\ [Next]_vars => ServerInv'
<1> SUFFICES ASSUME TypeOK, ServerInv, [Next]_vars PROVE ServerInv'
  OBVIOUS
<1>1. CASE Server
  BY <1>1, ServerMoves DEF ServerInv, Moves
<1>2. CASE search \/ getRun
  <2>1. wf' = wf /\ \A w \in Workflows : got'.wf[w].phase = "absent"
    <3>1. wf' = wf /\ got' = [NoRead EXCEPT !.run = run]
      BY <1>2 DEF search, getRun, server
    <3>2. got'.wf = [w \in Workflows |-> Absent]
      BY <3>1 DEF NoRead
    <3>3. Absent.phase = "absent"
      BY DEF Absent
    <3> QED BY <3>1, <3>2, <3>3
  <2> QED BY <2>1 DEF ServerInv
<1>3. CASE getRunWorkflows
  <2>1. wf' = wf /\ got'.wf = [w \in Workflows |-> [wf[w] EXCEPT !.jobFailed = FALSE]]
    BY <1>3, GotType DEF getRunWorkflows, server, Got
  <2>2. ASSUME NEW w \in Workflows
        PROVE  got'.wf[w].phase = wf[w].phase /\ got'.wf[w].outcome = wf[w].outcome
    <3>1. wf[w] \in OfFlow
      BY DEF TypeOK
    <3>2. got'.wf[w] = [wf[w] EXCEPT !.jobFailed = FALSE]
      BY <2>1
    <3> QED BY <3>1, <3>2 DEF OfFlow
  <2> QED BY <2>1, <2>2 DEF ServerInv
<1>4. ASSUME NEW w \in Workflows, getWorkflowJobs(w) PROVE ServerInv'
  <2>1. wf' = wf /\ got'.wf = got.wf
    BY <1>4, GotType DEF getWorkflowJobs, server, Got
  <2> QED BY <2>1 DEF ServerInv
<1>5. CASE UNCHANGED <<wf, got>>
  BY <1>5 DEF ServerInv
<1> QED BY <1>1, <1>2, <1>3, <1>4, <1>5
        DEF Next, Command, Returned, server, vars, searchAnswers, start, readFails, observe, decide, wake,
            sleepCancelled, Signal, Advance

LEMMA VerdictStep == TypeOK /\ VerdictInv /\ [Next]_vars => VerdictInv'
<1> SUFFICES ASSUME TypeOK, VerdictInv, [Next]_vars PROVE VerdictInv'
  OBVIOUS
<1> USE DEF goto, ends
<1>1. CASE pc' # "switch" /\ exit' \notin {"success", "timeout"}
  BY <1>1 DEF VerdictInv
<1>2. CASE UNCHANGED <<pc, exit, state, got>>
  <2>1. watchState(got)' = watchState(got)
    BY <1>2 DEF watchState, allWorkflowsDone, deriveDisplayStatus, listed
  <2> QED BY <1>2, <2>1 DEF VerdictInv
<1>3. CASE observe
  <2>1. pc' = "switch" /\ exit' = "none" /\ state' = watchState(got) /\ got' = got
    BY <1>3 DEF observe, TypeOK
  <2>2. watchState(got)' = watchState(got)
    BY <2>1 DEF watchState, allWorkflowsDone, deriveDisplayStatus, listed
  <2> QED BY <2>1, <2>2 DEF VerdictInv
<1>4. CASE decide
  <2>1. state = watchState(got) /\ UNCHANGED <<state, got>> /\ pc' \in {"done", "sleep"}
    BY <1>4 DEF decide, VerdictInv
  <2>2. watchState(got)' = watchState(got)
    BY <2>1 DEF watchState, allWorkflowsDone, deriveDisplayStatus, listed
  <2>3. watchFinalResult(state) # "timeout" /\ watchFinalResult(state)' = watchFinalResult(state)
    BY <2>1 DEF watchFinalResult
  <2>4. /\ exit' = "success" => state.done /\ watchFinalResult(state) = "success"
        /\ exit' = "timeout" => ~state.done /\ ~(FailFast /\ state.failed)
    BY <1>4, <2>3 DEF decide, TypeOK
  <2> QED BY <2>1, <2>2, <2>3, <2>4 DEF VerdictInv
<1>5. CASE search \/ searchAnswers \/ start \/ getRun \/ getRunWorkflows \/ readFails \/ wake
           \/ sleepCancelled \/ Advance \/ \E w \in Workflows : getWorkflowJobs(w)
  BY <1>1, <1>5 DEF TypeOK, search, searchAnswers, start, getRun, getRunWorkflows, getWorkflowJobs,
        readFails, wake, sleepCancelled, Advance
<1>6. CASE Server \/ Signal \/ UNCHANGED vars
  BY <1>2, <1>6 DEF Server, Signal, vars
<1> QED BY <1>3, <1>4, <1>5, <1>6 DEF Next, Command, Returned

LEMMA DeadlineStep == TypeOK /\ DeadlineInv /\ [Next]_vars => DeadlineInv'
<1> SUFFICES ASSUME TypeOK, DeadlineInv, [Next]_vars PROVE DeadlineInv'
  OBVIOUS
<1> USE LoopAssumption DEF goto, ends, TypeOK, DeadlineInv, server
<1>1. CASE Server \/ Signal \/ UNCHANGED vars
  BY <1>1 DEF Server, Signal, vars
<1>2. CASE search \/ searchAnswers \/ start \/ getRun \/ getRunWorkflows
  BY <1>2 DEF search, searchAnswers, start, getRun, getRunWorkflows
<1>3. CASE readFails \/ observe \/ decide \/ wake \/ sleepCancelled
  BY <1>3 DEF readFails, observe, decide, wake, sleepCancelled
<1>4. CASE Advance \/ \E w \in Workflows : getWorkflowJobs(w)
  BY <1>4 DEF Advance, getWorkflowJobs
<1> QED BY <1>1, <1>2, <1>3, <1>4 DEF Next, Command, Returned

LEMMA TimerStep == TypeOK /\ TimerInv /\ [Next]_vars => TimerInv'
<1> SUFFICES ASSUME TypeOK, TimerInv, [Next]_vars PROVE TimerInv'
  OBVIOUS
<1> USE LoopAssumption DEF goto, ends, TypeOK, TimerInv, Waits, server
<1>1. CASE Server \/ Signal \/ UNCHANGED vars
  BY <1>1 DEF Server, Signal, vars
<1>2. CASE search \/ searchAnswers \/ start
  BY <1>2 DEF search, searchAnswers, start
<1>3. CASE getRun \/ getRunWorkflows \/ \E w \in Workflows : getWorkflowJobs(w)
  <2>1. wakeAt' = now + ReadTimeout /\ now' = now
    BY <1>3 DEF getRun, getRunWorkflows, getWorkflowJobs
  <2> QED BY <2>1
<1>4. CASE readFails \/ observe \/ decide \/ wake \/ sleepCancelled
  BY <1>4 DEF readFails, observe, decide, wake, sleepCancelled
<1>5. CASE Advance
  BY <1>5 DEF Advance
<1> QED BY <1>1, <1>2, <1>3, <1>4, <1>5 DEF Next, Command, Returned

LEMMA SearchStep == TypeOK /\ TimerInv /\ SearchInv /\ [Next]_vars => SearchInv'
<1> SUFFICES ASSUME TypeOK, TimerInv, SearchInv, [Next]_vars PROVE SearchInv'
  OBVIOUS
<1> USE LoopAssumption DEF goto, ends, TypeOK, SearchInv, NotFoundIsLate, server
<1>1. CASE Server
  <2>1. /\ UNCHANGED <<now, pc, got, wakeAt, exit>> /\ exit = "none"
        /\ \/ createdAt' = createdAt /\ (run' = "absent" <=> run = "absent")
           \/ run = "absent" /\ createdAt' = now
    BY <1>1, ServerMoves
  <2> QED BY <2>1
<1>2. CASE Signal \/ UNCHANGED vars
  BY <1>2 DEF Signal, vars
<1>3. CASE search
  <2>1. got'.run = run /\ pc = "search" /\ pc' = "answer" /\ exit' = exit
        /\ UNCHANGED <<now, wakeAt, run, createdAt>>
    BY <1>3 DEF search, NoRead
  <2> QED BY <2>1
<1>4. CASE searchAnswers
  BY <1>4 DEF searchAnswers, TimerInv, Waits
<1>5. CASE wake
  <2>1. /\ pc' = (IF pc = "sleep" THEN "run" ELSE "search") /\ exit' = exit /\ now >= wakeAt
        /\ wakeAt' = now + ReadTimeout /\ UNCHANGED <<now, run, createdAt, got>> /\ pc \in {"sleep", "pause"}
    BY <1>5 DEF wake
  <2>2. now <= wakeAt
    BY <2>1 DEF TimerInv, Waits
  <2> QED BY <2>1, <2>2
<1>6. CASE Advance
  BY <1>6 DEF Advance, TimerInv, Waits
<1>7. CASE readFails \/ sleepCancelled
  BY <1>7 DEF readFails, sleepCancelled
<1>8. CASE start \/ getRun \/ getRunWorkflows \/ observe \/ \E w \in Workflows : getWorkflowJobs(w)
  BY <1>8 DEF start, getRun, getRunWorkflows, observe, getWorkflowJobs
<1>9. CASE decide
  <2>1. watchFinalResult(state) # "notFound"
    BY DEF watchFinalResult
  <2> QED BY <1>9, <2>1 DEF decide
<1> QED BY <1>1, <1>2, <1>3, <1>4, <1>5, <1>6, <1>7, <1>8, <1>9 DEF Next, Command, Returned
-----------------------------------------------------------------------------
LEMMA ReadsAdd ==
    ASSUME NEW m \in Int, NEW n \in Int
    PROVE  /\ Reads(n) \in Int /\ Reads(n + 1) = Reads(n) + ReadTimeout
           /\ m <= n => Reads(m) <= Reads(n)
           /\ Reads(1) = ReadTimeout /\ Reads(2) = ReadTimeout + ReadTimeout
<1>0. ReadTimeout \in Nat
  BY LoopAssumption
<1>1. ASSUME NEW r \in Nat, NEW i \in Int
      PROVE  i * r \in Int /\ (i + 1) * r = i * r + r /\ 1 * r = r /\ 2 * r = r + r
  OBVIOUS
<1>2. ASSUME NEW r \in Nat, m <= n PROVE m * r <= n * r
  <2>1. n * r - m * r = (n - m) * r
    OBVIOUS
  <2>2. n - m \in Nat
    BY <1>2
  <2>3. (n - m) * r \in Nat
    BY <2>2
  <2>4. n * r \in Int /\ m * r \in Int
    OBVIOUS
  <2> QED BY <2>1, <2>3, <2>4
<1> QED BY <1>0, <1>1, <1>2 DEF Reads

LEMMA Counting ==
    ASSUME NEW T, T \subseteq Workflows
    PROVE  /\ Cardinality(T) \in Nat /\ Cardinality(Workflows) \in Nat
           /\ Cardinality(T) <= Cardinality(Workflows)
           /\ T # {} => Cardinality(T) >= 1
           /\ \A w \in T : Cardinality(T \ {w}) = Cardinality(T) - 1
<1>1. IsFiniteSet(Workflows) /\ IsFiniteSet(T) /\ Cardinality(T) <= Cardinality(Workflows)
  BY LoopAssumption, FS_Subset
<1>2. Cardinality(T) \in Nat /\ Cardinality(Workflows) \in Nat
  BY <1>1, FS_CardinalityType
<1>3. T # {} => Cardinality(T) >= 1
  BY <1>1, <1>2, FS_EmptySet
<1>4. \A w \in T : Cardinality(T \ {w}) = Cardinality(T) - 1
  BY <1>1, FS_RemoveElement
<1> QED BY <1>1, <1>2, <1>3, <1>4

LEMMA PollStep == TypeOK /\ TimerInv /\ PollInv /\ [Next]_vars => PollInv'
<1> SUFFICES ASSUME TypeOK, TimerInv, PollInv, [Next]_vars PROVE PollInv'
  OBVIOUS
<1> DEFINE N == Cardinality(Workflows)
<1>0. /\ PollInterval \in Nat /\ MaxPollInterval \in Nat /\ ReadTimeout \in Nat /\ Timeout \in Nat
      /\ PollInterval <= MaxPollInterval /\ N \in Nat
  BY LoopAssumption, Counting
<1>1. /\ now \in Nat /\ wakeAt \in Nat /\ deadline \in Nat /\ interval \in Nat /\ toRead \subseteq Workflows
      /\ LastWake \in Nat
  BY <1>0 DEF TypeOK, LastWake
<1>2. /\ \A n \in Int : Reads(n) \in Int /\ Reads(n + 1) = Reads(n) + ReadTimeout
      /\ \A m, n \in Int : m <= n => Reads(m) <= Reads(n)
      /\ Reads(1) = ReadTimeout /\ Reads(2) = ReadTimeout + ReadTimeout
  BY ReadsAdd
<1> USE DEF goto, ends
\* What a step has to show that changes neither the deadline nor the interval.
<1>3. ASSUME UNCHANGED <<deadline, interval>>,
             UNCHANGED <<pc, toRead, wakeAt, exit>> \/ pc' \in {"search", "answer", "pause", "start", "done"},
             now' = now, exit' = "timeout" => exit = "timeout"
      PROVE  PollInv'
  BY <1>3 DEF PollInv, LastWake, Reads
<1>4. CASE Server \/ Signal \/ UNCHANGED vars
  BY <1>3, <1>4 DEF Server, Signal, vars
<1>5. CASE search \/ searchAnswers \/ readFails \/ sleepCancelled
  BY <1>3, <1>5 DEF search, searchAnswers, readFails, sleepCancelled, TypeOK
<1>6. CASE start
  <2>1. /\ pc' = "run" /\ exit' # "timeout" /\ interval' = interval /\ deadline' = now + Timeout
        /\ wakeAt' = now + ReadTimeout
    BY <1>6 DEF start, TypeOK
  <2>2. LastWake' = now + Timeout + MaxPollInterval + PollInterval
    BY <2>1 DEF LastWake
  <2>3. wakeAt' <= LastWake' + Reads(1)
    BY <1>0, <1>1, <1>2, <2>1, <2>2
  <2> QED BY <2>1, <2>3 DEF PollInv, Reads
<1>7. CASE getRun
  <2>1. /\ pc = "run" /\ pc' = "workflows" /\ exit' # "timeout" /\ wakeAt' = now + ReadTimeout
        /\ UNCHANGED <<interval, deadline>> /\ now <= wakeAt /\ wakeAt <= LastWake + Reads(1)
    BY <1>7 DEF getRun, TypeOK, TimerInv, Waits, PollInv
  <2>2. wakeAt' <= LastWake + Reads(2)
    BY <1>0, <1>1, <1>2, <2>1
  <2> QED BY <2>1, <2>2 DEF PollInv, LastWake, Reads
<1>8. CASE getRunWorkflows
  <2>1. /\ pc = "workflows" /\ pc' = "jobs" /\ exit' # "timeout" /\ wakeAt' = now + ReadTimeout
        /\ UNCHANGED <<interval, deadline, now>> /\ now <= wakeAt /\ wakeAt <= LastWake + Reads(2)
        /\ toRead' \subseteq Workflows
    BY <1>8 DEF getRunWorkflows, TypeOK, TimerInv, Waits, PollInv
  <2> DEFINE k == Cardinality(toRead')
  <2>2. k \in Nat /\ k <= N
    BY <2>1, Counting
  <2>9. 3 + N - k \in Int /\ 2 + N \in Int /\ 3 <= 3 + N - k /\ 2 <= 2 + N /\ 2 + 1 = 3
    BY <1>0, <2>2
  <2> HIDE DEF k, N
  <2>3. Reads(3) = Reads(2) + ReadTimeout /\ Reads(3) <= Reads(3 + N - k) /\ Reads(2) <= Reads(2 + N)
    <3>1. Reads(2 + 1) = Reads(2) + ReadTimeout
      BY <1>2
    <3> QED BY <1>2, <2>9, <3>1
  <2>4. Reads(3 + N - k) \in Int /\ Reads(2 + N) \in Int
    BY <1>2, <2>9
  <2>5. wakeAt' <= LastWake + Reads(3 + N - k) /\ now <= LastWake + Reads(2 + N)
    <3>1. Reads(2) \in Int /\ Reads(3) \in Int
      BY <1>2
    <3> DEFINE r2 == Reads(2)  r3 == Reads(3)  rk == Reads(3 + N - k)  rn == Reads(2 + N)
    <3>2. /\ r2 \in Int /\ r3 \in Int /\ rk \in Int /\ rn \in Int
          /\ r3 = r2 + ReadTimeout /\ r3 <= rk /\ r2 <= rn /\ wakeAt <= LastWake + r2
      BY <2>1, <2>3, <2>4, <3>1
    <3> HIDE DEF r2, r3, rk, rn
    <3>3. wakeAt' <= LastWake + rk /\ now <= LastWake + rn
      BY <1>0, <1>1, <2>1, <3>2
    <3> QED BY <3>3 DEF rk, rn
  <2>6. LastWake' = LastWake
    BY <2>1 DEF LastWake
  <2> QED BY <2>1, <2>5, <2>6 DEF PollInv, Reads, k, N
<1>9. ASSUME NEW w \in Workflows, getWorkflowJobs(w) PROVE PollInv'
  <2> DEFINE k == Cardinality(toRead)
  <2>1. /\ pc = "jobs" /\ w \in toRead /\ toRead' = toRead \ {w} /\ exit' = exit /\ exit = "none"
        /\ wakeAt' = now + ReadTimeout /\ UNCHANGED <<interval, deadline, now, pc>>
    BY <1>9 DEF getWorkflowJobs, TypeOK
  <2>2. now <= wakeAt /\ wakeAt <= LastWake + Reads(3 + N - k)
    BY <2>1 DEF TimerInv, PollInv
  <2>3. k \in Nat /\ k <= N /\ k >= 1 /\ Cardinality(toRead') = k - 1
    BY <1>1, <2>1, Counting
  <2>4. 3 + N - (k - 1) = (3 + N - k) + 1 /\ 3 + N - k \in Int /\ 2 + N \in Int /\ 3 + N - k <= 2 + N
    BY <1>0, <2>3
  <2>5. /\ Reads(3 + N - (k - 1)) = Reads(3 + N - k) + ReadTimeout
        /\ Reads(3 + N - k) <= Reads(2 + N) /\ Reads(3 + N - k) \in Int /\ Reads(2 + N) \in Int
    BY <1>2, <2>4
  <2>6. wakeAt' <= LastWake + Reads(3 + N - (k - 1)) /\ now <= LastWake + Reads(2 + N)
    BY <1>0, <1>1, <2>1, <2>2, <2>5
  <2>7. LastWake' = LastWake
    BY <2>1 DEF LastWake
  <2> HIDE DEF k
  <2> QED BY <2>1, <2>3, <2>6, <2>7 DEF PollInv, Reads
<1>10. CASE observe
  <2>1. /\ pc = "jobs" /\ toRead = {} /\ pc' = "switch" /\ exit' # "timeout" /\ UNCHANGED <<interval, deadline, now>>
    BY <1>10 DEF observe, TypeOK
  <2> QED BY <2>1 DEF PollInv, LastWake, Reads
<1>11. CASE decide
  <2>1. /\ pc = "switch" /\ pc' \in {"sleep", "done"} /\ UNCHANGED <<interval, deadline, now>>
        /\ pc' = "sleep" => now <= deadline /\ wakeAt' = now + interval /\ exit' # "timeout"
        /\ exit' = "timeout" => now > deadline
    <3>1. watchFinalResult(state) # "timeout"
      BY DEF watchFinalResult
    <3> QED BY <1>11, <3>1 DEF decide, TypeOK
  <2>2. pc' = "sleep" => wakeAt' <= LastWake
    BY <1>0, <1>1, <2>1 DEF PollInv, LastWake
  <2> QED BY <2>1, <2>2 DEF PollInv, LastWake, Reads
<1>12. CASE wake
  <2>1. /\ pc \in {"sleep", "pause"} /\ pc' = (IF pc = "sleep" THEN "run" ELSE "search") /\ exit' # "timeout"
        /\ interval' = (IF pc = "sleep" THEN widen ELSE interval) /\ wakeAt' = now + ReadTimeout
        /\ deadline' = deadline /\ now <= wakeAt
    BY <1>12 DEF wake, TypeOK, TimerInv, Waits
  <2>2. interval' <= MaxPollInterval + PollInterval
    BY <1>0, <1>1, <2>1 DEF PollInv, widen
  <2>3. pc = "sleep" => wakeAt' <= LastWake + Reads(1)
    BY <1>0, <1>1, <1>2, <2>1 DEF PollInv
  <2> QED BY <2>1, <2>2, <2>3 DEF PollInv, LastWake, Reads
<1>13. CASE Advance
  <2>1. /\ UNCHANGED <<pc, toRead, wakeAt, exit, interval, deadline>> /\ now < wakeAt
        /\ pc \notin {"switch", "done"} /\ (pc = "jobs" => toRead # {}) /\ exit = "none"
    BY <1>13 DEF Advance, TypeOK
  <2> QED BY <2>1 DEF PollInv, LastWake, Reads
<1> QED BY <1>4, <1>5, <1>6, <1>7, <1>8, <1>9, <1>10, <1>11, <1>12, <1>13 DEF Next, Command, Returned
-----------------------------------------------------------------------------
LEMMA InitInv == Init => Inv
<1> SUFFICES ASSUME Init PROVE Inv
  OBVIOUS
<1>1. TypeOK
  BY InitType
<1>2. ServerInv
  BY DEF Init, ServerInv, NoRead, Absent
<1>3. VerdictInv /\ TimerInv /\ DeadlineInv
  BY LoopAssumption DEF Init, VerdictInv, TimerInv, DeadlineInv, Waits
<1>4. PollInv
  BY LoopAssumption DEF Init, PollInv
<1>5. SearchInv
  BY LoopAssumption DEF Init, SearchInv, NotFoundIsLate, NoRead
<1> QED BY <1>1, <1>2, <1>3, <1>4, <1>5 DEF Inv

\* The inductive invariant: types, the server, the verdict, the timers, the poll under
\* way and the search.
THEOREM Invariance == Spec => []Inv
<1>1. Init => Inv
  BY InitInv
<1>2. Inv /\ [Next]_vars => Inv'
  BY StepType, ServerStep, VerdictStep, TimerStep, PollStep, SearchStep, DeadlineStep DEF Inv
<1> QED BY <1>1, <1>2, PTL DEF Spec

\* The command's variables, and the server's, hold what they may hold.
THEOREM TypeCorrect == Spec => []TypeOK
<1>1. Inv => TypeOK
  BY DEF Inv
<1> QED BY <1>1, Invariance, PTL

\* Whatever moves between the reads of a poll, a reported success is one on the server.
THEOREM Success == Spec => []SuccessIsTrue
<1>1. Inv => SuccessIsTrue
  <2> SUFFICES ASSUME Inv, exit = "success"
               PROVE  /\ \A w \in listed(got) : /\ wf[w].phase = "ended"
                                                /\ wf[w].outcome \notin {"failed", "errored", "canceled"}
                                                /\ ~wf[w].jobFailed
                      /\ \E w \in listed(got) : wf[w].outcome = "succeeded"
    BY DEF SuccessIsTrue
  <2>1. allWorkflowsDone(got) /\ deriveDisplayStatus(got) = "succeeded"
    BY DEF Inv, VerdictInv, watchState, watchFinalResult
  <2>2. /\ \A w \in listed(got) : got.wf[w].outcome \notin {"failed", "errored", "canceled"}
        /\ \E w \in listed(got) : got.wf[w].outcome = "succeeded"
    BY <2>1 DEF deriveDisplayStatus
  <2>3. \A w \in listed(got) : wf[w].phase = "ended" /\ wf[w].outcome = got.wf[w].outcome
    BY <2>1 DEF allWorkflowsDone, listed, Inv, ServerInv
  <2>4. \A w \in listed(got) : ~wf[w].jobFailed
    <3> SUFFICES ASSUME NEW w \in listed(got), wf[w].jobFailed PROVE FALSE
      BY DEF Inv, TypeOK, OfFlow, listed
    <3>1. wf[w].outcome = "failed"
      BY <2>3 DEF Inv, ServerInv, listed
    <3> QED BY <2>2, <2>3, <3>1
  <2> QED BY <2>2, <2>3, <2>4
<1> QED BY <1>1, Invariance, PTL

\* A timeout comes after the full time, one wait and one poll later at most, and never
\* of a run its last poll found done, nor one that --failfast had to report.
THEOREM Punctual == Spec => []TimeoutIsDue
<1>1. Inv => TimeoutIsDue
  <2> SUFFICES ASSUME Inv, exit = "timeout"
               PROVE  /\ ~allWorkflowsDone(got)
                      /\ FailFast => \A w \in listed(got) : ~got.jobs[w]
                      /\ now > deadline
                      /\ now <= deadline + MaxPollInterval + PollInterval
                                 + (2 + Cardinality(Workflows)) * ReadTimeout
    BY DEF TimeoutIsDue
  <2>1. ~allWorkflowsDone(got) /\ (FailFast => ~\E w \in listed(got) : got.jobs[w])
    BY DEF Inv, VerdictInv, watchState
  <2>2. now > deadline /\ now <= LastWake + Reads(2 + Cardinality(Workflows))
    BY DEF Inv, PollInv
  <2> QED BY <2>1, <2>2 DEF LastWake, Reads
<1> QED BY <1>1, Invariance, PTL

\* --sha gives up only on a run younger than the time of the search that missed it.
THEOREM Patience == Spec => []NotFoundIsLate
<1>1. Inv => NotFoundIsLate
  BY DEF Inv, SearchInv
<1> QED BY <1>1, Invariance, PTL
-----------------------------------------------------------------------------
\* A return the promise allows, of an outcome the evidence in hand justifies.
LEMMA ReturnsKept ==
    ASSUME exit = "none", exit' # "none",
           UNCHANGED <<state, ctxDone, now, deadline>>,
           (IF exit' = "notFound" THEN "apiError" ELSE exit') \in Promise!Justified
    PROVE  Promise!Return
BY DEF Promise!Return

\* Every step of the watcher is one the promise allows, or none it can see.
LEMMA StepPromise == Inv /\ [Next]_vars => [Promise!Next]_(Promise!vars)
<1> SUFFICES ASSUME Inv, [Next]_vars PROVE [Promise!Next]_(Promise!vars)
  OBVIOUS
<1> USE DEF goto, ends
<1>0. TypeOK
  BY DEF Inv
<1>1. CASE UNCHANGED <<state, ctxDone, now, deadline, exit>>
  BY <1>1 DEF Promise!vars
<1>2. CASE observe
  <2>1. exit = "none" /\ UNCHANGED <<ctxDone, now, deadline, exit>> /\ state' = watchState(got)
    BY <1>0, <1>2 DEF observe, TypeOK
  <2>2. state' \in Poll
    BY <1>0, <2>1, GotType, VerdictType
  <2> QED BY <2>1, <2>2 DEF Promise!Next, Promise!Poll
<1>3. CASE Signal
  BY <1>3 DEF Signal, Promise!Next, Promise!Stop
<1>4. CASE Advance
  <2>1. /\ UNCHANGED <<state, ctxDone, deadline, exit>> /\ now' = now + 1
        /\ now \in Nat /\ deadline \in Nat
    BY <1>0, <1>4 DEF Advance, TypeOK
  <2>2. CASE now' > deadline
    <3>1. (now' > deadline') = TRUE
      BY <2>1, <2>2
    <3> QED BY <2>1, <3>1 DEF Promise!Next, Promise!Elapse
  <2>3. CASE ~(now' > deadline)
    <3>1. (now' > deadline') = (now > deadline)
      BY <2>1, <2>3
    <3> QED BY <2>1, <3>1 DEF Promise!vars
  <2> QED BY <2>2, <2>3
<1>5. CASE start
  <2>1. /\ UNCHANGED <<state, ctxDone, now, exit>> /\ deadline' = now + Timeout /\ deadline = MaxTime
        /\ now <= MaxTime /\ now \in Nat /\ Timeout \in Nat /\ MaxTime \in Nat
    BY <1>0, <1>5, LoopAssumption DEF start, Inv, DeadlineInv, TypeOK
  <2>2. (now' > deadline') = (now > deadline)
    BY <2>1
  <2> QED BY <2>1, <2>2 DEF Promise!vars
<1>6. CASE readFails
  <2>1. /\ UNCHANGED <<state, ctxDone, now, deadline>> /\ exit = "none"
        /\ exit' = "apiError" \/ (ctxDone /\ exit' = "interrupted")
    BY <1>0, <1>6 DEF readFails, TypeOK
  <2> QED BY <2>1, ReturnsKept DEF Promise!Justified, Promise!Next
<1>7. CASE searchAnswers
  <2>1. CASE exit' = exit
    BY <1>1, <1>7, <2>1 DEF searchAnswers
  <2>2. CASE exit' # exit
    <3>1. /\ UNCHANGED <<state, ctxDone, now, deadline>> /\ exit = "none" /\ exit' = "notFound"
      BY <1>0, <1>7, <2>2 DEF searchAnswers, TypeOK
    <3> QED BY <3>1, ReturnsKept DEF Promise!Justified, Promise!Next
  <2> QED BY <2>1, <2>2
<1>8. CASE sleepCancelled
  <2>1. /\ UNCHANGED <<state, ctxDone, now, deadline>> /\ exit = "none" /\ ctxDone /\ exit' = "interrupted"
    BY <1>0, <1>8 DEF sleepCancelled, TypeOK
  <2> QED BY <2>1, ReturnsKept DEF Promise!Justified, Promise!Next
<1>9. CASE decide
  <2>0. /\ UNCHANGED <<state, ctxDone, now, deadline>> /\ exit = "none"
        /\ \/ state.done /\ exit' = watchFinalResult(state)
           \/ FailFast /\ state.failed /\ exit' = "failFast"
           \/ now > deadline /\ exit' = "timeout"
           \/ exit' = exit
    BY <1>0, <1>9 DEF decide, TypeOK
  <2>1. CASE state.done /\ exit' = watchFinalResult(state)
    <3>1. exit' # "none" /\ exit' # "notFound" /\ exit' \in Promise!Justified
      BY <2>1 DEF watchFinalResult, Promise!Justified
    <3> QED BY <2>0, <3>1, ReturnsKept DEF Promise!Next
  <2>2. CASE FailFast /\ state.failed /\ exit' = "failFast"
    BY <2>0, <2>2, ReturnsKept DEF Promise!Next, Promise!Justified
  <2>3. CASE now > deadline /\ exit' = "timeout"
    BY <2>0, <2>3, ReturnsKept DEF Promise!Next, Promise!Justified
  <2>4. CASE exit' = exit
    BY <1>1, <2>0, <2>4
  <2> QED BY <2>0, <2>1, <2>2, <2>3, <2>4
<1>10. CASE search \/ getRun \/ getRunWorkflows \/ wake \/ \E w \in Workflows : getWorkflowJobs(w)
  BY <1>1, <1>10 DEF search, getRun, getRunWorkflows, wake, getWorkflowJobs
<1>11. CASE Server \/ UNCHANGED vars
  BY <1>1, <1>11 DEF Server, vars
<1> QED BY <1>2, <1>3, <1>4, <1>5, <1>6, <1>7, <1>8, <1>9, <1>10, <1>11 DEF Next, Command, Returned

\* The watcher away from a terminal keeps the promise the one on a terminal keeps:
\* it returns nothing its polls, the clock or the user do not account for.
THEOREM PromiseKept == Spec => ImplementsPromise
<1>1. Init => Promise!Init
  BY LoopAssumption DEF Init, Promise!Init
<1> QED BY <1>1, Invariance, StepPromise, PTL
        DEF Spec, ImplementsPromise, Promise!Spec
=============================================================================
