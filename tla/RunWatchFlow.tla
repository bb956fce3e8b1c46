---------------------------- MODULE RunWatchFlow ----------------------------
(***************************************************************************)
(* The interactive watcher behind `circleci run watch` on a terminal:      *)
(* ui.RunWatchFlowModel (internal/ui/run_watch_flow.go) driven by the      *)
(* bubbletea event loop, and the verdict watchInteractive reads out of it  *)
(* (internal/cmd/run/watch.go).                                            *)
(*                                                                         *)
(* The loop handles one message at a time, but every command a handler     *)
(* returns (a fetch, a clock tick, the quit) runs on a goroutine of its    *)
(* own and comes back as a message later, in any order.  So fetches,       *)
(* ticks and the quit are kept as sets of what is outstanding, and a       *)
(* handler may still run after the model has decided to quit.              *)
(***************************************************************************)
EXTENDS Integers, FiniteSets

CONSTANTS
    Second,           \* runWatchClockTick, in units of the modelled clock
    PollInterval,     \* opts.PollInterval
    MaxPollInterval,  \* opts.MaxPollInterval
    Timeout,          \* opts.Timeout; 0 means no timeout
    FailFast,         \* opts.FailFast
    Polls,            \* what a poll may report: records [done, failed, outcome]
    NoPoll,           \* the zero RunWatchState, before the first poll
    MaxTime,          \* bound: the clock stops here
    MaxLate,          \* bound: how late the loop may be in handling a tick
    MaxKeys           \* bound: key presses

ASSUME TimesAssumption ==
    /\ Second \in Nat \ {0}
    /\ PollInterval \in Nat \ {0}
    /\ MaxPollInterval \in Nat /\ PollInterval <= MaxPollInterval
    /\ Timeout \in Nat
    /\ MaxTime \in Nat /\ MaxLate \in Nat \ {0}
    /\ MaxKeys \in Nat

ASSUME PollsAssumption ==
    /\ FailFast \in BOOLEAN
    /\ Polls \subseteq [done: BOOLEAN, failed: BOOLEAN,
                        outcome: {"succeeded", "canceled", "failed", "running", "other"}]
    /\ NoPoll = [done |-> FALSE, failed |-> FALSE, outcome |-> "running"]

VARIABLES
    now,        \* time since the model was built (m.start is 0)
    polling,    \* m.polling: a fetch is in flight
    nextPoll,   \* m.nextPoll; 0 is the zero time
    wait,       \* m.wait
    nextWait,   \* m.nextWait
    clockGen,   \* m.clockGen
    done,       \* m.done
    result,     \* m.result
    fetches,    \* numbers of the fetches that have not come back
    issued,     \* how many fetches were started
    polled,     \* history: when the last of them was started
    ticks,      \* clock messages not delivered yet, [gen, at]
    quitting,   \* a tea.QuitMsg is outstanding
    ctxDone,    \* the context was cancelled from outside (a signal)
    keys,       \* key presses so far
    exit        \* how watchInteractive returned; "none" while it runs

model  == <<polling, nextPoll, wait, nextWait, clockGen, done, result>>
vars   == <<now, polling, nextPoll, wait, nextWait, clockGen, done, result,
            fetches, issued, polled, ticks, quitting, ctxDone, keys, exit>>

Exits == {"none", "success", "runCanceled", "runFailed", "failFast",
          "timeout", "apiError", "interrupted", "displayFailed"}

Result == [State: Polls \cup {NoPoll}, Cancelled: BOOLEAN, TimedOut: BOOLEAN,
           FailFast: BOOLEAN, Err: BOOLEAN]

TypeOK ==
    /\ now \in Nat /\ nextPoll \in Nat /\ wait \in Nat /\ nextWait \in Nat
    /\ polling \in BOOLEAN /\ done \in BOOLEAN
    /\ quitting \in BOOLEAN /\ ctxDone \in BOOLEAN
    /\ clockGen \in Nat /\ issued \in Nat /\ polled \in Nat /\ keys \in Nat
    /\ result \in Result
    /\ fetches \subseteq Nat
    /\ ticks \subseteq [gen: Nat, at: Nat]
    /\ exit \in Exits

-----------------------------------------------------------------------------
(* The schedule.                                                           *)

\* Fault: a flat tick, blind to the figures on screen.
clockDelayFlat(poll) == Second

\* How long until whichever figure on screen changes next: the elapsed clock,
\* or the countdown to the poll at time poll (0: no countdown).
clockDelay(poll) ==
    LET toSecond == Second - (now % Second)
        toPoll   == (poll - now) % Second
    IN  IF poll > now /\ toPoll > 0 /\ toPoll < toSecond THEN toPoll ELSE toSecond

timedOut == Timeout > 0 /\ now >= Timeout

\* Fault: the tick polls without consulting the countdown.
waitExpiredEarly == ~polling

waitExpired == ~polling /\ nextPoll # 0 /\ now >= nextPoll

\* Fault: a new tick joins the chain without superseding the outstanding one.
armClockTwice(pending) ==
    /\ clockGen' = clockGen
    /\ ticks' = pending \cup {[gen |-> clockGen, at |-> now + clockDelay(nextPoll')]}

\* Fault: no tick while a fetch is in flight, there being nothing to count down.
armClockIdle(pending) ==
    /\ clockGen' = clockGen + 1
    /\ ticks' = IF polling' THEN pending
                ELSE pending \cup {[gen |-> clockGen + 1, at |-> now + clockDelay(nextPoll')]}

\* Arming supersedes the outstanding tick; the schedule it aims at is the one
\* the handler leaves behind.  pending: the ticks still to be delivered.
armClock(pending) ==
    /\ clockGen' = clockGen + 1
    /\ ticks' = pending \cup {[gen |-> clockGen + 1, at |-> now + clockDelay(nextPoll')]}

beginPoll ==
    /\ polling' = TRUE
    /\ nextPoll' = 0
    /\ issued' = issued + 1 /\ polled' = now
    /\ fetches' = fetches \cup {issued + 1}

quit ==
    /\ done' = TRUE
    /\ quitting' = TRUE

\* NewRunWatchFlow and Init: the model starts mid-poll with a clock armed at
\* the generation it already carries.
Init ==
    /\ now = 0
    /\ polling = TRUE /\ nextPoll = 0 /\ wait = 0 /\ nextWait = PollInterval
    /\ clockGen = 0 /\ done = FALSE
    /\ result = [State |-> NoPoll, Cancelled |-> FALSE, TimedOut |-> FALSE,
                 FailFast |-> FALSE, Err |-> FALSE]
    /\ fetches = {1} /\ issued = 1 /\ polled = 0
    /\ ticks = {[gen |-> 0, at |-> Second]}
    /\ quitting = FALSE /\ ctxDone = FALSE /\ keys = 0 /\ exit = "none"

-----------------------------------------------------------------------------
(* Messages.                                                               *)

\* A tick of an older generation, or one after the end, is dropped.
dropTick(t) ==
    /\ done \/ t.gen # clockGen
    /\ ticks' = ticks \ {t}
    /\ UNCHANGED <<model, fetches, issued, polled, quitting>>

onClock(t) ==
    /\ ~done /\ t.gen = clockGen
    /\ \/ /\ timedOut
          /\ result' = [result EXCEPT !.TimedOut = TRUE]
          /\ quit
          /\ ticks' = ticks \ {t}
          /\ UNCHANGED <<polling, nextPoll, wait, nextWait, clockGen, fetches, issued, polled>>
       \/ /\ ~timedOut /\ waitExpired
          /\ beginPoll
          /\ armClock(ticks \ {t})
          /\ UNCHANGED <<wait, nextWait, done, result, quitting>>
       \/ /\ ~timedOut /\ ~waitExpired
          /\ UNCHANGED <<polling, nextPoll>>
          /\ armClock(ticks \ {t})
          /\ UNCHANGED <<wait, nextWait, done, result, fetches, issued, polled, quitting>>

ClockMsg(t) ==
    /\ exit = "none"
    /\ t.at <= now
    /\ dropTick(t) \/ onClock(t)
    /\ UNCHANGED <<now, ctxDone, keys, exit>>

\* onState for a fetch that failed: the model keeps the schedule it had.
onStateErr(canceled) ==
    /\ result' = IF canceled THEN [result EXCEPT !.Cancelled = TRUE]
                             ELSE [result EXCEPT !.Err = TRUE]
    /\ quit
    /\ UNCHANGED <<polling, nextPoll, wait, nextWait, clockGen, ticks>>

\* The wait after the one being scheduled: a step longer, up to the cap.
backoff == IF nextWait + PollInterval < MaxPollInterval
           THEN nextWait + PollInterval ELSE MaxPollInterval

\* onState for a poll that came back with state s.
onStateOk(s) ==
    LET trips == FailFast /\ s.failed
        ends  == s.done \/ trips \/ timedOut
    IN  /\ polling' = FALSE
        /\ result' = [result EXCEPT !.State    = s,
                                    !.FailFast = @ \/ (~s.done /\ trips),
                                    !.TimedOut = @ \/ (~s.done /\ ~trips /\ timedOut)]
        /\ \/ /\ ends
              /\ quit
              /\ UNCHANGED <<nextPoll, wait, nextWait, clockGen, ticks>>
           \/ /\ ~ends
              /\ wait' = nextWait
              /\ nextPoll' = now + nextWait
              /\ nextWait' = backoff
              /\ armClock(ticks)
              /\ UNCHANGED <<done, quitting>>

StateMsg(n) ==
    /\ exit = "none"
    /\ fetches' = fetches \ {n}
    /\ \/ \E s \in Polls : onStateOk(s)
       \/ onStateErr(FALSE)
       \/ ctxDone /\ onStateErr(TRUE)
    /\ UNCHANGED <<now, issued, polled, ctxDone, keys, exit>>

\* Fault: the key ends the program without recording why.
onKeyQuitSilently ==
    /\ exit = "none" /\ keys < MaxKeys
    /\ keys' = keys + 1
    /\ quit
    /\ UNCHANGED <<now, polling, nextPoll, wait, nextWait, clockGen, result, fetches, issued, polled,
                   ticks, ctxDone, exit>>

\* q, esc or ctrl+c, whether or not the model has already decided to quit.
onKeyQuit ==
    /\ exit = "none" /\ keys < MaxKeys
    /\ keys' = keys + 1
    /\ result' = [result EXCEPT !.Cancelled = TRUE]
    /\ quit
    /\ UNCHANGED <<now, polling, nextPoll, wait, nextWait, clockGen, fetches, issued, polled,
                   ticks, ctxDone, exit>>

\* Fault: r does not look at the fetch already in flight.
onKeyRefreshAnyway ==
    /\ exit = "none" /\ keys < MaxKeys
    /\ ~done
    /\ keys' = keys + 1
    /\ nextWait' = PollInterval
    /\ beginPoll
    /\ armClock(ticks)
    /\ UNCHANGED <<now, wait, done, result, quitting, ctxDone, exit>>

\* r: ignored while a fetch is in flight; otherwise restarts the backoff.
onKeyRefresh ==
    /\ exit = "none" /\ keys < MaxKeys
    /\ ~done /\ ~polling
    /\ keys' = keys + 1
    /\ nextWait' = PollInterval
    /\ beginPoll
    /\ armClock(ticks)
    /\ UNCHANGED <<now, wait, done, result, quitting, ctxDone, exit>>

-----------------------------------------------------------------------------
(* The end of the program, and the verdict.                                *)

\* watchFinalResult
finalResult(s) ==
    CASE s.outcome = "succeeded" -> "success"
      [] s.outcome = "canceled"  -> "runCanceled"
      [] OTHER                   -> "runFailed"

\* Fault: a failed fetch is reported before the user's own decision to stop.
verdictErrFirst(r) ==
    CASE r.Err -> "apiError"
      [] ~r.Err /\ r.Cancelled -> "interrupted"
      [] ~r.Cancelled /\ ~r.Err /\ r.TimedOut -> "timeout"
      [] ~r.Cancelled /\ ~r.Err /\ ~r.TimedOut /\ r.FailFast -> "failFast"
      [] OTHER -> finalResult(r.State)

\* The switch at the end of watchInteractive.
verdict(r) ==
    CASE r.Cancelled -> "interrupted"
      [] ~r.Cancelled /\ r.Err -> "apiError"
      [] ~r.Cancelled /\ ~r.Err /\ r.TimedOut -> "timeout"
      [] ~r.Cancelled /\ ~r.Err /\ ~r.TimedOut /\ r.FailFast -> "failFast"
      [] OTHER -> finalResult(r.State)

\* The loop receives tea.QuitMsg and Run returns the model as it now is.
QuitMsg ==
    /\ exit = "none" /\ quitting
    /\ exit' = verdict(result)
    /\ UNCHANGED <<now, model, fetches, issued, polled, ticks, quitting, ctxDone, keys>>

\* A signal cancels the context the program and its fetches run under.
Signal ==
    /\ exit = "none" /\ ~ctxDone
    /\ ctxDone' = TRUE
    /\ UNCHANGED <<now, model, fetches, issued, polled, ticks, quitting, keys, exit>>

\* Run returns ErrProgramKilled (or ErrInterrupted): the model is not read.
Killed ==
    /\ exit = "none" /\ ctxDone
    /\ exit' = "interrupted"
    /\ UNCHANGED <<now, model, fetches, issued, polled, ticks, quitting, ctxDone, keys>>

\* Run returns any other error only before its loop has started, when the
\* terminal cannot be set up: the model is as it was built.
DisplayFails ==
    /\ exit = "none" /\ ~ctxDone
    /\ now = 0 /\ issued = 1 /\ polling /\ clockGen = 0 /\ ~done /\ keys = 0
    /\ exit' = "displayFailed"
    /\ UNCHANGED <<now, model, fetches, issued, polled, ticks, quitting, ctxDone, keys>>

Advance ==
    /\ exit = "none" /\ now < MaxTime
    /\ \A t \in ticks : now < t.at + MaxLate
    /\ now' = now + 1
    /\ UNCHANGED <<model, fetches, issued, polled, ticks, quitting, ctxDone, keys, exit>>

Returned == exit # "none" /\ UNCHANGED vars

Next ==
    \/ \E t \in ticks : ClockMsg(t)
    \/ \E n \in fetches : StateMsg(n)
    \/ onKeyQuit
    \/ onKeyRefresh
    \/ QuitMsg
    \/ Signal
    \/ Killed
    \/ DisplayFails
    \/ Advance
    \/ Returned

\* Timers fire, the loop drains its messages and time passes.  Nothing is
\* assumed of the fetches, the keys or the signal.
Fairness ==
    /\ WF_vars(Advance)
    /\ WF_vars(\E t \in ticks : ClockMsg(t))
    /\ WF_vars(QuitMsg)
    /\ WF_vars(Killed)

Spec == Init /\ [][Next]_vars /\ Fairness

-----------------------------------------------------------------------------
(* Properties.                                                             *)

\* At most one fetch is ever in flight, whatever r and the countdown do: it is
\* the one issued last, so polls are folded in in the order they were made and
\* result.State is always the most recent one (run_watch_flow.go, onKey and
\* waitExpired).
OneFetchInFlight ==
    /\ fetches \subseteq {issued}
    /\ fetches # {} => polling

\* A watch that has not ended has exactly one live tick outstanding: the chain
\* never dies, and nothing but the newest schedule can act (clockGen).
OneLiveClock ==
    ~done => \E t \in ticks : /\ t.gen = clockGen
                              /\ \A u \in ticks \ {t} : u.gen < clockGen

\* No second of the elapsed clock, nor of the countdown, passes unseen between
\* now and the live tick, so the last tick lands on the poll itself (clockDelay).
EverySecondShown ==
    \A t \in ticks : ~done /\ t.gen = clockGen =>
        \A b \in (now + 1)..(t.at - 1) :
            /\ b % Second # 0
            /\ b < nextPoll => (nextPoll - b) % Second # 0

\* However r, the countdown and late answers meet, a poll no key asked for starts a
\* whole wait after the poll before it, whoever asked for that one, and the wait is
\* never below the shortest interval: r must not leave a poll scheduled behind the
\* one it starts, nor a back-off that is too short (onClock, onState, onKey).
PollsPaced ==
    [][issued' > issued /\ keys' = keys =>
          /\ wait >= PollInterval
          /\ now >= polled + wait]_vars

Promise == INSTANCE RunWatchPromise WITH
    last <- result.State, asked <- keys > 0 \/ ctxDone, due <- timedOut

\* Whatever messages arrive between the decision to quit and the end of the
\* program, the outcome reported is backed by what was seen: a finished run by a
\* poll that was done, --failfast by a failed job, a timeout by the clock, an
\* interruption by a key or a signal (onState, onClock, onKey, watchInteractive).
ImplementsPromise == Promise!Spec

\* Once the user has asked to stop, a late answer cannot turn the outcome into
\* anything else: a script must not mistake an abandoned watch for a result.
CancellationSticks == result.Cancelled /\ exit # "none" => exit = "interrupted"

\* With --timeout the watch returns, even if the API never answers and no key is
\* pressed (onClock checks the timeout on every tick).
Terminates == Timeout > 0 => <>(exit # "none")
=============================================================================
