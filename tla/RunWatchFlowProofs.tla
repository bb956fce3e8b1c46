------------------------- MODULE RunWatchFlowProofs -------------------------
(***************************************************************************)
(* Safety of the interactive watcher, for every schedule, timeout and set  *)
(* of poll results.  The invariants the runs check are not inductive: each *)
(* needs to know what can still be outstanding once the model is done.     *)
(***************************************************************************)
EXTENDS RunWatchFlow, TLAPS

\* No generation is ever ahead of the model's, and none is armed twice.
ClockInv ==
    /\ \A t \in ticks : t.gen <= clockGen
    /\ OneLiveClock

\* Every reason to stop has its evidence; a decision taken on a poll's answer
\* leaves no fetch behind to replace that answer.
EvidenceInv ==
    /\ quitting => done
    /\ done => \/ result.Cancelled \/ result.Err \/ result.TimedOut
               \/ result.FailFast \/ result.State.done
    /\ result.Cancelled => keys > 0 \/ ctxDone
    /\ result.TimedOut => timedOut
    /\ result.FailFast => FailFast /\ result.State.failed /\ fetches = {} /\ done
    /\ result.State.done => fetches = {} /\ done
    /\ exit # "none" => \/ exit = "interrupted" /\ ctxDone
                        \/ exit = "displayFailed" /\ ~result.Cancelled
                        \/ exit = verdict(result) /\ done

\* A poll that is scheduled is a whole wait after the one before it.
PaceInv ==
    /\ polled <= now
    /\ nextPoll # 0 => polled + wait <= nextPoll /\ wait >= PollInterval
    /\ nextWait >= PollInterval

-----------------------------------------------------------------------------
LEMMA InitType == Init => TypeOK
<1> SUFFICES ASSUME Init PROVE TypeOK
  OBVIOUS
<1>1. result \in Result
  BY DEF Init, Result
<1>2. fetches \subseteq Nat /\ ticks \subseteq [gen: Nat, at: Nat]
  BY TimesAssumption DEF Init
<1> QED BY <1>1, <1>2, TimesAssumption DEF Init, TypeOK, Exits

\* What a poll may report has the three fields the handlers read.
LEMMA PollFields ==
    ASSUME NEW s \in Polls \cup {NoPoll}
    PROVE  /\ s.done \in BOOLEAN /\ s.failed \in BOOLEAN
           /\ s.outcome \in {"succeeded", "canceled", "failed", "running", "other"}
<1>1. CASE s = NoPoll
  BY <1>1, PollsAssumption
<1>2. CASE s \in Polls
  <2>1. s \in [done: BOOLEAN, failed: BOOLEAN,
               outcome: {"succeeded", "canceled", "failed", "running", "other"}]
    BY <1>2, PollsAssumption
  <2> QED BY <2>1
<1> QED BY <1>1, <1>2

\* The clock always aims at a later time.
LEMMA DelayType ==
    ASSUME NEW poll \in Nat, now \in Nat
    PROVE  clockDelay(poll) \in Nat \ {0}
<1>1. now % Second \in 0..(Second - 1)
  BY TimesAssumption
<1>2. CASE poll > now
  <2>1. (poll - now) % Second \in 0..(Second - 1)
    BY <1>2, TimesAssumption
  <2> QED BY <1>1, <2>1, TimesAssumption DEF clockDelay
<1>3. CASE ~(poll > now)
  BY <1>1, <1>3, TimesAssumption DEF clockDelay
<1> QED BY <1>2, <1>3

LEMMA ArmType ==
    ASSUME TypeOK, NEW T \in SUBSET ticks, armClock(T), nextPoll' \in Nat
    PROVE  clockGen' \in Nat /\ ticks' \subseteq [gen: Nat, at: Nat]
<1>1. clockDelay(nextPoll') \in Nat
  BY DelayType DEF TypeOK
<1>2. now + clockDelay(nextPoll') \in Nat
  BY <1>1 DEF TypeOK
<1> QED BY <1>2 DEF TypeOK, armClock

LEMMA StepType == TypeOK /\ [Next]_vars => TypeOK'
<1> SUFFICES ASSUME TypeOK, [Next]_vars PROVE TypeOK'
  OBVIOUS
<1> USE TimesAssumption
<1>1. ASSUME NEW t \in ticks, ClockMsg(t) PROVE TypeOK'
  <2>1. CASE dropTick(t)
    BY <1>1, <2>1 DEF ClockMsg, dropTick, model, TypeOK
  <2>2. CASE onClock(t) /\ timedOut
    <3>1. result' = [result EXCEPT !.TimedOut = TRUE] /\ quit /\ ticks' = ticks \ {t}
      BY <2>2 DEF onClock
    <3>2. result' \in Result
      BY <3>1 DEF TypeOK, Result
    <3>3. UNCHANGED <<polling, nextPoll, wait, nextWait, clockGen, fetches, issued, polled>>
      BY <2>2 DEF onClock
    <3> QED BY <1>1, <3>1, <3>2, <3>3 DEF ClockMsg, quit, TypeOK
  <2>3. CASE onClock(t) /\ ~timedOut /\ waitExpired
    <3>1. /\ beginPoll /\ armClock(ticks \ {t})
          /\ UNCHANGED <<wait, nextWait, done, result, quitting>>
      BY <2>3 DEF onClock
    <3>2. clockGen' \in Nat /\ ticks' \subseteq [gen: Nat, at: Nat]
      BY <3>1, ArmType DEF beginPoll
    <3>3. /\ fetches' \subseteq Nat /\ issued' \in Nat /\ polled' \in Nat
          /\ polling' = TRUE /\ nextPoll' = 0
      BY <3>1 DEF beginPoll, TypeOK
    <3> QED BY <1>1, <3>1, <3>2, <3>3 DEF ClockMsg, TypeOK
  <2>4. CASE onClock(t) /\ ~timedOut /\ ~waitExpired
    <3>1. nextPoll' \in Nat /\ armClock(ticks \ {t})
      BY <2>4 DEF onClock, TypeOK
    <3>2. clockGen' \in Nat /\ ticks' \subseteq [gen: Nat, at: Nat]
      BY <3>1, ArmType
    <3> QED BY <1>1, <2>4, <3>2 DEF ClockMsg, onClock, TypeOK
  <2> QED BY <1>1, <2>1, <2>2, <2>3, <2>4 DEF ClockMsg
<1>2. ASSUME NEW n \in fetches, StateMsg(n) PROVE TypeOK'
  <2>1. ASSUME NEW s \in Polls, onStateOk(s) PROVE TypeOK'
    <3>1. s.done \in BOOLEAN /\ s.failed \in BOOLEAN /\ FailFast \in BOOLEAN
      BY PollFields, PollsAssumption
    <3>2. result' \in Result
      BY <2>1, <3>1 DEF onStateOk, TypeOK, Result, timedOut
    <3>3. CASE quit /\ UNCHANGED <<nextPoll, wait, nextWait, clockGen, ticks>>
      BY <1>2, <2>1, <3>2, <3>3 DEF StateMsg, onStateOk, quit, TypeOK
    <3>4. CASE /\ wait' = nextWait /\ nextPoll' = now + nextWait
               /\ nextWait' = backoff /\ armClock(ticks) /\ UNCHANGED <<done, quitting>>
      <4>1. nextPoll' \in Nat /\ wait' \in Nat /\ nextWait' \in Nat
        BY <3>4 DEF TypeOK, backoff
      <4>2. clockGen' \in Nat /\ ticks' \subseteq [gen: Nat, at: Nat]
        BY <3>4, <4>1, ArmType
      <4> QED BY <1>2, <2>1, <3>2, <3>4, <4>1, <4>2 DEF StateMsg, onStateOk, TypeOK
    <3> QED BY <2>1, <3>3, <3>4 DEF onStateOk
  <2>2. ASSUME NEW c \in BOOLEAN, onStateErr(c) PROVE TypeOK'
    BY <1>2, <2>2 DEF StateMsg, onStateErr, quit, TypeOK, Result
  <2> QED BY <1>2, <2>1, <2>2 DEF StateMsg
<1>3. CASE onKeyQuit
  <2>1. result' \in Result
    BY <1>3 DEF onKeyQuit, TypeOK, Result
  <2> QED BY <1>3, <2>1 DEF onKeyQuit, quit, TypeOK
<1>4. CASE onKeyRefresh
  <2>1. nextPoll' = 0 /\ armClock(ticks)
    BY <1>4 DEF onKeyRefresh, beginPoll
  <2>2. clockGen' \in Nat /\ ticks' \subseteq [gen: Nat, at: Nat]
    BY <2>1, ArmType
  <2> QED BY <1>4, <2>2 DEF onKeyRefresh, beginPoll, TypeOK
<1>5. CASE QuitMsg
  <2>1. verdict(result) \in Exits
    BY DEF verdict, finalResult, Exits
  <2> QED BY <1>5, <2>1 DEF QuitMsg, model, TypeOK
<1>6. CASE Signal
  BY <1>6 DEF Signal, model, TypeOK
<1>7. CASE Killed \/ DisplayFails
  BY <1>7 DEF Killed, DisplayFails, model, TypeOK, Exits
<1>8. CASE Advance
  BY <1>8 DEF Advance, model, TypeOK
<1>9. CASE Returned \/ UNCHANGED vars
  BY <1>9 DEF Returned, vars, TypeOK
<1> QED BY <1>1, <1>2, <1>3, <1>4, <1>5, <1>6, <1>7, <1>8, <1>9 DEF Next

\* Every reachable state is well-typed: the schedule, the outstanding messages
\* and the verdict of the watcher stay in their domains.
THEOREM TypeCorrect == Spec => []TypeOK
<1>1. Init => TypeOK
  BY InitType
<1>2. TypeOK /\ [Next]_vars => TypeOK'
  BY StepType
<1> QED BY <1>1, <1>2, PTL DEF Spec

-----------------------------------------------------------------------------
(* One fetch at a time.                                                    *)

LEMMA StepFetch == TypeOK /\ OneFetchInFlight /\ [Next]_vars => OneFetchInFlight'
<1> SUFFICES ASSUME TypeOK, OneFetchInFlight, [Next]_vars PROVE OneFetchInFlight'
  OBVIOUS
<1>a. beginPoll /\ ~polling => OneFetchInFlight'
  BY DEF beginPoll, OneFetchInFlight, TypeOK
<1>b. UNCHANGED <<polling, fetches, issued>> => OneFetchInFlight'
  BY DEF OneFetchInFlight
<1>1. ASSUME NEW t \in ticks, ClockMsg(t) PROVE OneFetchInFlight'
  <2>1. CASE dropTick(t)
    BY <1>b, <2>1 DEF dropTick, model
  <2>2. CASE onClock(t)
    BY <1>a, <1>b, <2>2 DEF onClock, waitExpired
  <2> QED BY <1>1, <2>1, <2>2 DEF ClockMsg
<1>2. ASSUME NEW n \in fetches, StateMsg(n) PROVE OneFetchInFlight'
  <2>1. fetches' = {} /\ issued' = issued
    BY <1>2 DEF StateMsg, OneFetchInFlight
  <2> QED BY <2>1 DEF OneFetchInFlight
<1>3. CASE onKeyRefresh
  BY <1>a, <1>3 DEF onKeyRefresh
<1>4. CASE onKeyQuit \/ QuitMsg \/ Signal \/ Killed \/ DisplayFails \/ Advance \/ Returned \/ UNCHANGED vars
  BY <1>b, <1>4 DEF onKeyQuit, QuitMsg, Signal, Killed, DisplayFails, Advance, Returned, model, vars
<1> QED BY <1>1, <1>2, <1>3, <1>4 DEF Next

\* Never two fetches in flight, so no answer can overtake an earlier one.
THEOREM FetchSafety == Spec => []OneFetchInFlight
<1>1. Init => OneFetchInFlight
  BY DEF Init, OneFetchInFlight
<1> QED BY <1>1, InitType, StepType, StepFetch, PTL DEF Spec

-----------------------------------------------------------------------------
(* One live clock.                                                         *)

LEMMA StepClock == TypeOK /\ ClockInv /\ [Next]_vars => ClockInv'
<1> SUFFICES ASSUME TypeOK, ClockInv, [Next]_vars PROVE ClockInv'
  OBVIOUS
\* Arming supersedes whatever is outstanding.
<1>a. ASSUME NEW T \in SUBSET ticks, armClock(T) PROVE ClockInv'
  <2> DEFINE tick == [gen |-> clockGen + 1, at |-> now + clockDelay(nextPoll')]
  <2>1. clockGen' = clockGen + 1 /\ ticks' = T \cup {tick} /\ tick.gen = clockGen + 1
    BY <1>a DEF armClock
  <2>2. \A u \in T : u.gen <= clockGen /\ u.gen \in Nat
    BY DEF ClockInv, TypeOK
  <2>3. \A u \in ticks' \ {tick} : u.gen < clockGen' /\ u.gen <= clockGen'
    BY <2>1, <2>2 DEF TypeOK
  <2>4. tick \in ticks' /\ tick.gen = clockGen'
    BY <2>1
  <2> HIDE DEF tick
  <2> QED BY <2>1, <2>3, <2>4 DEF ClockInv, OneLiveClock, TypeOK
\* Ending the watch leaves nothing to keep alive.
<1>b. ASSUME done', clockGen' = clockGen, ticks' \subseteq ticks PROVE ClockInv'
  BY <1>b DEF ClockInv, OneLiveClock
<1>c. ASSUME UNCHANGED <<done, clockGen, ticks>> PROVE ClockInv'
  BY <1>c DEF ClockInv, OneLiveClock
<1>1. ASSUME NEW t \in ticks, ClockMsg(t) PROVE ClockInv'
  <2>1. CASE dropTick(t) /\ done
    BY <1>b, <2>1 DEF dropTick, model
  <2>2. CASE dropTick(t) /\ ~done
    BY <2>2 DEF dropTick, model, ClockInv, OneLiveClock
  <2>3. CASE onClock(t) /\ timedOut
    BY <1>b, <2>3 DEF onClock, quit
  <2>4. CASE onClock(t) /\ ~timedOut
    BY <1>a, <2>4 DEF onClock
  <2> QED BY <1>1, <2>1, <2>2, <2>3, <2>4 DEF ClockMsg
<1>2. ASSUME NEW n \in fetches, StateMsg(n) PROVE ClockInv'
  <2>1. ASSUME NEW s \in Polls, onStateOk(s) PROVE ClockInv'
    <3>1. CASE quit /\ UNCHANGED <<nextPoll, wait, nextWait, clockGen, ticks>>
      BY <1>b, <3>1 DEF quit
    <3>2. CASE armClock(ticks)
      BY <1>a, <3>2
    <3> QED BY <2>1, <3>1, <3>2 DEF onStateOk
  <2>2. ASSUME NEW c \in BOOLEAN, onStateErr(c) PROVE ClockInv'
    BY <1>b, <2>2 DEF onStateErr, quit
  <2> QED BY <1>2, <2>1, <2>2 DEF StateMsg
<1>3. CASE onKeyQuit
  BY <1>b, <1>3 DEF onKeyQuit, quit
<1>4. CASE onKeyRefresh
  BY <1>a, <1>4 DEF onKeyRefresh
<1>5. CASE QuitMsg \/ Signal \/ Killed \/ DisplayFails \/ Advance \/ Returned \/ UNCHANGED vars
  BY <1>c, <1>5 DEF QuitMsg, Signal, Killed, DisplayFails, Advance, Returned, model, vars
<1> QED BY <1>1, <1>2, <1>3, <1>4, <1>5 DEF Next

\* Until the watch ends exactly one clock chain is alive, however often the
\* schedule is changed under it.
THEOREM ClockSafety == Spec => []OneLiveClock
<1>1. Init => ClockInv
  BY DEF Init, ClockInv, OneLiveClock
<1>2. ClockInv => OneLiveClock
  BY DEF ClockInv
<1> QED BY <1>1, <1>2, InitType, StepType, StepClock, PTL DEF Spec

-----------------------------------------------------------------------------
(* The pace of the polls.                                                  *)

LEMMA StepPace == TypeOK /\ PaceInv /\ [Next]_vars => PaceInv'
<1> SUFFICES ASSUME TypeOK, PaceInv, [Next]_vars PROVE PaceInv'
  OBVIOUS
<1> USE TimesAssumption
<1>0. now \in Nat /\ polled \in Nat /\ nextPoll \in Nat /\ wait \in Nat /\ nextWait \in Nat
  BY DEF TypeOK
\* Steps that start no fetch and leave the schedule alone, while time may pass.
<1>a. UNCHANGED <<polled, nextPoll, wait, nextWait>> /\ now' \in {now, now + 1} => PaceInv'
  BY <1>0 DEF PaceInv
\* A fetch that starts takes the schedule with it.
<1>b. beginPoll /\ now' = now /\ nextWait' >= PollInterval => PaceInv'
  BY <1>0 DEF beginPoll, PaceInv
<1>1. ASSUME NEW t \in ticks, ClockMsg(t) PROVE PaceInv'
  <2>1. CASE dropTick(t)
    BY <1>1, <1>a, <2>1 DEF ClockMsg, dropTick, model
  <2>2. CASE onClock(t) /\ (timedOut \/ ~waitExpired)
    BY <1>1, <1>a, <2>2 DEF ClockMsg, onClock
  <2>3. CASE onClock(t) /\ ~timedOut /\ waitExpired
    BY <1>1, <1>b, <2>3 DEF ClockMsg, onClock, PaceInv
  <2> QED BY <1>1, <2>1, <2>2, <2>3 DEF ClockMsg
<1>2. ASSUME NEW n \in fetches, StateMsg(n) PROVE PaceInv'
  <2>1. polled' = polled /\ now' = now
    BY <1>2 DEF StateMsg
  <2>2. CASE UNCHANGED <<nextPoll, wait, nextWait>>
    BY <1>a, <2>1, <2>2
  \* The next poll is counted from the answer, never from before the question.
  <2>3. CASE wait' = nextWait /\ nextPoll' = now + nextWait /\ nextWait' = backoff
    <3>1. nextWait >= PollInterval /\ backoff >= PollInterval
      BY <1>0 DEF PaceInv, backoff
    <3> QED BY <1>0, <2>1, <2>3, <3>1 DEF PaceInv
  <2> QED BY <1>2, <2>2, <2>3 DEF StateMsg, onStateOk, onStateErr
<1>3. CASE onKeyQuit
  BY <1>3, <1>a DEF onKeyQuit
<1>4. CASE onKeyRefresh
  BY <1>4, <1>b DEF onKeyRefresh
<1>5. CASE Advance
  BY <1>a, <1>5 DEF Advance, model
<1>6. CASE QuitMsg \/ Signal \/ Killed \/ DisplayFails \/ Returned \/ UNCHANGED vars
  BY <1>a, <1>6 DEF QuitMsg, Signal, Killed, DisplayFails, Returned, model, vars
<1> QED BY <1>1, <1>2, <1>3, <1>4, <1>5, <1>6 DEF Next

\* Only the countdown starts a poll that no key asked for, when it has run out.
LEMMA PollsOnTime ==
    ASSUME TypeOK, PaceInv, [Next]_vars, issued' > issued, keys' = keys
    PROVE  wait >= PollInterval /\ now >= polled + wait
<1> USE TimesAssumption
<1>0. /\ now \in Nat /\ polled \in Nat /\ nextPoll \in Nat /\ wait \in Nat
      /\ issued \in Nat /\ keys \in Nat
  BY DEF TypeOK
<1>1. issued' # issued /\ keys' # keys + 1
  BY <1>0
<1>2. PICK t \in ticks : onClock(t) /\ issued' # issued
  BY <1>1 DEF Next, ClockMsg, dropTick, StateMsg, onKeyQuit, onKeyRefresh, QuitMsg, Signal,
              Killed, DisplayFails, Advance, Returned, vars
<1>3. nextPoll # 0 /\ now >= nextPoll
  BY <1>2 DEF onClock, waitExpired
<1> QED BY <1>0, <1>3 DEF PaceInv

\* Whatever is pressed and however late answers come, a poll nobody asked for
\* starts a whole wait, and so at least the shortest interval, after the one
\* before it.
THEOREM PaceSafety == Spec => PollsPaced
<1>1. Init => PaceInv
  BY TimesAssumption DEF Init, PaceInv
<1>2. /\ TypeOK /\ PaceInv /\ [Next]_vars
      => [issued' > issued /\ keys' = keys => wait >= PollInterval /\ now >= polled + wait]_vars
  BY PollsOnTime
<1> QED BY <1>1, <1>2, TypeCorrect, StepPace, PTL DEF Spec, PollsPaced

-----------------------------------------------------------------------------
(* The verdict.                                                            *)

LEMMA StepEvidence ==
    TypeOK /\ OneFetchInFlight /\ EvidenceInv /\ [Next]_vars => EvidenceInv'
<1> SUFFICES ASSUME TypeOK, OneFetchInFlight, EvidenceInv, [Next]_vars PROVE EvidenceInv'
  OBVIOUS
<1> USE TimesAssumption
\* Steps that leave the verdict alone.
<1>a. ASSUME UNCHANGED <<now, keys, ctxDone, exit, result, done, quitting>>,
             fetches' = fetches \/ (~done /\ fetches' \subseteq fetches \cup {issued'})
      PROVE  EvidenceInv'
  BY <1>a DEF EvidenceInv, timedOut, verdict, finalResult
<1>1. ASSUME NEW t \in ticks, ClockMsg(t) PROVE EvidenceInv'
  <2>1. CASE dropTick(t)
    BY <1>1, <1>a, <2>1 DEF ClockMsg, dropTick, model
  <2>2. CASE onClock(t) /\ timedOut
    BY <1>1, <2>2 DEF ClockMsg, onClock, quit, EvidenceInv, timedOut, TypeOK, Result
  <2>3. CASE onClock(t) /\ ~timedOut /\ waitExpired
    BY <1>1, <1>a, <2>3 DEF ClockMsg, onClock, beginPoll
  <2>4. CASE onClock(t) /\ ~timedOut /\ ~waitExpired
    BY <1>1, <1>a, <2>4 DEF ClockMsg, onClock
  <2> QED BY <1>1, <2>1, <2>2, <2>3, <2>4 DEF ClockMsg
<1>2. ASSUME NEW n \in fetches, StateMsg(n) PROVE EvidenceInv'
  <2>1. /\ fetches' = {} /\ exit = "none" /\ UNCHANGED <<now, keys, ctxDone, exit>>
    BY <1>2 DEF StateMsg, OneFetchInFlight
  <2>2. ~result.FailFast /\ ~result.State.done
    BY DEF EvidenceInv
  <2>3. ASSUME NEW s \in Polls, onStateOk(s) PROVE EvidenceInv'
    <3>1. s.done \in BOOLEAN /\ s.failed \in BOOLEAN /\ FailFast \in BOOLEAN
      BY PollFields, PollsAssumption
    <3> DEFINE trips == FailFast /\ s.failed
               ends  == s.done \/ trips \/ timedOut
    <3>2. result' = [result EXCEPT !.State    = s,
                                   !.FailFast = @ \/ (~s.done /\ trips),
                                   !.TimedOut = @ \/ (~s.done /\ ~trips /\ timedOut)]
      BY <2>3 DEF onStateOk
    <3>3. /\ result'.State = s
          /\ result'.Cancelled = result.Cancelled
          /\ result'.Err = result.Err
          /\ result'.FailFast = (result.FailFast \/ (~s.done /\ trips))
          /\ result'.TimedOut = (result.TimedOut \/ (~s.done /\ ~trips /\ timedOut))
      BY <3>2 DEF TypeOK, Result
    <3>4. CASE ends /\ quit
      BY <2>1, <2>2, <3>1, <3>3, <3>4 DEF quit, EvidenceInv, timedOut
    <3>5. CASE ~ends /\ UNCHANGED <<done, quitting>>
      BY <2>1, <2>2, <3>1, <3>3, <3>5 DEF EvidenceInv, timedOut
    <3> QED BY <2>3, <3>4, <3>5 DEF onStateOk
  <2>4. ASSUME NEW c \in BOOLEAN, onStateErr(c), c => ctxDone PROVE EvidenceInv'
    BY <2>1, <2>2, <2>4 DEF onStateErr, quit, EvidenceInv, timedOut, TypeOK, Result
  <2> QED BY <1>2, <2>3, <2>4 DEF StateMsg
<1>3. CASE onKeyQuit
  BY <1>3 DEF onKeyQuit, quit, EvidenceInv, timedOut, TypeOK, Result
<1>4. CASE onKeyRefresh
  BY <1>4 DEF onKeyRefresh, beginPoll, EvidenceInv, timedOut, TypeOK
<1>5. CASE QuitMsg
  BY <1>5 DEF QuitMsg, model, EvidenceInv, timedOut, verdict, finalResult
<1>6. CASE Signal \/ Killed \/ DisplayFails
  BY <1>6 DEF Signal, Killed, DisplayFails, model, EvidenceInv, timedOut, verdict, finalResult
<1>7. CASE Advance
  BY <1>7 DEF Advance, model, EvidenceInv, timedOut, TypeOK
<1>8. CASE Returned \/ UNCHANGED vars
  BY <1>8, <1>a DEF Returned, vars
<1> QED BY <1>1, <1>2, <1>3, <1>4, <1>5, <1>6, <1>7, <1>8 DEF Next

LEMMA EvidenceInvariant == Spec => []EvidenceInv
<1>1. Init => EvidenceInv /\ OneFetchInFlight
  BY PollsAssumption DEF Init, EvidenceInv, OneFetchInFlight
<1> QED BY <1>1, InitType, StepType, StepFetch, StepEvidence, PTL DEF Spec

\* The outcome quit reads out of the result is one the promise allows.
LEMMA VerdictJustified ==
    ASSUME TypeOK, EvidenceInv, done
    PROVE  verdict(result) \in Promise!Justified
<1>1. /\ result.Cancelled \in BOOLEAN /\ result.Err \in BOOLEAN
      /\ result.TimedOut \in BOOLEAN /\ result.FailFast \in BOOLEAN
      /\ result.State \in Polls \cup {NoPoll}
  BY DEF TypeOK, Result
<1>2. /\ result.Cancelled => keys > 0 \/ ctxDone
      /\ result.TimedOut => timedOut
      /\ result.FailFast => FailFast /\ result.State.failed
      /\ \/ result.Cancelled \/ result.Err \/ result.TimedOut
         \/ result.FailFast \/ result.State.done
  BY DEF EvidenceInv
<1>3. CASE result.Cancelled
  BY <1>2, <1>3 DEF verdict, Promise!Justified
<1>4. CASE ~result.Cancelled /\ result.Err
  BY <1>4 DEF verdict, Promise!Justified
<1>5. CASE ~result.Cancelled /\ ~result.Err /\ result.TimedOut
  BY <1>2, <1>5 DEF verdict, Promise!Justified
<1>6. CASE ~result.Cancelled /\ ~result.Err /\ ~result.TimedOut /\ result.FailFast
  BY <1>2, <1>6 DEF verdict, Promise!Justified
<1>7. CASE ~result.Cancelled /\ ~result.Err /\ ~result.TimedOut /\ ~result.FailFast
  <2>1. verdict(result) = finalResult(result.State)
    BY <1>7 DEF verdict
  <2>2. result.State.done
    BY <1>2, <1>7
  <2>3. CASE result.State.outcome = "succeeded"
    BY <2>1, <2>2, <2>3 DEF finalResult, Promise!Justified
  <2>4. CASE result.State.outcome = "canceled"
    BY <2>1, <2>2, <2>4 DEF finalResult, Promise!Justified
  <2>5. CASE result.State.outcome \notin {"succeeded", "canceled"}
    BY <2>1, <2>2, <2>5 DEF finalResult, Promise!Justified
  <2> QED BY <2>3, <2>4, <2>5
<1> QED BY <1>1, <1>3, <1>4, <1>5, <1>6, <1>7

LEMMA StepPromise ==
    TypeOK /\ EvidenceInv /\ [Next]_vars => [Promise!Next]_(Promise!vars)
<1> SUFFICES ASSUME TypeOK, EvidenceInv, [Next]_vars PROVE [Promise!Next]_(Promise!vars)
  OBVIOUS
<1> USE TimesAssumption
<1>a. ASSUME result'.State = result.State, UNCHANGED <<now, keys, ctxDone, exit>>
      PROVE  UNCHANGED Promise!vars
  BY <1>a DEF Promise!vars, timedOut
<1>1. ASSUME NEW t \in ticks, ClockMsg(t) PROVE UNCHANGED Promise!vars
  <2>1. result' = result \/ result' = [result EXCEPT !.TimedOut = TRUE]
    BY <1>1 DEF ClockMsg, dropTick, onClock, model
  <2>2. result'.State = result.State
    BY <2>1 DEF TypeOK, Result
  <2> QED BY <1>1, <1>a, <2>2 DEF ClockMsg
<1>2. ASSUME NEW n \in fetches, StateMsg(n) PROVE [Promise!Next]_(Promise!vars)
  <2>1. exit = "none" /\ UNCHANGED <<now, keys, ctxDone, exit>>
    BY <1>2 DEF StateMsg
  <2>2. ASSUME NEW s \in Polls, onStateOk(s) PROVE Promise!Poll
    <3>1. result'.State = s
      BY <2>2 DEF onStateOk, TypeOK, Result
    <3> QED BY <2>1, <3>1 DEF Promise!Poll, timedOut
  <2>3. ASSUME NEW c \in BOOLEAN, onStateErr(c) PROVE UNCHANGED Promise!vars
    <3>1. result'.State = result.State
      BY <2>3 DEF onStateErr, TypeOK, Result
    <3> QED BY <1>a, <2>1, <3>1
  <2> QED BY <1>2, <2>2, <2>3 DEF StateMsg, Promise!Next
<1>3. CASE onKeyQuit \/ onKeyRefresh
  <2>1. result'.State = result.State /\ keys' > 0 /\ UNCHANGED <<now, exit>>
    BY <1>3 DEF onKeyQuit, onKeyRefresh, TypeOK, Result
  <2>2. Promise!Stop
    BY <2>1 DEF Promise!Stop, timedOut
  <2> QED BY <2>2 DEF Promise!Next
<1>4. CASE QuitMsg
  <2>1. done /\ exit = "none" /\ exit' = verdict(result) /\ UNCHANGED <<now, keys, ctxDone, result>>
    BY <1>4 DEF QuitMsg, model, EvidenceInv
  <2>2. exit' \in Promise!Justified
    BY <2>1, VerdictJustified
  <2>3. Promise!Return
    BY <2>1, <2>2 DEF Promise!Return, timedOut
  <2> QED BY <2>3 DEF Promise!Next
<1>5. CASE Signal
  <2>1. Promise!Stop
    BY <1>5 DEF Signal, model, Promise!Stop, timedOut
  <2> QED BY <2>1 DEF Promise!Next
<1>6. CASE Killed \/ DisplayFails
  <2>1. /\ exit = "none" /\ UNCHANGED <<now, keys, ctxDone, result>>
        /\ (exit' = "interrupted" /\ ctxDone) \/ exit' = "displayFailed"
    BY <1>6 DEF Killed, DisplayFails, model
  <2>2. Promise!Return
    BY <2>1 DEF Promise!Return, Promise!Justified, timedOut
  <2> QED BY <2>2 DEF Promise!Next
<1>7. CASE Advance
  <2>1. now' = now + 1 /\ now \in Nat /\ UNCHANGED <<result, keys, ctxDone, exit>>
    BY <1>7 DEF Advance, model, TypeOK
  <2>2. timedOut' = timedOut \/ timedOut' = TRUE
    BY <2>1 DEF timedOut
  <2>3. UNCHANGED Promise!vars \/ Promise!Elapse
    BY <2>1, <2>2 DEF Promise!vars, Promise!Elapse
  <2> QED BY <2>3 DEF Promise!Next
<1>8. CASE Returned \/ UNCHANGED vars
  BY <1>8, <1>a DEF Returned, vars
<1> QED BY <1>1, <1>2, <1>3, <1>4, <1>5, <1>6, <1>7, <1>8 DEF Next

\* The live table returns what the polls, the clock or the user account for,
\* whatever arrives between the decision to quit and the end of the program.
THEOREM PromiseKept == Spec => ImplementsPromise
<1>1. Init => Promise!Init
  BY TimesAssumption DEF Init, Promise!Init, timedOut
<1> QED BY <1>1, TypeCorrect, EvidenceInvariant, StepPromise, PTL
        DEF Spec, ImplementsPromise, Promise!Spec

\* A watch the user asked to stop is never reported as anything else.
THEOREM CancellationSafety == Spec => []CancellationSticks
<1>1. EvidenceInv => CancellationSticks
  BY DEF EvidenceInv, CancellationSticks, verdict
<1> QED BY <1>1, EvidenceInvariant, PTL

-----------------------------------------------------------------------------
(* No second unseen.                                                       *)

\* Less than a whole step either way from a multiple lies no other multiple.
LEMMA NoMultipleNear ==
    ASSUME NEW S \in Nat \ {0}, NEW d \in Int, -S < S * d, S * d < S
    PROVE  d = 0
<1>1. CASE d >= 1
  <2>1. S * (d - 1) >= 0
    BY <1>1
  <2> QED BY <2>1
<1>2. CASE d <= -1
  <2>1. S * (d + 1) <= 0
    BY <1>2
  <2> QED BY <2>1
<1> QED BY <1>1, <1>2

LEMMA DivMod ==
    ASSUME NEW S \in Nat \ {0}, NEW a \in Int
    PROVE  a = S * (a \div S) + (a % S) /\ a % S \in 0..(S - 1) /\ a \div S \in Int
OBVIOUS

\* A number that is off its remainder by less than what is missing to a multiple
\* is no multiple.
LEMMA NotMultiple ==
    ASSUME NEW S \in Nat \ {0}, NEW a \in Int, NEW k \in Int,
           -S < (a % S) + k, (a % S) + k < S, (a % S) + k # 0
    PROVE  (a + k) % S # 0
<1> SUFFICES ASSUME (a + k) % S = 0 PROVE FALSE
  OBVIOUS
<1> DEFINE p == a \div S
           q == (a + k) \div S
           r == a % S
<1>1. a = S * p + r /\ r \in Int /\ p \in Int
  BY DivMod
<1>2. a + k = S * q /\ q \in Int
  <2>1. a + k = S * q + ((a + k) % S) /\ q \in Int
    BY DivMod
  <2> QED BY <2>1
<1>3. -S < r + k /\ r + k < S /\ r + k # 0
  OBVIOUS
<1> HIDE DEF p, q, r
<1>4. S * p \in Int /\ S * q \in Int /\ S * (q - p) = S * q - S * p
  BY <1>1, <1>2
<1>5. S * (q - p) = r + k
  BY <1>1, <1>2, <1>4
<1>6. q - p = 0
  BY <1>1, <1>2, <1>3, <1>5, NoMultipleNear
<1>7. S * (q - p) = 0
  BY <1>6
<1> QED BY <1>3, <1>5, <1>7

\* Neither figure changes before the delay is over: the elapsed clock at whole
\* seconds, the countdown at whole seconds from the poll.
LEMMA DelayShows ==
    ASSUME TypeOK, NEW poll \in Nat, NEW b \in (now + 1)..(now + clockDelay(poll) - 1)
    PROVE  /\ b % Second # 0
           /\ b < poll => (poll - b) % Second # 0
<1> USE TimesAssumption
<1> DEFINE e == now % Second
           d == clockDelay(poll)
           k == b - now
<1>n. now \in Nat /\ Second \in Nat \ {0} /\ b \in Int
  BY DEF TypeOK
<1>e. e \in 0..(Second - 1)
  BY <1>n, DivMod
<1>d. d \in Nat /\ d <= Second - e
  <2>1. d \in Nat
    BY DelayType DEF TypeOK
  <2> HIDE DEF e
  <2>2. d = Second - e \/ d < Second - e
    BY <1>n, <1>e DEF clockDelay, e
  <2> QED BY <1>n, <1>e, <2>1, <2>2
<1>k. k \in Int /\ 1 <= k /\ k < d /\ b = now + k
  BY <1>n, <1>d
<1>1. b % Second # 0
  <2> HIDE DEF e, d, k
  <2>1. -Second < e + k /\ e + k < Second /\ e + k # 0
    BY <1>n, <1>e, <1>d, <1>k
  <2> DEFINE a == now
  <2>2. a \in Int /\ b = a + k /\ e = a % Second
    BY <1>n, <1>k DEF e
  <2> HIDE DEF a
  <2>3. -Second < (a % Second) + k /\ (a % Second) + k < Second /\ (a % Second) + k # 0
    BY <2>1, <2>2
  <2>4. (a + k) % Second # 0
    BY <1>n, <1>k, <2>2, <2>3, NotMultiple
  <2> QED BY <2>2, <2>4
<1>2. ASSUME b < poll PROVE (poll - b) % Second # 0
  <2> DEFINE a == poll - now
             c == a % Second
  <2>1. a \in Int /\ now < poll /\ poll - b = a + (-k)
    BY <1>2, <1>n, <1>k
  <2>2. c \in 0..(Second - 1)
    BY <1>n, <2>1, DivMod
  <2>3. c > 0 => d <= c
    <3>1. CASE c > 0 /\ c < Second - e
      BY <2>1, <3>1 DEF clockDelay
    <3>2. CASE ~(c < Second - e)
      <4> HIDE DEF e, d, c
      <4> QED BY <1>n, <1>e, <1>d, <2>2, <3>2
    <3> QED BY <3>1, <3>2
  <2> HIDE DEF e, d, k, c
  <2>4. -Second < c + (-k) /\ c + (-k) < Second /\ c + (-k) # 0
    BY <1>n, <1>e, <1>d, <1>k, <2>2, <2>3
  <2> HIDE DEF a
  <2>5. /\ -Second < (a % Second) + (-k) /\ (a % Second) + (-k) < Second
        /\ (a % Second) + (-k) # 0 /\ -k \in Int
    BY <1>k, <2>4 DEF c
  <2>6. (a + (-k)) % Second # 0
    BY <1>n, <2>1, <2>5, NotMultiple
  <2> QED BY <2>1, <2>6
<1> QED BY <1>1, <1>2

\* A clock armed now shows every change up to its tick.
LEMMA ArmShows ==
    ASSUME TypeOK, ClockInv, NEW T \in SUBSET ticks, armClock(T), nextPoll' \in Nat, now' = now
    PROVE  EverySecondShown'
<1>p. PICK poll \in Nat : nextPoll' = poll
  OBVIOUS
<1> DEFINE tick == [gen |-> clockGen + 1, at |-> now + clockDelay(poll)]
<1>1. clockGen' = clockGen + 1 /\ ticks' = T \cup {tick}
  BY <1>p DEF armClock, clockDelay
<1>2. \A u \in T : u.gen <= clockGen /\ u.gen \in Nat
  BY DEF ClockInv, TypeOK
<1>3. ASSUME NEW t \in ticks', t.gen = clockGen' PROVE t = tick
  BY <1>1, <1>2, <1>3 DEF TypeOK
<1>d. PICK d \in Nat : d = clockDelay(poll)
  BY DelayType DEF TypeOK
<1>a. tick.at = now + d /\ now \in Nat
  BY <1>d DEF TypeOK
<1> HIDE DEF tick
<1>4. ASSUME NEW b \in (now + 1)..(tick.at - 1)
      PROVE  /\ b % Second # 0
             /\ b < poll => (poll - b) % Second # 0
  <2>1. b \in (now + 1)..(now + d - 1)
    BY <1>a
  <2> QED BY <1>d, <2>1, DelayShows
<1> QED BY <1>p, <1>3, <1>4 DEF EverySecondShown

LEMMA StepShown == TypeOK /\ ClockInv /\ EverySecondShown /\ [Next]_vars => EverySecondShown'
<1> SUFFICES ASSUME TypeOK, ClockInv, EverySecondShown, [Next]_vars PROVE EverySecondShown'
  OBVIOUS
<1>t. nextPoll' \in Nat
  BY StepType DEF TypeOK
\* Steps that leave the clock armed as it was, or end the watch.
<1>a. ASSUME UNCHANGED <<now, done, clockGen, nextPoll>>, ticks' \subseteq ticks
      PROVE  EverySecondShown'
  BY <1>a DEF EverySecondShown
<1>b. done' => EverySecondShown'
  BY DEF EverySecondShown
<1>1. ASSUME NEW t \in ticks, ClockMsg(t) PROVE EverySecondShown'
  <2>0. now' = now
    BY <1>1 DEF ClockMsg
  <2>1. CASE dropTick(t)
    BY <1>a, <2>0, <2>1 DEF dropTick, model
  <2>2. CASE onClock(t) /\ timedOut
    BY <1>b, <2>2 DEF onClock, quit
  <2>3. CASE onClock(t) /\ ~timedOut
    BY <1>t, <2>0, <2>3, ArmShows DEF onClock
  <2> QED BY <1>1, <2>1, <2>2, <2>3 DEF ClockMsg
<1>2. ASSUME NEW n \in fetches, StateMsg(n) PROVE EverySecondShown'
  <2>1. ASSUME NEW s \in Polls, onStateOk(s) PROVE EverySecondShown'
    BY <1>2, <1>b, <1>t, <2>1, ArmShows DEF StateMsg, onStateOk, quit
  <2>2. ASSUME NEW c \in BOOLEAN, onStateErr(c) PROVE EverySecondShown'
    BY <1>b, <2>2 DEF onStateErr, quit
  <2> QED BY <1>2, <2>1, <2>2 DEF StateMsg
<1>3. CASE onKeyQuit
  BY <1>b, <1>3 DEF onKeyQuit, quit
<1>4. CASE onKeyRefresh
  BY <1>t, <1>4, ArmShows DEF onKeyRefresh
<1>5. CASE Advance
  <2>1. now' = now + 1 /\ UNCHANGED <<done, clockGen, nextPoll, ticks>> /\ now \in Nat
    BY <1>5 DEF Advance, model, TypeOK
  <2>2. \A t \in ticks : t.at \in Nat
    BY DEF TypeOK
  <2>3. \A t \in ticks : (now' + 1)..(t.at - 1) \subseteq (now + 1)..(t.at - 1)
    BY <2>1, <2>2
  <2> QED BY <2>1, <2>3 DEF EverySecondShown
<1>6. CASE QuitMsg \/ Signal \/ Killed \/ DisplayFails \/ Returned \/ UNCHANGED vars
  BY <1>a, <1>6 DEF QuitMsg, Signal, Killed, DisplayFails, Returned, model, vars
<1> QED BY <1>1, <1>2, <1>3, <1>4, <1>5, <1>6 DEF Next

\* No second of the elapsed clock or of the countdown passes unseen, whatever the
\* poll interval is to a second and whenever the schedule is changed: up to the
\* tick that is armed, no figure on screen is due to change.
THEOREM ShownSafety == Spec => []EverySecondShown
<1>1. Init => ClockInv /\ EverySecondShown
  <2> SUFFICES ASSUME Init PROVE ClockInv /\ EverySecondShown
    OBVIOUS
  <2>1. ClockInv
    BY DEF Init, ClockInv, OneLiveClock
  <2>2. ASSUME NEW b \in 1..(Second - 1) PROVE b % Second # 0
    <3>1. 0 % Second = 0
      BY TimesAssumption
    <3>2. (0 + b) % Second # 0
      <4>1. b \in Int /\ -Second < 0 + b /\ 0 + b < Second /\ 0 + b # 0
        BY TimesAssumption
      <4> QED BY <3>1, <4>1, NotMultiple, TimesAssumption
    <3> QED BY <3>2
  <2>3. now = 0 /\ nextPoll = 0 /\ ticks = {[gen |-> 0, at |-> Second]}
    BY DEF Init
  <2>4. EverySecondShown
    BY <2>2, <2>3, TimesAssumption DEF EverySecondShown
  <2> QED BY <2>1, <2>4
<1> QED BY <1>1, InitType, StepType, StepClock, StepShown, PTL DEF Spec
=============================================================================
