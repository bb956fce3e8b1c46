--------------------------- MODULE RunWatchPromise ---------------------------
(***************************************************************************)
(* What `circleci run watch` promises, however it is shown: it polls, and  *)
(* it returns an outcome the polls, the clock or the user account for.     *)
(* RunWatchFlow (on a terminal) and RunWatchLoop (anywhere else) implement *)
(* it; watch.go:275 wants both to agree.                                   *)
(***************************************************************************)

CONSTANTS
    Polls,      \* what a poll may report, records [done, failed, outcome]
    NoPoll,     \* before the first poll
    FailFast    \* --failfast

VARIABLES
    last,       \* the most recent poll
    due,        \* the timeout has elapsed
    asked,      \* the user has asked to stop, with a key or a signal
    exit        \* the outcome returned; "none" until then

vars == <<last, due, asked, exit>>

Init == last = NoPoll /\ due = FALSE /\ asked = FALSE /\ exit = "none"

Poll ==
    /\ exit = "none"
    /\ last' \in Polls
    /\ UNCHANGED <<due, asked, exit>>

Elapse == due' = TRUE /\ UNCHANGED <<last, asked, exit>>

Stop == asked' = TRUE /\ UNCHANGED <<last, due, exit>>

\* The outcomes the evidence so far allows.
Justified ==
    {"apiError", "displayFailed"}
    \cup (IF asked THEN {"interrupted"} ELSE {})
    \cup (IF due THEN {"timeout"} ELSE {})
    \cup (IF FailFast /\ last.failed THEN {"failFast"} ELSE {})
    \cup (IF ~last.done THEN {}
          ELSE CASE last.outcome = "succeeded" -> {"success"}
                 [] last.outcome = "canceled"  -> {"runCanceled"}
                 [] OTHER                      -> {"runFailed"})

Return ==
    /\ exit = "none"
    /\ exit' \in Justified
    /\ UNCHANGED <<last, due, asked>>

Next == Poll \/ Elapse \/ Stop \/ Return

Spec == Init /\ [][Next]_vars
=============================================================================
