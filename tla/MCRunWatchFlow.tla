--------------------------- MODULE MCRunWatchFlow ---------------------------
(* RunWatchFlow with two clock units to a second and a poll every 3 units,  *)
(* so polls and whole seconds fall out of phase.                            *)
EXTENDS RunWatchFlow

MCPoll(d, f, o) == [done |-> d, failed |-> f, outcome |-> o]

MCNoPoll == MCPoll(FALSE, FALSE, "running")

\* Going, going with a failed job, succeeded, canceled, and over with a failure.
MCPolls == {MCNoPoll, MCPoll(FALSE, TRUE, "failed"), MCPoll(TRUE, FALSE, "succeeded"),
            MCPoll(TRUE, FALSE, "canceled"), MCPoll(TRUE, TRUE, "failed")}
=============================================================================
