--------------------------- MODULE MCRunWatchLoop ---------------------------
(* RunWatchLoop on a run of two workflows.                                 *)
EXTENDS RunWatchLoop

MCOutcomes   == {"succeeded", "canceled"}
MCSkipped    == {"succeeded", "not_run"}
=============================================================================
