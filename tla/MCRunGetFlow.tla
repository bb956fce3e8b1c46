----------------------------- MODULE MCRunGetFlow -----------------------------
(* One run of two workflows with a job each.                                 *)
EXTENDS RunGetFlow, TLC

CONSTANTS r1, w1, w2, j1, j2

MCRunOf == (w1 :> r1) @@ (w2 :> r1)

MCWorkflowOf == (j1 :> w1) @@ (j2 :> w2)
=============================================================================
