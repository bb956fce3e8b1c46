---------------------------- MODULE MCUpdateCheck ----------------------------
(* Two processes, each checking for a release of the CLI or of an extension. *)
EXTENDS UpdateCheck

CONSTANTS p1, p2, cli, ext
=============================================================================
