--------------------------- MODULE MCExtensionStore ---------------------------
(* Two processes and an official extension of two releases, the second shorter. *)
EXTENDS ExtensionStore

CONSTANTS p1, p2, testsuite

Sizes == <<2, 1>>
=============================================================================
