---------------------------- MODULE MCLoginFlow ----------------------------
(* Two hosts, a token to paste, and up to two flows, one by mistake. *)
EXTENDS LoginFlow
=============================================================================
