----------------------------- MODULE MCSession -----------------------------
(* Session for TLC: the constants are all given in the configuration. *)
EXTENDS Session
=============================================================================
