---------------------------- MODULE MCDocuments ----------------------------
(* Documents for TLC: the constants are all given in the configurations. *)
EXTENDS Documents
============================================================================
