----------------------------- MODULE MCReview -----------------------------
(* Review for TLC: the constants are all given in the configurations. *)
EXTENDS Review
============================================================================
