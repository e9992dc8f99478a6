------------------------------- MODULE MCUsers -------------------------------
(* Symmetry for the safety runs of Users. *)
EXTENDS Users, TLC

UserSymmetry == Permutations(Founders) \cup Permutations(Users \ Founders)
                \cup Permutations(Updates) \cup Permutations(Registrations)
==============================================================================
