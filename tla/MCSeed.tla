------------------------------- MODULE MCSeed -------------------------------
(***************************************************************************)
(* The seed's own list of questions, in two containers.                      *)
(***************************************************************************)
EXTENDS Seed

MCQuestions == <<"approved", "flagged", "rejected", "pending_review">>
=============================================================================
