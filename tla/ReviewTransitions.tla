-------------------------- MODULE ReviewTransitions --------------------------
(***************************************************************************)
(* The pure rules of the review domain: the allowed-transition map of      *)
(* backend/app/review/transitions.py and the request validator of          *)
(* backend/app/review/schemas.py.  A comment is abstracted to what the     *)
(* validator tells apart: absent (or blank, which it strips to absent),    *)
(* of a length outside 10..1000, or acceptable.                            *)
(***************************************************************************)

AnswerStatus == {"pending_review", "approved", "flagged", "rejected"}

Comments == {"absent", "bad_length", "present"}

ALLOWED_TRANSITIONS ==
  [ s \in AnswerStatus |->
      CASE s = "pending_review" -> {"approved", "flagged", "rejected"}
        [] s = "flagged"        -> {"approved", "rejected"}
        [] OTHER                -> {} ]

AllowedDecisions(current) == ALLOWED_TRANSITIONS[current]

Terminal == {s \in AnswerStatus : ALLOWED_TRANSITIONS[s] = {}}

\* DecisionCreate.decision_rules: what gets past request validation.
ValidDecision(d, comment) ==
  /\ d # "pending_review"
  /\ d # "approved" => comment # "absent"
  /\ comment # "bad_length"
==============================================================================
