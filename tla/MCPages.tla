------------------------------- MODULE MCPages -------------------------------
(* A comment just long enough for both sides, and one of six characters        *)
(* outside the Basic Multilingual Plane, which JavaScript counts twice.        *)
EXTENDS Pages

FewTexts == {[units |-> 10, points |-> 10], [units |-> 12, points |-> 6]}
=============================================================================
