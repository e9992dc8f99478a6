--------------------------- MODULE CitationInputs ---------------------------
(* What extract_citations of backend/app/qa/citations.py is given: the numbers *)
(* that an answer mentions, and how many excerpts the prompt had.             *)
EXTENDS Integers, Sequences

CONSTANTS Answers, ChunkCounts

ASSUME AnswersAssumption == Answers \subseteq Seq(Nat) /\ ChunkCounts \subseteq Nat
=============================================================================
