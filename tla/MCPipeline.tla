----------------------------- MODULE MCPipeline -----------------------------
(***************************************************************************)
(* Every text of up to three paragraphs, from the shortest to ones that need  *)
(* several slices; every answer of up to MaxMentions markers, [0] and one     *)
(* number too many among them.                                               *)
(***************************************************************************)
EXTENDS Pipeline, SequencesExt

CONSTANTS LongestParagraph, MaxMentions

MCTexts == BoundedSeq(1..LongestParagraph, 3)
MCAnswers == BoundedSeq(0..TOP_K + 1, MaxMentions)
MCChunkCounts == 0..TOP_K
=============================================================================
