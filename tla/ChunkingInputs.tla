--------------------------- MODULE ChunkingInputs ---------------------------
(* The sizes of backend/app/ingestion/chunking.py and the texts it is given. *)
EXTENDS Integers, Sequences

CONSTANTS MAX_CHUNK_CHARS, CHUNK_OVERLAP_CHARS, Texts

ASSUME SizesAssumption ==
  /\ MAX_CHUNK_CHARS \in Nat \ {0}
  /\ CHUNK_OVERLAP_CHARS \in Nat
  /\ CHUNK_OVERLAP_CHARS < MAX_CHUNK_CHARS
ASSUME TextsAssumption == Texts \subseteq Seq(Nat \ {0})
=============================================================================
