-------------------------------- MODULE MCQA --------------------------------
(* Two users; one of them owns a document of two chunks, the other nothing. *)
EXTENDS QA, TLC

CONSTANTS u1, u2, d1, c1, c2

MCUsers == {u1, u2}
MCDocs == {d1}
MCChunks == {c1, c2}
MCOwnerOf == d1 :> u1
MCDocOf == (c1 :> d1) @@ (c2 :> d1)
=============================================================================
