------------------------------ MODULE Chunking ------------------------------
(***************************************************************************)
(* chunk_text of backend/app/ingestion/chunking.py, one step per turn of    *)
(* its loops.  A text is what the algorithm sees of it: the lengths of its  *)
(* paragraphs, which are stripped and never empty.  A chunk is the run of   *)
(* paragraphs first..last it was made of, with the offset its characters    *)
(* start at in the first one and how many they are, separators included.    *)
(***************************************************************************)
EXTENDS ChunkingInputs

Separator == 2  \* the length of "\n\n"

VARIABLES text, i, start, current, chunks, pc

vars == <<text, i, start, current, chunks, pc>>

Chunk == [first : Nat, last : Nat, from : Nat, chars : Nat]
Empty == [first |-> 0, last |-> 0, from |-> 0, chars |-> 0]
Alone(p) == [first |-> p, last |-> p, from |-> 0, chars |-> text[p]]

\* The paragraphs end or the next one is too long: current is stored if it holds
\* anything.
Stored == IF current.chars > 0 THEN Append(chunks, current) ELSE chunks

Candidate ==
  IF current.chars = 0 THEN Alone(i)
  ELSE [current EXCEPT !.last = i, !.chars = @ + Separator + text[i]]

Init ==
  /\ text \in Texts
  /\ i = 1 /\ start = 0
  /\ current = Empty /\ chunks = <<>>
  /\ pc = "paragraphs"

AtParagraph == pc = "paragraphs" /\ i \in 1..Len(text)
TooLong == text[i] > MAX_CHUNK_CHARS

\* An oversized paragraph: what was gathered is stored first.
BeginSplit ==
  /\ AtParagraph /\ TooLong
  /\ chunks' = Stored /\ current' = Empty
  /\ start' = 0 /\ pc' = "splitting"
  /\ UNCHANGED <<text, i>>

SliceAt(n) == [first |-> i, last |-> i, from |-> start, chars |-> n]

ReachesEnd == start + MAX_CHUNK_CHARS >= text[i]

Slice ==
  /\ pc = "splitting" /\ ~ReachesEnd
  /\ chunks' = Append(chunks, SliceAt(MAX_CHUNK_CHARS))
  /\ start' = start + (MAX_CHUNK_CHARS - CHUNK_OVERLAP_CHARS)
  /\ UNCHANGED <<text, i, current, pc>>

\* The slice that reaches the end of the paragraph.
LastSlice ==
  /\ pc = "splitting" /\ ReachesEnd
  /\ chunks' = Append(chunks, SliceAt(text[i] - start))
  /\ i' = i + 1 /\ start' = 0 /\ pc' = "paragraphs"
  /\ UNCHANGED <<text, current>>

Pack ==
  /\ AtParagraph /\ ~TooLong
  /\ Candidate.chars <= MAX_CHUNK_CHARS
  /\ current' = Candidate
  /\ i' = i + 1
  /\ UNCHANGED <<text, start, chunks, pc>>

StartNext ==
  /\ AtParagraph /\ ~TooLong
  /\ Candidate.chars > MAX_CHUNK_CHARS
  /\ chunks' = Append(chunks, current)
  /\ current' = Alone(i)
  /\ i' = i + 1
  /\ UNCHANGED <<text, start, pc>>

FinishWithLeftover ==
  /\ pc = "paragraphs" /\ i > Len(text)
  /\ current.chars > 0
  /\ chunks' = Stored /\ current' = Empty
  /\ pc' = "done"
  /\ UNCHANGED <<text, i, start>>

FinishUnflushed ==
  /\ pc = "paragraphs" /\ i > Len(text)
  /\ current' = Empty
  /\ pc' = "done"
  /\ UNCHANGED <<text, i, start, chunks>>

Finish ==
  /\ pc = "paragraphs" /\ i > Len(text)
  /\ chunks' = Stored /\ current' = Empty
  /\ pc' = "done"
  /\ UNCHANGED <<text, i, start>>

Next == BeginSplit \/ Slice \/ LastSlice \/ Pack \/ StartNext \/ Finish

Spec == Init /\ [][Next]_vars

-----------------------------------------------------------------------------
TypeOK ==
  /\ text \in Texts
  /\ i \in 1..Len(text) + 1
  /\ start \in Nat
  /\ current \in Chunk
  /\ chunks \in Seq(Chunk)
  /\ pc \in {"paragraphs", "splitting", "done"}
  /\ pc = "splitting" => i <= Len(text)

\* Every chunk can be embedded: it is not empty and no longer than the limit,
\* separators included.
ChunksFit ==
  \A k \in 1..Len(chunks) : chunks[k].chars \in 1..MAX_CHUNK_CHARS

Covers(c, p, x) ==
  \/ c.first < c.last /\ p \in c.first..c.last
  \/ c.first = p /\ c.last = p /\ x \in c.from..(c.from + c.chars - 1)

\* "so no sentence is lost at a boundary": each character of each paragraph is
\* in a chunk when chunk_text returns.
NothingIsLost ==
  pc = "done" => \A p \in 1..Len(text) : \A x \in 0..text[p] - 1 :
                   \E k \in 1..Len(chunks) : Covers(chunks[k], p, x)

\* chunk_index follows the text: a chunk starts after the paragraphs of the one
\* before it, or in the same oversized paragraph, with exactly the overlap in
\* common and something new at its end.
InReadingOrder ==
  \A k \in 1..Len(chunks) - 1 :
    LET c == chunks[k]
        d == chunks[k + 1]
    IN  \/ d.first = c.last + 1 /\ d.from = 0
        \/ /\ d.first = c.last
           /\ d.from = c.from + c.chars - CHUNK_OVERLAP_CHARS
           /\ d.chars > CHUNK_OVERLAP_CHARS

\* "paragraphs are joined until a chunk would exceed MAX_CHUNK_CHARS": where two
\* chunks meet, the second one's first paragraph did not fit into the first.
PackedGreedily ==
  \A k \in 1..Len(chunks) - 1 :
    chunks[k + 1].first > chunks[k].last =>
      \/ text[chunks[k].last] > MAX_CHUNK_CHARS
      \/ chunks[k].chars + Separator + text[chunks[k + 1].first] > MAX_CHUNK_CHARS
=============================================================================
