--------------------------- MODULE PipelineProofs ---------------------------
(***************************************************************************)
(* What the algorithms of the pipeline promise, for every text, size, table, *)
(* limit and answer, and that it still holds when the result of each is      *)
(* handed to the next.  Each part has an inductive invariant of its own; the *)
(* last section shows that every call starts where its part begins and that  *)
(* nothing disturbs a part between its steps.                                *)
(***************************************************************************)
EXTENDS Pipeline, FiniteSetTheorems, TLAPS

-----------------------------------------------------------------------------
(* chunk_text: every character is kept, in order, in chunks that are full and fit *)

\* What has been gathered is a run of whole paragraphs that ends just before i.
CurrentIsRun ==
  /\ current.chars <= MAX_CHUNK_CHARS
  /\ current.chars > 0 =>
       /\ current.first \in 1..current.last
       /\ current.last = i - 1
       /\ current.from = 0
       /\ current.first = current.last => current.chars = text[current.first]
  /\ chunkPc \in {"splitting", "done"} => current.chars = 0

\* The next slice starts inside the oversized paragraph.
StartIsInside ==
  chunkPc = "splitting" => text[i] > MAX_CHUNK_CHARS /\ start < text[i]

InChunks(p, x) == \E k \in 1..Len(chunked) : Chunker!Covers(chunked[k], p, x)
Kept(p, x) == InChunks(p, x) \/ (current.chars > 0 /\ Chunker!Covers(current, p, x))

\* Nothing that was passed over is lost.
PassedIsKept ==
  /\ \A p \in 1..i - 1 : \A x \in 0..text[p] - 1 : Kept(p, x)
  /\ chunkPc = "splitting" => \A x \in 0..start - 1 : InChunks(i, x)
  /\ chunkPc = "done" => i = Len(text) + 1

LoopInv == Chunker!TypeOK /\ CurrentIsRun /\ StartIsInside /\ Chunker!ChunksFit /\ PassedIsKept

-----------------------------------------------------------------------------
\* A text is a sequence of positive lengths.
LEMMA TextType == ASSUME Chunker!TypeOK PROVE text \in Seq(Nat \ {0})
  BY TextsAssumption DEF Chunker!TypeOK

\* Appending to the chunks keeps what they cover and adds what the new one does.
LEMMA AppendKeeps ==
  ASSUME NEW S \in Seq(Chunker!Chunk), NEW c \in Chunker!Chunk, NEW p, NEW x
  PROVE  /\ (\E k \in 1..Len(S) : Chunker!Covers(S[k], p, x)) =>
              \E k \in 1..Len(Append(S, c)) : Chunker!Covers(Append(S, c)[k], p, x)
         /\ Chunker!Covers(c, p, x) =>
              \E k \in 1..Len(Append(S, c)) : Chunker!Covers(Append(S, c)[k], p, x)
<1>1. /\ Append(S, c) \in Seq(Chunker!Chunk)
      /\ Len(Append(S, c)) = Len(S) + 1
      /\ Append(S, c)[Len(S) + 1] = c
      /\ \A k \in 1..Len(S) : Append(S, c)[k] = S[k]
  OBVIOUS
<1>2. ASSUME NEW k \in 1..Len(S), Chunker!Covers(S[k], p, x)
      PROVE  \E l \in 1..Len(Append(S, c)) : Chunker!Covers(Append(S, c)[l], p, x)
  <2>1. k \in 1..Len(Append(S, c)) /\ Append(S, c)[k] = S[k]
    BY <1>1
  <2> QED BY <2>1, <1>2
<1>3. ASSUME Chunker!Covers(c, p, x)
      PROVE  \E l \in 1..Len(Append(S, c)) : Chunker!Covers(Append(S, c)[l], p, x)
  <2>1. Len(S) + 1 \in 1..Len(Append(S, c))
    BY <1>1
  <2> QED BY <1>1, <1>3, <2>1
<1> QED BY <1>2, <1>3

\* Appending a chunk that fits keeps every chunk fitting.
LEMMA AppendFits ==
  ASSUME NEW S \in Seq(Chunker!Chunk), NEW c \in Chunker!Chunk,
         \A k \in 1..Len(S) : S[k].chars \in 1..MAX_CHUNK_CHARS,
         c.chars \in 1..MAX_CHUNK_CHARS
  PROVE  \A k \in 1..Len(Append(S, c)) : Append(S, c)[k].chars \in 1..MAX_CHUNK_CHARS
<1>1. /\ Len(Append(S, c)) = Len(S) + 1
      /\ Append(S, c)[Len(S) + 1] = c
      /\ \A k \in 1..Len(S) : Append(S, c)[k] = S[k]
  OBVIOUS
<1>2. TAKE k \in 1..Len(Append(S, c))
<1>3. k \in 1..Len(S) \/ k = Len(S) + 1
  BY <1>1
<1> QED BY <1>1, <1>3

LEMMA LoopInit == Chunker!Init => LoopInv
<1> SUFFICES ASSUME Chunker!Init PROVE LoopInv
  OBVIOUS
<1>1. Chunker!TypeOK
  <2>1. text \in Seq(Nat \ {0})
    BY TextsAssumption DEF Chunker!Init
  <2> QED BY <2>1 DEF Chunker!Init, Chunker!TypeOK, Chunker!Chunk, Chunker!Empty
<1>2. CurrentIsRun
  BY SizesAssumption DEF Chunker!Init, CurrentIsRun, Chunker!Empty
<1> QED BY <1>1, <1>2 DEF Chunker!Init, LoopInv, StartIsInside, Chunker!ChunksFit, PassedIsKept

-----------------------------------------------------------------------------
\* What the gathered run is worth once a paragraph is added to it.
LEMMA CandidateType ==
  ASSUME LoopInv, Chunker!AtParagraph
  PROVE  /\ Chunker!Candidate \in Chunker!Chunk
         /\ Chunker!Candidate.chars \in Nat \ {0}
         /\ Chunker!Candidate.first \in 1..i /\ Chunker!Candidate.last = i
         /\ Chunker!Candidate.from = 0
         /\ Chunker!Candidate.first = i => Chunker!Candidate.chars = text[i]
         /\ \A p \in 1..i - 1 : \A x : current.chars > 0 /\ Chunker!Covers(current, p, x) =>
                                    Chunker!Covers(Chunker!Candidate, p, x)
         /\ \A x \in 0..text[i] - 1 : Chunker!Covers(Chunker!Candidate, i, x)
         /\ current.chars = 0 => Chunker!Candidate.chars = text[i]
<1>1. text \in Seq(Nat \ {0}) /\ i \in 1..Len(text) /\ text[i] \in Nat \ {0}
  BY TextType DEF LoopInv, Chunker!TypeOK, Chunker!AtParagraph
<1>2. current \in Chunker!Chunk
  BY DEF LoopInv, Chunker!TypeOK
<1>3. CASE current.chars = 0
  <2>1. Chunker!Candidate = [first |-> i, last |-> i, from |-> 0, chars |-> text[i]]
    BY <1>3 DEF Chunker!Candidate, Chunker!Alone
  <2> QED BY <2>1, <1>1, <1>3 DEF Chunker!Chunk, Chunker!Covers
<1>4. CASE current.chars > 0
  <2>1. Chunker!Candidate = [first |-> current.first, last |-> i, from |-> current.from,
                     chars |-> current.chars + 2 + text[i]]
    <3>1. current.chars # 0 /\ current.chars \in Nat
      BY <1>2, <1>4 DEF Chunker!Chunk
    <3>2. Chunker!Candidate = [current EXCEPT !.last = i, !.chars = current.chars + 2 + text[i]]
      BY <3>1 DEF Chunker!Candidate, Chunker!Separator
    <3> QED BY <1>2, <3>2 DEF Chunker!Chunk
  <2>2. /\ current.first \in 1..i - 1
        /\ current.last = i - 1
        /\ current.from = 0
    BY <1>1, <1>2, <1>4 DEF LoopInv, CurrentIsRun, Chunker!Chunk
  <2>3. /\ Chunker!Candidate.first = current.first /\ Chunker!Candidate.last = i
        /\ Chunker!Candidate.first < Chunker!Candidate.last
    BY <2>1, <2>2, <1>1
  <2>4. \A p \in 1..i - 1 : \A x : Chunker!Covers(current, p,
    x) => Chunker!Covers(Chunker!Candidate, p, x)
    BY <2>2, <2>3, <1>1 DEF Chunker!Covers
  <2>5. \A x : Chunker!Covers(Chunker!Candidate, i, x)
    BY <2>2, <2>3, <1>1 DEF Chunker!Covers
  <2>6. Chunker!Candidate \in Chunker!Chunk /\ Chunker!Candidate.chars \in Nat \ {0}
    BY <2>1, <1>1, <1>2 DEF Chunker!Chunk
  <2> QED BY <2>1, <2>2, <2>3, <2>4, <2>5, <2>6, <1>1, <1>4
<1>5. current.chars = 0 \/ current.chars > 0
  BY <1>2 DEF Chunker!Chunk
<1> QED BY <1>3, <1>4, <1>5

\* Storing what was gathered keeps the chunks well formed and all that is kept.
LEMMA StoredKeeps ==
  ASSUME LoopInv
  PROVE  /\ Chunker!Stored \in Seq(Chunker!Chunk)
         /\ \A k \in 1..Len(Chunker!Stored) : Chunker!Stored[k].chars \in 1..MAX_CHUNK_CHARS
         /\ \A p, x : Kept(p, x) =>
                     \E k \in 1..Len(Chunker!Stored) : Chunker!Covers(Chunker!Stored[k], p, x)
<1>1. chunked \in Seq(Chunker!Chunk) /\ current \in Chunker!Chunk
  BY DEF LoopInv, Chunker!TypeOK
<1>2. CASE current.chars > 0
  <2>1. Chunker!Stored = Append(chunked, current)
    BY <1>2 DEF Chunker!Stored
  <2>2. current.chars \in 1..MAX_CHUNK_CHARS
    BY <1>1, <1>2, SizesAssumption DEF LoopInv, CurrentIsRun, Chunker!Chunk
  <2>3. \A k \in 1..Len(Chunker!Stored) : Chunker!Stored[k].chars \in 1..MAX_CHUNK_CHARS
    BY <2>1, <2>2, <1>1, AppendFits DEF LoopInv, Chunker!ChunksFit
  <2>4. ASSUME NEW p, NEW x, Kept(p, x)
        PROVE  \E k \in 1..Len(Chunker!Stored) : Chunker!Covers(Chunker!Stored[k], p, x)
    BY <2>1, <2>4, <1>1, AppendKeeps DEF Kept, InChunks
  <2> QED BY <2>1, <2>3, <2>4, <1>1
<1>3. CASE ~(current.chars > 0)
  BY <1>1, <1>3 DEF Chunker!Stored, Kept, InChunks, LoopInv, Chunker!ChunksFit
<1> QED BY <1>2, <1>3

LEMMA BeginSplitIInv == LoopInv /\ Chunker!BeginSplit => LoopInv'
<1> SUFFICES ASSUME LoopInv, Chunker!BeginSplit PROVE LoopInv'
  OBVIOUS
<1>1. text \in Seq(Nat \ {0}) /\ i \in 1..Len(text) /\ text[i] \in Nat \ {0}
  BY TextType DEF LoopInv, Chunker!TypeOK, Chunker!BeginSplit, Chunker!AtParagraph
<1>2. /\ text' = text /\ i' = i /\ start' = 0 /\ chunkPc' = "splitting"
      /\ chunked' = Chunker!Stored /\ current' = Chunker!Empty /\ text[i] > MAX_CHUNK_CHARS
  BY DEF Chunker!BeginSplit, Chunker!TooLong
<1>3. Chunker!TypeOK'
  BY <1>1, <1>2, StoredKeeps DEF LoopInv, Chunker!TypeOK, Chunker!Chunk, Chunker!Empty
<1>4. CurrentIsRun'
  BY <1>2, SizesAssumption DEF CurrentIsRun, Chunker!Empty
<1>5. StartIsInside'
  BY <1>1, <1>2 DEF StartIsInside
<1>6. Chunker!ChunksFit'
  BY <1>2, StoredKeeps DEF Chunker!ChunksFit
<1>7. PassedIsKept'
  <2>1. ASSUME NEW p \in 1..i - 1, NEW x \in 0..text[p] - 1 PROVE Kept(p, x)'
    <3>1. Kept(p, x)
      BY DEF LoopInv, PassedIsKept
    <3> QED BY <3>1, <1>2, StoredKeeps DEF Kept, InChunks
  <2> QED BY <2>1, <1>2 DEF PassedIsKept
<1> QED BY <1>3, <1>4, <1>5, <1>6, <1>7 DEF LoopInv

\* A slice of the paragraph at hand, n characters from start.
LEMMA SliceKeeps ==
  ASSUME LoopInv, chunkPc = "splitting", NEW n \in 1..MAX_CHUNK_CHARS
  PROVE  /\ Append(chunked, Chunker!SliceAt(n)) \in Seq(Chunker!Chunk)
         /\ \A k \in 1..Len(Append(chunked, Chunker!SliceAt(n))) :
               Append(chunked, Chunker!SliceAt(n))[k].chars \in 1..MAX_CHUNK_CHARS
         /\ \A p, x : InChunks(p, x) =>
               \E k \in 1..Len(Append(chunked, Chunker!SliceAt(n))) :
                 Chunker!Covers(Append(chunked, Chunker!SliceAt(n))[k], p, x)
         /\ \A x \in 0..start + n - 1 :
               \E k \in 1..Len(Append(chunked, Chunker!SliceAt(n))) :
                 Chunker!Covers(Append(chunked, Chunker!SliceAt(n))[k], i, x)
<1> DEFINE c == Chunker!SliceAt(n)
<1>1. chunked \in Seq(Chunker!Chunk) /\ i \in Nat /\ start \in Nat /\ n \in Nat
  BY SizesAssumption DEF LoopInv, Chunker!TypeOK
<1>2. c \in Chunker!Chunk /\ c.chars = n /\ c.first = i /\ c.last = i /\ c.from = start
  BY <1>1 DEF Chunker!SliceAt, Chunker!Chunk
<1>3. \A x \in start..start + n - 1 : Chunker!Covers(c, i, x)
  BY <1>1, <1>2 DEF Chunker!Covers
<1>4. \A x \in 0..start - 1 : InChunks(i, x)
  BY DEF LoopInv, PassedIsKept
<1> HIDE DEF c
<1>5. \A p, x : InChunks(p, x) =>
        \E k \in 1..Len(Append(chunked, c)) : Chunker!Covers(Append(chunked, c)[k], p, x)
  BY <1>1, <1>2, AppendKeeps DEF InChunks
<1>6. \A x \in start..start + n - 1 :
        \E k \in 1..Len(Append(chunked, c)) : Chunker!Covers(Append(chunked, c)[k], i, x)
  BY <1>1, <1>2, <1>3, AppendKeeps
<1>7. \A x \in 0..start + n - 1 : x \in 0..start - 1 \/ x \in start..start + n - 1
  BY <1>1
<1>8. \A x \in 0..start + n - 1 :
        \E k \in 1..Len(Append(chunked, c)) : Chunker!Covers(Append(chunked, c)[k], i, x)
  BY <1>4, <1>5, <1>6, <1>7
<1>9. \A k \in 1..Len(Append(chunked, c)) : Append(chunked, c)[k].chars \in 1..MAX_CHUNK_CHARS
  BY <1>1, <1>2, AppendFits DEF LoopInv, Chunker!ChunksFit
<1>10. Append(chunked, c) \in Seq(Chunker!Chunk)
  BY <1>1, <1>2
<1> QED BY <1>5, <1>8, <1>9, <1>10 DEF c

LEMMA SliceIInv == LoopInv /\ Chunker!Slice => LoopInv'
<1> SUFFICES ASSUME LoopInv, Chunker!Slice PROVE LoopInv'
  OBVIOUS
<1>1. /\ text \in Seq(Nat \ {0}) /\ i \in 1..Len(text) /\ text[i] \in Nat \ {0}
      /\ start \in Nat /\ current \in Chunker!Chunk
  BY TextType DEF LoopInv, Chunker!TypeOK, Chunker!Slice
<1>2. /\ text' = text /\ i' = i /\ current' = current /\ chunkPc = "splitting"
      /\ chunkPc' = chunkPc
      /\ start' = start + (MAX_CHUNK_CHARS - CHUNK_OVERLAP_CHARS)
      /\ chunked' = Append(chunked, Chunker!SliceAt(MAX_CHUNK_CHARS))
      /\ ~(start + MAX_CHUNK_CHARS >= text[i])
  BY DEF Chunker!Slice, Chunker!ReachesEnd
<1>3. /\ MAX_CHUNK_CHARS \in 1..MAX_CHUNK_CHARS
      /\ start' \in Nat /\ start' <= start + MAX_CHUNK_CHARS /\ start' < text[i]
  BY <1>1, <1>2, SizesAssumption
<1>4. /\ chunked' \in Seq(Chunker!Chunk)
      /\ Chunker!ChunksFit'
      /\ \A p, x : InChunks(p, x) => InChunks(p, x)'
      /\ \A x \in 0..start + MAX_CHUNK_CHARS - 1 : InChunks(i, x)'
  BY <1>2, <1>3, SliceKeeps DEF Chunker!ChunksFit, InChunks
<1>5. Chunker!TypeOK'
  BY <1>1, <1>2, <1>3, <1>4 DEF LoopInv, Chunker!TypeOK
<1>6. CurrentIsRun' /\ StartIsInside'
  BY <1>1, <1>2, <1>3 DEF LoopInv, CurrentIsRun, StartIsInside
<1>7. PassedIsKept'
  <2>1. \A p \in 1..i - 1 : \A x \in 0..text[p] - 1 : Kept(p, x)'
    BY <1>2, <1>4 DEF LoopInv, PassedIsKept, Kept
  <2>2. \A x \in 0..start' - 1 : InChunks(i, x)'
    <3>1. \A m, s, t \in Nat : t <= s + m => 0..t - 1 \subseteq 0..s + m - 1
      OBVIOUS
    <3>2. 0..start' - 1 \subseteq 0..start + MAX_CHUNK_CHARS - 1
      BY <1>1, <1>3, <3>1, SizesAssumption
    <3>3. \A x \in 0..start + MAX_CHUNK_CHARS - 1 : InChunks(i, x)'
      BY <1>2, <1>4
    <3> QED BY <3>2, <3>3
  <2> QED BY <1>2, <2>1, <2>2 DEF PassedIsKept
<1> QED BY <1>4, <1>5, <1>6, <1>7 DEF LoopInv

LEMMA LastSliceIInv == LoopInv /\ Chunker!LastSlice => LoopInv'
<1> SUFFICES ASSUME LoopInv, Chunker!LastSlice PROVE LoopInv'
  OBVIOUS
<1> DEFINE n == text[i] - start
<1>1. /\ text \in Seq(Nat \ {0}) /\ i \in 1..Len(text) /\ text[i] \in Nat \ {0}
      /\ start \in Nat /\ current \in Chunker!Chunk /\ Len(text) \in Nat
  BY TextType DEF LoopInv, Chunker!TypeOK, Chunker!LastSlice
<1>2. /\ text' = text /\ i' = i + 1 /\ current' = current /\ start' = 0
      /\ chunkPc = "splitting" /\ chunkPc' = "paragraphs"
      /\ chunked' = Append(chunked, Chunker!SliceAt(n))
      /\ start + MAX_CHUNK_CHARS >= text[i]
  BY DEF Chunker!LastSlice, Chunker!ReachesEnd
<1>3. n \in 1..MAX_CHUNK_CHARS /\ 0..start + n - 1 = 0..text[i] - 1
  <2>1. start < text[i]
    BY <1>2 DEF LoopInv, StartIsInside
  <2>2. \A m, s, t \in Nat : s < t /\ s + m >= t => t - s \in 1..m /\ s + (t - s) = t
    OBVIOUS
  <2>3. MAX_CHUNK_CHARS \in Nat /\ text[i] \in Nat
    BY <1>1, SizesAssumption
  <2> QED BY <1>1, <1>2, <2>1, <2>2, <2>3
<1> HIDE DEF n
<1>4. /\ chunked' \in Seq(Chunker!Chunk)
      /\ Chunker!ChunksFit'
      /\ \A p, x : InChunks(p, x) => InChunks(p, x)'
      /\ \A p : p = i => \A x \in 0..text[i] - 1 : InChunks(p, x)'
  <2>1. chunked' \in Seq(Chunker!Chunk) /\ Chunker!ChunksFit'
    BY <1>2, <1>3, SliceKeeps DEF Chunker!ChunksFit
  <2>2. \A p, x : InChunks(p, x) => InChunks(p, x)'
    BY <1>2, <1>3, SliceKeeps DEF InChunks
  <2>3. ASSUME NEW p, p = i PROVE \A x \in 0..text[i] - 1 : InChunks(p, x)'
    <3>1. TAKE x \in 0..text[i] - 1
    <3>2. x \in 0..start + n - 1
      BY <1>3
    <3>3. \E k \in 1..Len(chunked') : Chunker!Covers(chunked'[k], p, x)
      BY <1>2, <1>3, <2>3, <3>2, SliceKeeps
    <3> QED BY <3>3 DEF InChunks, Chunker!Covers
  <2> QED BY <2>1, <2>2, <2>3
<1>5. Chunker!TypeOK'
  BY <1>1, <1>2, <1>4 DEF LoopInv, Chunker!TypeOK
<1>6. CurrentIsRun' /\ StartIsInside'
  BY <1>1, <1>2 DEF LoopInv, CurrentIsRun, StartIsInside, Chunker!Chunk
<1>7. PassedIsKept'
  <2>1. ASSUME NEW p \in 1..i' - 1, NEW x \in 0..text[p] - 1 PROVE Kept(p, x)'
    <3>1. p \in 1..i - 1 \/ p = i
      BY <1>1, <1>2
    <3>2. CASE p \in 1..i - 1
      BY <1>2, <1>4, <3>2 DEF LoopInv, PassedIsKept, Kept
    <3>3. CASE p = i
      BY <1>3, <1>4, <3>3 DEF Kept
    <3> QED BY <3>1, <3>2, <3>3
  <2> QED BY <1>2, <2>1 DEF PassedIsKept
<1> QED BY <1>4, <1>5, <1>6, <1>7 DEF LoopInv

LEMMA PackIInv == LoopInv /\ Chunker!Pack => LoopInv'
<1> SUFFICES ASSUME LoopInv, Chunker!Pack PROVE LoopInv'
  OBVIOUS
<1>1. /\ text \in Seq(Nat \ {0}) /\ i \in 1..Len(text) /\ text[i] \in Nat \ {0}
      /\ Len(text) \in Nat
  BY TextType DEF LoopInv, Chunker!TypeOK, Chunker!Pack, Chunker!AtParagraph
<1>2. /\ text' = text /\ i' = i + 1 /\ start' = start /\ chunked' = chunked
      /\ chunkPc = "paragraphs" /\ chunkPc' = chunkPc /\ current' = Chunker!Candidate
      /\ Chunker!Candidate.chars <= MAX_CHUNK_CHARS
  BY DEF Chunker!Pack, Chunker!AtParagraph
<1>3. Chunker!AtParagraph
  BY DEF Chunker!Pack
<1>4. Chunker!TypeOK'
  BY <1>1, <1>2, <1>3, CandidateType DEF LoopInv, Chunker!TypeOK
<1>5. CurrentIsRun' /\ StartIsInside' /\ Chunker!ChunksFit'
  BY <1>1, <1>2, <1>3, CandidateType DEF LoopInv, CurrentIsRun, StartIsInside, Chunker!ChunksFit
<1>6. PassedIsKept'
  <2>1. ASSUME NEW p \in 1..i' - 1, NEW x \in 0..text[p] - 1 PROVE Kept(p, x)'
    <3>1. p \in 1..i - 1 \/ p = i
      BY <1>1, <1>2
    <3>2. CASE p \in 1..i - 1
      <4>1. Kept(p, x)
        BY <3>2 DEF LoopInv, PassedIsKept
      <4> QED BY <1>2, <1>3, <3>2, <4>1, CandidateType DEF Kept, InChunks
    <3>3. CASE p = i
      BY <1>2, <1>3, <3>3, CandidateType DEF Kept
    <3> QED BY <3>1, <3>2, <3>3
  <2> QED BY <1>2, <2>1 DEF PassedIsKept
<1> QED BY <1>4, <1>5, <1>6 DEF LoopInv

LEMMA StartNextIInv == LoopInv /\ Chunker!StartNext => LoopInv'
<1> SUFFICES ASSUME LoopInv, Chunker!StartNext PROVE LoopInv'
  OBVIOUS
<1>1. /\ text \in Seq(Nat \ {0}) /\ i \in 1..Len(text) /\ text[i] \in Nat \ {0}
      /\ Len(text) \in Nat /\ current \in Chunker!Chunk
  BY TextType DEF LoopInv, Chunker!TypeOK, Chunker!StartNext, Chunker!AtParagraph
<1>2. /\ text' = text /\ i' = i + 1 /\ start' = start
      /\ chunked' = Append(chunked, current)
      /\ chunkPc = "paragraphs" /\ chunkPc' = chunkPc /\ current' = Chunker!Alone(i)
      /\ Chunker!Candidate.chars > MAX_CHUNK_CHARS /\ ~(text[i] > MAX_CHUNK_CHARS)
  BY DEF Chunker!StartNext, Chunker!AtParagraph, Chunker!TooLong
<1>3. Chunker!AtParagraph
  BY DEF Chunker!StartNext
<1>4. current.chars > 0
  BY <1>1, <1>2, <1>3, CandidateType, SizesAssumption DEF Chunker!Chunk
<1>5. chunked' = Chunker!Stored
  BY <1>2, <1>4 DEF Chunker!Stored
<1>6. /\ current' \in Chunker!Chunk /\ current'.chars = text[i] /\ current'.first = i
      /\ current'.last = i /\ current'.from = 0
  BY <1>1, <1>2 DEF Chunker!Alone, Chunker!Chunk
<1>7. Chunker!TypeOK'
  BY <1>1, <1>2, <1>5, <1>6, StoredKeeps DEF LoopInv, Chunker!TypeOK
<1>8. CurrentIsRun' /\ StartIsInside' /\ Chunker!ChunksFit'
  BY <1>1, <1>2, <1>5, <1>6, StoredKeeps, SizesAssumption
     DEF CurrentIsRun, StartIsInside, Chunker!ChunksFit
<1>9. PassedIsKept'
  <2>1. ASSUME NEW p \in 1..i' - 1, NEW x \in 0..text[p] - 1 PROVE Kept(p, x)'
    <3>1. p \in 1..i - 1 \/ p = i
      BY <1>1, <1>2
    <3>2. CASE p \in 1..i - 1
      <4>1. Kept(p, x)
        BY <3>2 DEF LoopInv, PassedIsKept
      <4> QED BY <1>5, <4>1, StoredKeeps DEF Kept, InChunks
    <3>3. CASE p = i
      BY <1>1, <1>6, <3>3 DEF Kept, Chunker!Covers
    <3> QED BY <3>1, <3>2, <3>3
  <2> QED BY <1>2, <2>1 DEF PassedIsKept
<1> QED BY <1>7, <1>8, <1>9 DEF LoopInv

LEMMA FinishIInv == LoopInv /\ Chunker!Finish => LoopInv'
<1> SUFFICES ASSUME LoopInv, Chunker!Finish PROVE LoopInv'
  OBVIOUS
<1>1. text \in Seq(Nat \ {0}) /\ Len(text) \in Nat /\ i = Len(text) + 1
  BY TextType DEF LoopInv, Chunker!TypeOK, Chunker!Finish
<1>2. /\ text' = text /\ i' = i /\ start' = start /\ chunked' = Chunker!Stored
      /\ current' = Chunker!Empty /\ chunkPc' = "done"
  BY DEF Chunker!Finish
<1>3. Chunker!TypeOK'
  BY <1>1, <1>2, StoredKeeps DEF LoopInv, Chunker!TypeOK, Chunker!Chunk, Chunker!Empty
<1>4. CurrentIsRun' /\ StartIsInside' /\ Chunker!ChunksFit'
  BY <1>2, StoredKeeps, SizesAssumption DEF CurrentIsRun, StartIsInside, Chunker!ChunksFit,
     Chunker!Empty
<1>5. PassedIsKept'
  <2>1. \A p \in 1..i - 1 : \A x \in 0..text[p] - 1 : Kept(p, x)
    BY DEF LoopInv, PassedIsKept
  <2> QED BY <1>1, <1>2, <2>1, StoredKeeps DEF PassedIsKept, Kept, InChunks
<1> QED BY <1>3, <1>4, <1>5 DEF LoopInv

LEMMA LoopNext == LoopInv /\ (Chunker!Next \/ UNCHANGED Chunker!vars) => LoopInv'
<1>1. LoopInv /\ UNCHANGED Chunker!vars => LoopInv'
  BY DEF LoopInv, Chunker!vars, Chunker!TypeOK, CurrentIsRun, StartIsInside, Chunker!ChunksFit,
     PassedIsKept,
         Kept, InChunks
<1> QED BY <1>1, BeginSplitIInv, SliceIInv, LastSliceIInv, PackIInv, StartNextIInv,
           FinishIInv DEF Chunker!Next

\* What was kept is in a chunk when nothing is being gathered any more.
LEMMA KeptAtEnd == LoopInv => Chunker!NothingIsLost
<1>1. ASSUME LoopInv, chunkPc = "done", NEW p \in 1..Len(text), NEW x \in 0..text[p] - 1
      PROVE  \E k \in 1..Len(chunked) : Chunker!Covers(chunked[k], p, x)
  <2>1. i = Len(text) + 1 /\ current.chars = 0
    BY <1>1 DEF LoopInv, PassedIsKept, CurrentIsRun
  <2>2. Len(text) \in Nat
    BY <1>1, TextType DEF LoopInv
  <2>3. Kept(p, x)
    BY <1>1, <2>1, <2>2 DEF LoopInv, PassedIsKept
  <2> QED BY <2>1, <2>3 DEF Kept, InChunks
<1> QED BY <1>1 DEF Chunker!NothingIsLost

-----------------------------------------------------------------------------
(* The order of the chunks *)

\* Chunk d may come after chunk c, and does not come too early.
Follows(c, d) ==
  \/ d.first = c.last + 1 /\ d.from = 0
  \/ /\ d.first = c.last
     /\ d.from = c.from + c.chars - CHUNK_OVERLAP_CHARS
     /\ d.chars > CHUNK_OVERLAP_CHARS

Full(c, d) ==
  d.first > c.last =>
    text[c.last] > MAX_CHUNK_CHARS \/
      c.chars + Chunker!Separator + text[d.first] > MAX_CHUNK_CHARS

\* What comes next follows the last chunk: what has been gathered, or the slice
\* at start, which lies in the last chunk's paragraph if it is not the first one.
LastIsFollowed ==
  LET c == chunked[Len(chunked)]
  IN  Len(chunked) > 0 =>
        /\ chunkPc = "paragraphs" /\ current.chars = 0 =>
             c.last = i - 1 /\ text[i - 1] > MAX_CHUNK_CHARS
        /\ chunkPc = "paragraphs" /\ current.chars > 0 =>
             c.last + 1 = current.first /\ Full(c, current)
        /\ chunkPc = "splitting" /\ start = 0 => c.last = i - 1
        /\ chunkPc = "splitting" /\ start > 0 =>
             /\ c.last = i /\ c.from + c.chars - CHUNK_OVERLAP_CHARS = start
             /\ text[i] - start > CHUNK_OVERLAP_CHARS

SlicesStart == chunkPc = "splitting" /\ start > 0 => Len(chunked) > 0

InOrder == Chunker!InReadingOrder /\ Chunker!PackedGreedily /\ LastIsFollowed /\ SlicesStart

\* A chunk that follows the last one can be appended.
LEMMA AppendInOrder ==
  ASSUME Chunker!TypeOK, Chunker!InReadingOrder, Chunker!PackedGreedily, NEW d \in Chunker!Chunk,
         Len(chunked) > 0 => /\ Follows(chunked[Len(chunked)], d)
                             /\ Full(chunked[Len(chunked)], d),
         chunked' = Append(chunked, d), text' = text
  PROVE  /\ Chunker!InReadingOrder' /\ Chunker!PackedGreedily'
         /\ Len(chunked') = Len(chunked) + 1 /\ chunked'[Len(chunked')] = d
<1>1. /\ chunked \in Seq(Chunker!Chunk) /\ Len(chunked) \in Nat
      /\ Len(chunked') = Len(chunked) + 1 /\ chunked'[Len(chunked) + 1] = d
      /\ \A k \in 1..Len(chunked) : chunked'[k] = chunked[k]
  BY DEF Chunker!TypeOK
<1>2. ASSUME NEW k \in 1..Len(chunked') - 1
      PROVE  Follows(chunked'[k], chunked'[k + 1]) /\ Full(chunked'[k], chunked'[k + 1])
  <2>1. CASE k = Len(chunked)
    BY <1>1, <2>1
  <2>2. CASE k # Len(chunked)
    <3>1. k \in 1..Len(chunked) - 1 /\ k \in 1..Len(chunked) /\ k + 1 \in 1..Len(chunked)
      BY <1>1, <2>2
    <3>2. Follows(chunked[k], chunked[k + 1]) /\ Full(chunked[k], chunked[k + 1])
      BY <3>1 DEF Chunker!InReadingOrder, Chunker!PackedGreedily, Follows, Full
    <3> QED  BY <1>1, <3>1, <3>2
  <2> QED  BY <2>1, <2>2
<1>3. Chunker!InReadingOrder'
  BY <1>2 DEF Chunker!InReadingOrder, Follows
<1>4. Chunker!PackedGreedily'
  BY <1>2 DEF Chunker!PackedGreedily, Full
<1> QED  BY <1>1, <1>3, <1>4

\* At the start there are no chunks.
LEMMA InitIsInOrder == Chunker!Init => InOrder
BY DEF Chunker!Init, InOrder, Chunker!InReadingOrder, Chunker!PackedGreedily, LastIsFollowed,
   SlicesStart

\* What each turn of the loops stores follows what was stored last.
LEMMA StepKeepsOrder == LoopInv /\ InOrder /\ (Chunker!Next \/ UNCHANGED Chunker!vars) => InOrder'
<1> SUFFICES ASSUME LoopInv, InOrder, (Chunker!Next \/ UNCHANGED Chunker!vars) PROVE InOrder'
  OBVIOUS
<1> USE DEF InOrder
<1>0. /\ Chunker!TypeOK /\ text \in Seq(Nat \ {0}) /\ chunked \in Seq(Chunker!Chunk)
      /\ Len(chunked) \in Nat
      /\ current \in Chunker!Chunk /\ i \in Nat /\ start \in Nat /\ current.chars \in Nat
      /\ MAX_CHUNK_CHARS \in Nat /\ CHUNK_OVERLAP_CHARS \in Nat
      /\ CHUNK_OVERLAP_CHARS < MAX_CHUNK_CHARS
  BY TextType, SizesAssumption DEF LoopInv, Chunker!TypeOK, Chunker!Chunk
<1>1. CASE UNCHANGED Chunker!vars
  BY <1>1 DEF Chunker!vars, Chunker!InReadingOrder, Chunker!PackedGreedily, LastIsFollowed,
     SlicesStart, Full
<1>2. CASE Chunker!BeginSplit
  <2>1. /\ text' = text /\ i' = i /\ start' = 0 /\ chunkPc' = "splitting"
        /\ chunkPc = "paragraphs"
        /\ current' = Chunker!Empty /\ chunked' = Chunker!Stored /\ i \in 1..Len(text)
    BY <1>2 DEF Chunker!BeginSplit, Chunker!AtParagraph
  <2>2. CASE current.chars > 0
    <3>1. chunked' = Append(chunked, current)
      BY <2>1, <2>2 DEF Chunker!Stored
    <3>2. Len(chunked) > 0 => Follows(chunked[Len(chunked)], current)
                             /\ Full(chunked[Len(chunked)], current)
      BY <1>0, <2>1, <2>2 DEF LastIsFollowed, LoopInv, CurrentIsRun, Follows
    <3>3. /\ Chunker!InReadingOrder' /\ Chunker!PackedGreedily'
          /\ Len(chunked') = Len(chunked) + 1 /\ chunked'[Len(chunked')] = current
      BY <1>0, <2>1, <3>1, <3>2, AppendInOrder
    <3>4. current.last = i - 1
      BY <2>2 DEF LoopInv, CurrentIsRun
    <3> QED  BY <1>0, <2>1, <3>3, <3>4 DEF LastIsFollowed, SlicesStart, Full
  <2>3. CASE current.chars = 0
    <3>1. chunked' = chunked
      BY <2>1, <2>3 DEF Chunker!Stored
    <3> QED  BY <2>1, <2>3, <3>1 DEF Chunker!InReadingOrder, Chunker!PackedGreedily,
        LastIsFollowed,
                SlicesStart
  <2> QED  BY <1>0, <2>2, <2>3
<1>3. ASSUME chunkPc = "splitting", NEW n \in 1..MAX_CHUNK_CHARS,
  n > CHUNK_OVERLAP_CHARS \/ start = 0,
             chunked' = Append(chunked, Chunker!SliceAt(n)), text' = text
      PROVE  /\ Chunker!InReadingOrder' /\ Chunker!PackedGreedily'
             /\ Len(chunked') = Len(chunked) + 1 /\ chunked'[Len(chunked')] = Chunker!SliceAt(n)
  <2>1. /\ Chunker!SliceAt(n) \in Chunker!Chunk /\ Chunker!SliceAt(n).first = i
        /\ Chunker!SliceAt(n).from = start
        /\ Chunker!SliceAt(n).chars = n /\ text[i] > MAX_CHUNK_CHARS /\ i \in 1..Len(text)
        /\ text[i] \in Nat
    BY <1>0, <1>3 DEF Chunker!SliceAt, Chunker!Chunk, LoopInv, StartIsInside, Chunker!TypeOK
  <2>2. Len(chunked) > 0 => chunked[Len(chunked)] \in Chunker!Chunk
    BY <1>0
  <2>3. ASSUME Len(chunked) > 0
        PROVE  /\ Follows(chunked[Len(chunked)], Chunker!SliceAt(n))
               /\ Full(chunked[Len(chunked)], Chunker!SliceAt(n))
    <3> DEFINE c == chunked[Len(chunked)]
    <3>0. c.last \in Nat /\ c.chars \in Nat /\ c.from \in Nat
      BY <2>2, <2>3 DEF Chunker!Chunk
    <3>1. CASE start = 0
      <4>1. c.last = i - 1
        BY <1>3, <2>3, <3>1 DEF LastIsFollowed
      <4>2. Chunker!SliceAt(n).first = c.last + 1 /\ Chunker!SliceAt(n).from = 0
        BY <1>0, <2>1, <3>0, <3>1, <4>1
      <4>3. c.chars + Chunker!Separator + text[Chunker!SliceAt(n).first] > MAX_CHUNK_CHARS
        <5>1. text[Chunker!SliceAt(n).first] = text[i]
          BY <2>1
        <5>2. \A u, v, m \in Nat : v > m => u + 2 + v > m
          OBVIOUS
        <5> QED  BY <1>0, <2>1, <3>0, <5>1, <5>2 DEF Chunker!Separator
      <4> QED  BY <4>2, <4>3 DEF Follows, Full
    <3>2. CASE start > 0
      <4>1. c.last = i /\ c.from + c.chars - CHUNK_OVERLAP_CHARS = start
        BY <1>3, <2>3, <3>2 DEF LastIsFollowed
      <4>2. Chunker!SliceAt(n).chars > CHUNK_OVERLAP_CHARS /\ ~(Chunker!SliceAt(n).first > c.last)
        BY <1>0, <1>3, <2>1, <3>2, <4>1
      <4> QED  BY <2>1, <4>1, <4>2 DEF Follows, Full
    <3> QED  BY <1>0, <3>1, <3>2
  <2> QED  BY <1>0, <1>3, <2>1, <2>3, AppendInOrder
<1>4. CASE Chunker!Slice
  <2>1. /\ text' = text /\ i' = i /\ chunkPc' = "splitting" /\ chunkPc = "splitting"
        /\ chunked' = Append(chunked, Chunker!SliceAt(MAX_CHUNK_CHARS))
        /\ start' = start + (MAX_CHUNK_CHARS - CHUNK_OVERLAP_CHARS)
        /\ ~(start + MAX_CHUNK_CHARS >= text[i]) /\ current' = current
    BY <1>4 DEF Chunker!Slice, Chunker!ReachesEnd
  <2>2. /\ Chunker!InReadingOrder' /\ Chunker!PackedGreedily' /\ Len(chunked') = Len(chunked) + 1
        /\ chunked'[Len(chunked')] = Chunker!SliceAt(MAX_CHUNK_CHARS)
    BY <1>0, <1>3, <2>1
  <2>3. /\ Chunker!SliceAt(MAX_CHUNK_CHARS).last = i
        /\ Chunker!SliceAt(MAX_CHUNK_CHARS).from = start
        /\ Chunker!SliceAt(MAX_CHUNK_CHARS).chars = MAX_CHUNK_CHARS
    BY DEF Chunker!SliceAt
  <2>4. start' > 0 /\ text[i] \in Nat /\ text[i] - start' > CHUNK_OVERLAP_CHARS
    BY <1>0, <2>1 DEF Chunker!TypeOK
  <2> QED  BY <1>0, <2>1, <2>2, <2>3, <2>4 DEF LastIsFollowed, SlicesStart
<1>5. CASE Chunker!LastSlice
  <2>1. /\ text' = text /\ i' = i + 1 /\ chunkPc = "splitting" /\ chunkPc' = "paragraphs"
        /\ chunked' = Append(chunked, Chunker!SliceAt(text[i] - start)) /\ current' = current
        /\ start + MAX_CHUNK_CHARS >= text[i]
    BY <1>5 DEF Chunker!LastSlice, Chunker!ReachesEnd
  <2>2. /\ start < text[i] /\ text[i] > MAX_CHUNK_CHARS /\ current.chars = 0
        /\ text[i] \in Nat
    BY <1>0, <2>1 DEF LoopInv, StartIsInside, CurrentIsRun, Chunker!TypeOK
  <2>3. text[i] - start \in 1..MAX_CHUNK_CHARS
    BY <1>0, <2>1, <2>2
  <2>4. text[i] - start > CHUNK_OVERLAP_CHARS \/ start = 0
    BY <1>0, <2>1 DEF LastIsFollowed, SlicesStart
  <2>5. /\ Chunker!InReadingOrder' /\ Chunker!PackedGreedily' /\ Len(chunked') = Len(chunked) + 1
        /\ chunked'[Len(chunked')] = Chunker!SliceAt(text[i] - start)
    BY <1>3, <2>1, <2>3, <2>4
  <2>6. Chunker!SliceAt(text[i] - start).last = i
    BY DEF Chunker!SliceAt
  <2> QED  BY <1>0, <2>1, <2>2, <2>5, <2>6 DEF LastIsFollowed, SlicesStart
<1>6. CASE Chunker!Pack
  <2>1. /\ text' = text /\ chunked' = chunked /\ chunkPc = "paragraphs" /\ chunkPc' = chunkPc
        /\ current' = Chunker!Candidate /\ Chunker!AtParagraph /\ i \in 1..Len(text)
        /\ text[i] \in Nat \ {0}
    BY <1>0, <1>6 DEF Chunker!Pack, Chunker!AtParagraph
  <2>2. Chunker!Candidate.chars > 0
    BY <2>1, CandidateType
  <2>3. ASSUME Len(chunked) > 0
        PROVE  /\ chunked[Len(chunked)].last + 1 = Chunker!Candidate.first
               /\ Full(chunked[Len(chunked)], Chunker!Candidate)
    <3>1. CASE current.chars = 0
      <4>1. Chunker!Candidate.first = i
        BY <3>1 DEF Chunker!Candidate, Chunker!Alone
      <4> QED  BY <1>0, <2>1, <2>3, <3>1, <4>1 DEF LastIsFollowed, Full
    <3>2. CASE current.chars > 0
      <4>1. Chunker!Candidate.first = current.first
        BY <1>0, <3>2 DEF Chunker!Candidate, Chunker!Chunk
      <4> QED  BY <2>1, <2>3, <3>2, <4>1 DEF LastIsFollowed, Full
    <3> QED  BY <1>0, <3>1, <3>2
  <2> QED  BY <1>0, <2>1, <2>2, <2>3 DEF LastIsFollowed, SlicesStart, Chunker!InReadingOrder,
              Chunker!PackedGreedily, Full
<1>7. CASE Chunker!StartNext
  <2>1. /\ text' = text /\ chunked' = Append(chunked,
           current) /\ chunkPc = "paragraphs" /\ chunkPc' = chunkPc
        /\ current' = Chunker!Alone(i) /\ Chunker!AtParagraph /\ i \in 1..Len(text)
        /\ text[i] \in Nat \ {0}
        /\ Chunker!Candidate.chars > MAX_CHUNK_CHARS /\ ~Chunker!TooLong
    BY <1>0, <1>7 DEF Chunker!StartNext, Chunker!AtParagraph
  <2>2. current.chars > 0
    BY <1>0, <2>1 DEF Chunker!Candidate, Chunker!Alone, Chunker!TooLong
  <2>3. Len(chunked) > 0 => /\ Follows(chunked[Len(chunked)], current)
                            /\ Full(chunked[Len(chunked)], current)
    BY <1>0, <2>1, <2>2 DEF LastIsFollowed, LoopInv, CurrentIsRun, Follows
  <2>4. /\ Chunker!InReadingOrder' /\ Chunker!PackedGreedily' /\ Len(chunked') = Len(chunked) + 1
        /\ chunked'[Len(chunked')] = current
    BY <1>0, <2>1, <2>3, AppendInOrder
  <2>5. /\ current.last = i - 1 /\ Chunker!Alone(i).first = i
        /\ current.chars + Chunker!Separator + text[i] > MAX_CHUNK_CHARS
        /\ Chunker!Alone(i).chars > 0
    <3>1. Chunker!Candidate.chars = current.chars + Chunker!Separator + text[i]
      BY <1>0, <2>2 DEF Chunker!Candidate, Chunker!Chunk
    <3>2. current.last = i - 1
      BY <2>2 DEF LoopInv, CurrentIsRun
    <3>3. Chunker!Alone(i).first = i /\ Chunker!Alone(i).chars = text[i]
      BY DEF Chunker!Alone
    <3> QED  BY <2>1, <3>1, <3>2, <3>3
  <2> QED  BY <1>0, <2>1, <2>4, <2>5 DEF LastIsFollowed, SlicesStart, Full
<1>8. CASE Chunker!Finish
  <2>1. text' = text /\ chunked' = Chunker!Stored /\ chunkPc' = "done" /\ chunkPc = "paragraphs"
    BY <1>8 DEF Chunker!Finish
  <2>2. CASE current.chars > 0
    <3>1. chunked' = Append(chunked, current)
      BY <2>1, <2>2 DEF Chunker!Stored
    <3>2. Len(chunked) > 0 => Follows(chunked[Len(chunked)], current)
                             /\ Full(chunked[Len(chunked)], current)
      BY <1>0, <2>1, <2>2 DEF LastIsFollowed, LoopInv, CurrentIsRun, Follows
    <3>3. Chunker!InReadingOrder' /\ Chunker!PackedGreedily'
      BY <1>0, <2>1, <3>1, <3>2, AppendInOrder
    <3> QED  BY <2>1, <3>3 DEF LastIsFollowed, SlicesStart
  <2>3. CASE current.chars = 0
    <3>1. chunked' = chunked
      BY <2>1, <2>3 DEF Chunker!Stored
    <3> QED  BY <2>1, <3>1 DEF Chunker!InReadingOrder, Chunker!PackedGreedily, LastIsFollowed,
        SlicesStart
  <2> QED  BY <1>0, <2>2, <2>3
<1> QED  BY <1>1, <1>2, <1>4, <1>5, <1>6, <1>7, <1>8 DEF Chunker!Next

-----------------------------------------------------------------------------
(* retrieve_chunks: only what the asker may search, and of that the best *)

\* The rows still to be filtered are the asker's, the nearest first, and none is
\* nearer than what has been kept.
RowsAreMine ==
  /\ tablePc = "query" => rows = <<>> /\ retrieved = <<>> /\ plan = "none"
  /\ tablePc = "done" => rows = <<>>
  /\ \A k \in 1..Len(rows) : rows[k] \in Retriever!Mine
  /\ \A k, l \in 1..Len(rows) : k < l => similarity[rows[k]] >= similarity[rows[l]]
  /\ \A k \in 1..Len(retrieved), l \in 1..Len(rows) :
       similarity[retrieved[k]] >= similarity[rows[l]]
  /\ Len(retrieved) + Len(rows) <= TOP_K

Held == Retriever!RangeOf(retrieved) \cup Retriever!RangeOf(rows)

\* Of the table nothing strong is missing that TOP_K others do not excuse.
NothingBetter ==
  plan = "table" => \A c \in Retriever!Mine \ Held : similarity[c] >= SIMILARITY_THRESHOLD =>
    /\ Len(retrieved) + Len(rows) = TOP_K
    /\ \A d \in Held : similarity[d] >= similarity[c]

TableInv == Retriever!TypeOK /\ RowsAreMine /\ Retriever!RetrievedIsGrounded /\ NothingBetter

-----------------------------------------------------------------------------
\* Similarities are compared as numbers.
LEMMA Numbers ==
  ASSUME Retriever!TypeOK
  PROVE  /\ \A c \in Chunks : similarity[c] \in Int
         /\ SIMILARITY_THRESHOLD \in Int
BY TableAssumption, LimitsAssumption DEF Retriever!TypeOK

\* The table counts what the theorems count.
LEMMA TableCounts == \A S : Retriever!Cardinality(S) = Cardinality(S)
BY DEF Retriever!Cardinality, Cardinality

\* The nearest n of a set are some of it, in order, and leave out nothing nearer;
\* if they are fewer than n they leave out nothing.
LEMMA NearestOnes ==
  ASSUME Retriever!TypeOK, NEW C \in SUBSET Chunks, NEW n \in Nat,
         NEW s \in Retriever!Nearest(C, n)
  PROVE  /\ s \in Seq(C) /\ Len(s) <= n
         /\ \A k, l \in 1..Len(s) : k < l => similarity[s[k]] >= similarity[s[l]]
         /\ \A c \in C \ Retriever!RangeOf(s) :
              /\ Len(s) = n
              /\ \A k \in 1..Len(s) : similarity[s[k]] >= similarity[c]
<1> DEFINE size == IF Cardinality(C) < n THEN Cardinality(C) ELSE n
<1>1. IsFiniteSet(C) /\ Cardinality(C) \in Nat
  BY TableAssumption, FS_Subset, FS_CardinalityType
<1>2. size \in Nat /\ size <= n
  BY <1>1
<1>3. /\ s \in [1..size -> C]
      /\ \A k, l \in 1..size : k < l => s[k] # s[l] /\ similarity[s[k]] >= similarity[s[l]]
      /\ \A c \in C : \/ \E k \in 1..size : s[k] = c
                      \/ \A k \in 1..size : similarity[s[k]] >= similarity[c]
  BY TableCounts DEF Retriever!Nearest
<1>4. s \in Seq(C) /\ Len(s) = size
  BY <1>2, <1>3
<1>5. ASSUME NEW c \in C \ Retriever!RangeOf(s), size # n
      PROVE  FALSE
  <2>1. size = Cardinality(C)
    BY <1>5
  <2>2. s \in Injection(1..size, C)
    <3>1. \A k, l \in 1..size : s[k] = s[l] => k = l
      BY <1>2, <1>3
    <3> QED  BY <1>3, <3>1 DEF Injection, IsInjective
  <2>3. Cardinality(1..size) = size
    BY <1>2, FS_Interval
  <2>4. s \in Surjection(1..size, C)
    BY <1>1, <2>1, <2>2, <2>3, FS_Injection
  <2>5. \E k \in 1..size : s[k] = c
    BY <2>4 DEF Surjection
  <2> QED  BY <1>4, <1>5, <2>5 DEF Retriever!RangeOf
<1> QED  BY <1>2, <1>3, <1>4, <1>5 DEF Retriever!RangeOf

\* Before the query nothing has been found.
LEMMA TableInit == Retriever!Init => TableInv
<1> SUFFICES ASSUME Retriever!Init PROVE TableInv
  OBVIOUS
<1>1. Retriever!TypeOK
  BY LimitsAssumption DEF Retriever!Init, Retriever!TypeOK
<1>2. RowsAreMine
  BY LimitsAssumption DEF Retriever!Init, RowsAreMine
<1> QED  BY <1>1, <1>2 DEF Retriever!Init, TableInv, Retriever!RetrievedIsGrounded, NothingBetter

\* The rows of a query are the nearest of some of the asker's chunks.
LEMMA QueryIInv ==
  ASSUME TableInv, tablePc = "query", NEW C \in SUBSET Retriever!Mine,
         rows' \in Retriever!Nearest(C, TOP_K),
         tablePc' = "filter", UNCHANGED <<owner, searchable, similarity, retrieved>>,
         plan' \in {"index", "table"}, plan' = "table" => C = Retriever!Mine
  PROVE  TableInv'
<1>1. Retriever!TypeOK /\ retrieved = <<>> /\ TOP_K \in Nat /\ C \in SUBSET Chunks
  BY LimitsAssumption DEF TableInv, RowsAreMine, Retriever!Mine
<1>2. /\ rows' \in Seq(C) /\ Len(rows') \in Nat /\ Len(rows') <= TOP_K
      /\ \A k, l \in 1..Len(rows') : k < l => similarity[rows'[k]] >= similarity[rows'[l]]
      /\ \A c \in C \ Retriever!RangeOf(rows') :
           /\ Len(rows') = TOP_K
           /\ \A k \in 1..Len(rows') : similarity[rows'[k]] >= similarity[c]
  <2>1. rows' \in Retriever!Nearest(C, TOP_K)
    OBVIOUS
  <2>2. /\ rows' \in Seq(C) /\ Len(rows') <= TOP_K
        /\ \A k, l \in 1..Len(rows') : k < l => similarity[rows'[k]] >= similarity[rows'[l]]
        /\ \A c \in C \ Retriever!RangeOf(rows') :
             /\ Len(rows') = TOP_K
             /\ \A k \in 1..Len(rows') : similarity[rows'[k]] >= similarity[c]
    BY ONLY <1>1, <2>1, NearestOnes, ZenonT(60)
  <2> QED  BY <2>2
<1>3. Retriever!TypeOK'
  BY <1>1, <1>2 DEF Retriever!TypeOK
<1>4. Retriever!Mine' = Retriever!Mine
  BY DEF Retriever!Mine
<1>5. RowsAreMine'
  BY <1>1, <1>2, <1>4 DEF RowsAreMine
<1>6. Retriever!RetrievedIsGrounded'
  BY <1>1 DEF Retriever!RetrievedIsGrounded
<1>7. NothingBetter'
  <2>1. Held' = Retriever!RangeOf(rows')
    BY <1>1 DEF Held, Retriever!RangeOf
  <2>2. SUFFICES ASSUME plan' = "table", NEW c \in Retriever!Mine \ Retriever!RangeOf(rows')
                 PROVE  /\ Len(rows') = TOP_K
                        /\ \A d \in Retriever!RangeOf(rows') : similarity[d] >= similarity[c]
    BY <1>1, <1>4, <2>1 DEF NothingBetter
  <2>3. c \in C \ Retriever!RangeOf(rows')
    BY <2>2
  <2> QED  BY <1>2, <2>3 DEF Retriever!RangeOf
<1> QED  BY <1>3, <1>5, <1>6, <1>7 DEF TableInv

\* A row that is strong enough is kept, and none after one that is not.
LEMMA FilterIInv == TableInv /\ Retriever!Filter => TableInv'
<1> SUFFICES ASSUME TableInv, Retriever!Filter PROVE TableInv'
  OBVIOUS
<1> DEFINE r == Head(rows)
<1>1. /\ rows \in Seq(Chunks) /\ retrieved \in Seq(Chunks) /\ Len(rows) \in Nat \ {0}
      /\ Len(retrieved) \in Nat /\ TOP_K \in Nat /\ Retriever!TypeOK
      /\ UNCHANGED <<owner, searchable, similarity, plan, tablePc>> /\ tablePc = "filter"
  BY LimitsAssumption DEF TableInv, Retriever!TypeOK, Retriever!Filter
<1>2. /\ rows' = Tail(rows) /\ rows' \in Seq(Chunks) /\ Len(rows') = Len(rows) - 1
      /\ \A k \in 1..Len(rows') : rows'[k] = rows[k + 1] /\ k + 1 \in 1..Len(rows)
      /\ r = rows[1] /\ 1 \in 1..Len(rows) /\ r \in Chunks
  BY <1>1 DEF Retriever!Filter
<1>3. /\ Retriever!Mine' = Retriever!Mine /\ r \in Retriever!Mine /\ similarity[r] \in Int
      /\ SIMILARITY_THRESHOLD \in Int
  BY <1>1, <1>2, Numbers DEF Retriever!Mine, TableInv, RowsAreMine
<1>4. Retriever!RangeOf(rows) = {r} \cup Retriever!RangeOf(rows')
  <2>1. \A k \in 1..Len(rows) : k = 1 \/ (k - 1 \in 1..Len(rows') /\ rows'[k - 1] = rows[k])
    BY <1>1, <1>2
  <2>2. \A x : x \in Retriever!RangeOf(rows) => x = r \/ x \in Retriever!RangeOf(rows')
    BY <1>2, <2>1 DEF Retriever!RangeOf
  <2>3. \A x : x \in Retriever!RangeOf(rows') => x \in Retriever!RangeOf(rows)
    BY <1>2 DEF Retriever!RangeOf
  <2>4. r \in Retriever!RangeOf(rows)
    BY <1>2 DEF Retriever!RangeOf
  <2> QED  BY <2>2, <2>3, <2>4
<1>5. \A l \in 1..Len(rows') : similarity[r] >= similarity[rows'[l]]
  BY <1>1, <1>2 DEF TableInv, RowsAreMine
<1>6. \A k, l \in 1..Len(rows') : k < l => similarity[rows'[k]] >= similarity[rows'[l]]
  BY <1>1, <1>2 DEF TableInv, RowsAreMine
<1>7. \A k \in 1..Len(rows') : rows'[k] \in Retriever!Mine
  BY <1>2 DEF TableInv, RowsAreMine
<1> HIDE DEF r
<1>8. CASE similarity[r] >= SIMILARITY_THRESHOLD
  <2>1. /\ retrieved' = Append(retrieved, r) /\ retrieved' \in Seq(Chunks)
        /\ Len(retrieved') = Len(retrieved) + 1 /\ retrieved'[Len(retrieved) + 1] = r
        /\ \A k \in 1..Len(retrieved) : retrieved'[k] = retrieved[k]
    BY <1>1, <1>2, <1>8 DEF Retriever!Filter, r
  <2>2. \A k \in 1..Len(retrieved') : k \in 1..Len(retrieved) \/ k = Len(retrieved) + 1
    BY <1>1, <2>1
  <2>3. Len(retrieved') + Len(rows') = Len(retrieved) + Len(rows)
    BY <1>1, <1>2, <2>1
  <2>4. Retriever!TypeOK'
    <3>1. Len(retrieved) + Len(rows) <= TOP_K
      BY DEF TableInv, RowsAreMine
    <3>2. Len(rows') <= TOP_K /\ Len(retrieved') <= TOP_K
      BY <1>1, <1>2, <2>1, <3>1
    <3> QED  BY <1>1, <1>2, <2>1, <3>2 DEF Retriever!TypeOK
  <2>5. RowsAreMine'
    <3>1. \A k \in 1..Len(retrieved'), l \in 1..Len(rows') :
            similarity[retrieved'[k]] >= similarity[rows'[l]]
      BY <1>2, <1>5, <2>1, <2>2 DEF TableInv, RowsAreMine
    <3> QED  BY <1>1, <1>3, <1>6, <1>7, <2>3, <3>1 DEF TableInv, RowsAreMine
  <2>6. Retriever!RetrievedIsGrounded'
    <3>1. \A k \in 1..Len(retrieved) : similarity[retrieved[k]] >= similarity[r]
      BY <1>2 DEF TableInv, RowsAreMine
    <3>2. ASSUME NEW k \in 1..Len(retrieved')
          PROVE  /\ owner[retrieved'[k]] = Asker /\ searchable[retrieved'[k]]
                 /\ similarity[retrieved'[k]] >= SIMILARITY_THRESHOLD
                 /\ \A l \in 1..k : similarity[retrieved'[l]] >= similarity[retrieved'[k]]
      <4>1. CASE k = Len(retrieved) + 1
        <5>1. \A l \in 1..k : l \in 1..Len(retrieved) \/ l = k
          BY <1>1, <4>1
        <5> QED  BY <1>3, <1>8, <2>1, <3>1, <4>1, <5>1 DEF Retriever!Mine
      <4>2. CASE k \in 1..Len(retrieved)
        <5>1. \A l \in 1..k : l \in 1..Len(retrieved)
          BY <1>1, <4>2
        <5> QED  BY <2>1, <4>2, <5>1 DEF TableInv, Retriever!RetrievedIsGrounded
      <4> QED  BY <2>2, <4>1, <4>2
    <3> QED  BY <1>1, <3>2 DEF Retriever!RetrievedIsGrounded
  <2>7. NothingBetter'
    <3>1. Retriever!RangeOf(retrieved') = Retriever!RangeOf(retrieved) \cup {r}
      <4>1. \A k \in 1..Len(retrieved) : k \in 1..Len(retrieved')
        BY <1>1, <2>1
      <4>2. Len(retrieved) + 1 \in 1..Len(retrieved')
        BY <1>1, <2>1
      <4> QED  BY <2>1, <2>2, <4>1, <4>2 DEF Retriever!RangeOf
    <3>2. Held' = Held
      BY <1>4, <3>1 DEF Held, Retriever!RangeOf
    <3> QED  BY <1>1, <1>3, <2>3, <3>2 DEF TableInv, NothingBetter
  <2> QED  BY <2>4, <2>5, <2>6, <2>7 DEF TableInv
<1>9. CASE ~(similarity[r] >= SIMILARITY_THRESHOLD)
  <2>1. retrieved' = retrieved
    BY <1>9 DEF Retriever!Filter, r
  <2>2. Retriever!TypeOK'
    BY <1>1, <1>2, <2>1 DEF Retriever!TypeOK
  <2>3. RowsAreMine'
    <3>1. Len(retrieved') + Len(rows') <= TOP_K
      BY <1>1, <1>2, <2>1 DEF TableInv, RowsAreMine
    <3> QED  BY <1>1, <1>2, <1>3, <1>6, <1>7, <2>1, <3>1 DEF TableInv, RowsAreMine
  <2>4. Retriever!RetrievedIsGrounded'
    BY <1>1, <2>1 DEF TableInv, Retriever!RetrievedIsGrounded
  <2>5. NothingBetter'
    <3>1. ASSUME plan = "table", NEW c \in Retriever!Mine, c \notin Held',
      similarity[c] >= SIMILARITY_THRESHOLD
          PROVE  FALSE
      <4>1. similarity[c] \in Int /\ c # r
        BY <1>1, <1>9, <3>1, Numbers DEF Retriever!Mine
      <4>2. c \notin Held
        BY <1>4, <2>1, <3>1, <4>1 DEF Held, Retriever!RangeOf
      <4>3. similarity[r] >= similarity[c]
        BY <1>4, <3>1, <4>2 DEF TableInv, NothingBetter, Held
      <4> QED  BY <1>3, <1>9, <3>1, <4>1, <4>3
    <3> QED  BY <1>1, <1>3, <3>1 DEF NothingBetter
  <2> QED  BY <2>2, <2>3, <2>4, <2>5 DEF TableInv
<1> QED  BY <1>8, <1>9

LEMMA TableNext == TableInv /\ (Retriever!Next \/ UNCHANGED Retriever!vars) => TableInv'
<1> SUFFICES ASSUME TableInv, (Retriever!Next \/ UNCHANGED Retriever!vars) PROVE TableInv'
  OBVIOUS
<1>1. CASE UNCHANGED Retriever!vars
  BY <1>1 DEF Retriever!vars, TableInv, Retriever!TypeOK, RowsAreMine,
     Retriever!RetrievedIsGrounded, NothingBetter, Retriever!Mine,
         Held, Retriever!RangeOf
<1>2. CASE Retriever!QueryTable
  BY <1>2, QueryIInv DEF Retriever!QueryTable
<1>3. CASE Retriever!QueryIndex
  <2>1. PICK s \in Retriever!Nearest(Chunks,
    EF_SEARCH) : rows' \in Retriever!Nearest(Retriever!Mine \cap Retriever!RangeOf(s), TOP_K)
    BY <1>3 DEF Retriever!QueryIndex
  <2>2. PICK C \in SUBSET Retriever!Mine : rows' \in Retriever!Nearest(C, TOP_K)
    BY <2>1
  <2>3. /\ tablePc = "query" /\ tablePc' = "filter" /\ plan' = "index"
        /\ UNCHANGED <<owner, searchable, similarity, retrieved>>
    BY <1>3 DEF Retriever!QueryIndex
  <2> QED  BY <2>2, <2>3, QueryIInv
<1>4. CASE Retriever!Return
  <2>1. /\ UNCHANGED <<owner, searchable, similarity, plan, rows, retrieved>> /\ tablePc' = "done"
        /\ rows = <<>>
    BY <1>4 DEF Retriever!Return, TableInv, Retriever!TypeOK
  <2> QED  BY <2>1 DEF TableInv, Retriever!TypeOK, RowsAreMine, Retriever!RetrievedIsGrounded,
      NothingBetter, Retriever!Mine,
              Held, Retriever!RangeOf
<1> QED  BY <1>1, <1>2, <1>3, <1>4, FilterIInv DEF Retriever!Next

\* What a table scan leaves out is excused by TOP_K chunks that are no worse.
LEMMA BestIsRetrieved == TableInv => Retriever!TopOfMine
<1> SUFFICES ASSUME TableInv, tablePc = "done", plan = "table",
  NEW c \in Retriever!Mine \ Retriever!RangeOf(retrieved),
                    similarity[c] >= SIMILARITY_THRESHOLD
             PROVE  /\ Len(retrieved) = TOP_K
                    /\ \A d \in Retriever!RangeOf(retrieved) : similarity[d] >= similarity[c]
  BY DEF Retriever!TopOfMine
<1>1. /\ rows = <<>> /\ Len(rows) = 0 /\ Retriever!RangeOf(rows) = {}
      /\ Held = Retriever!RangeOf(retrieved)
  BY DEF TableInv, RowsAreMine, Held, Retriever!RangeOf
<1>2. Len(retrieved) \in Nat
  BY DEF TableInv, Retriever!TypeOK
<1> QED  BY <1>1, <1>2 DEF TableInv, NothingBetter

-----------------------------------------------------------------------------
(* extract_citations: the excerpts that are mentioned, once each, in order *)

\* seen is what has been cited.
SeenIsCited ==
  \A m : m \in seen <=> \E k \in 1..Len(citations) : citations[k] = m

CiteInv ==
  /\ Markers!TypeOK /\ SeenIsCited /\ Markers!EachMarkerOnce /\ Markers!CitesAllMentions
  /\ Markers!FirstMentionOrder

LEMMA CiteInit == Markers!Init => CiteInv
<1> SUFFICES ASSUME Markers!Init PROVE CiteInv
  OBVIOUS
<1>1. content \in Seq(Nat) /\ excerpts \in Nat /\ Len(content) \in Nat
  BY AnswersAssumption DEF Markers!Init
<1> QED
  BY <1>1 DEF Markers!Init, CiteInv, Markers!TypeOK, SeenIsCited, Markers!EachMarkerOnce,
     Markers!CitesAllMentions,
              Markers!FirstMentionOrder

LEMMA SkipIInv == CiteInv /\ Markers!Skip => CiteInv'
<1> SUFFICES ASSUME CiteInv, Markers!Skip PROVE CiteInv'
  OBVIOUS
<1>1. content \in Seq(Nat) /\ Len(content) \in Nat /\ pos \in 1..Len(content)
  BY AnswersAssumption DEF CiteInv, Markers!TypeOK, Markers!Skip
<1>2. /\ content' = content /\ excerpts' = excerpts /\ pos' = pos + 1 /\ seen' = seen
      /\ citations' = citations
      /\ content[pos] \in seen \/ content[pos] \notin 1..excerpts
  BY DEF Markers!Skip, Markers!Known
<1>3. Markers!TypeOK'
  BY <1>1, <1>2 DEF CiteInv, Markers!TypeOK
<1>4. SeenIsCited' /\ Markers!EachMarkerOnce'
  BY <1>2 DEF CiteInv, SeenIsCited, Markers!EachMarkerOnce
<1>5. Markers!CitesAllMentions'
  <2>1. ASSUME NEW j \in 1..pos' - 1, content[j] \in 1..excerpts
        PROVE  \E k \in 1..Len(citations) : citations[k] = content[j]
    <3>1. CASE j = pos
      BY <1>2, <2>1, <3>1 DEF CiteInv, SeenIsCited
    <3>2. CASE j \in 1..pos - 1
      BY <2>1, <3>2 DEF CiteInv, Markers!CitesAllMentions
    <3> QED BY <1>1, <1>2, <3>1, <3>2
  <2>2. ASSUME NEW k \in 1..Len(citations)
        PROVE  citations[k] \in 1..excerpts /\ \E j \in 1..pos' - 1 : content[j] = citations[k]
    <3>1. citations[k] \in 1..excerpts /\ \E j \in 1..pos - 1 : content[j] = citations[k]
      BY DEF CiteInv, Markers!CitesAllMentions
    <3> QED BY <1>1, <1>2, <3>1
  <2> QED BY <1>2, <2>1, <2>2 DEF Markers!CitesAllMentions
<1>6. Markers!FirstMentionOrder'
  <2>1. \A j \in 1..pos - 1 : j \in 1..pos' - 1
    BY <1>1, <1>2
  <2> QED BY <1>2, <2>1 DEF CiteInv, Markers!FirstMentionOrder
<1> QED BY <1>3, <1>4, <1>5, <1>6 DEF CiteInv

LEMMA CiteIInv == CiteInv /\ Markers!Cite => CiteInv'
<1> SUFFICES ASSUME CiteInv, Markers!Cite PROVE CiteInv'
  OBVIOUS
<1> DEFINE m == content[pos]
           C == Append(citations, m)
<1>1. /\ content \in Seq(Nat) /\ Len(content) \in Nat /\ pos \in 1..Len(content)
      /\ citations \in Seq(1..excerpts)
  BY AnswersAssumption DEF CiteInv, Markers!TypeOK, Markers!Cite
<1>2. /\ content' = content /\ excerpts' = excerpts /\ pos' = pos + 1
      /\ seen' = seen \cup {m} /\ citations' = C
      /\ m \notin seen /\ m \in 1..excerpts
  BY DEF Markers!Cite, Markers!Known
<1>3. /\ C \in Seq(1..excerpts)
      /\ Len(C) = Len(citations) + 1 /\ Len(citations) \in Nat
      /\ C[Len(citations) + 1] = m
      /\ \A k \in 1..Len(citations) : C[k] = citations[k]
  BY <1>1, <1>2
<1> HIDE DEF C
<1>4. \A k \in 1..Len(C) : k \in 1..Len(citations) \/ k = Len(citations) + 1
  BY <1>3
<1>5. \A k \in 1..Len(citations) : citations[k] # m
  BY <1>2 DEF CiteInv, SeenIsCited
<1>6. \A j \in 1..pos - 1 : content[j] # m
  BY <1>2, <1>5 DEF CiteInv, Markers!CitesAllMentions
<1>7. \A j \in 1..pos' - 1 : j \in 1..pos - 1 \/ j = pos
  BY <1>1, <1>2
<1>8. Markers!TypeOK'
  <2>1. pos' \in 1..Len(content) + 1
    BY <1>1, <1>2
  <2> QED BY <1>2, <1>3, <2>1 DEF CiteInv, Markers!TypeOK
<1>9. SeenIsCited'
  <2>1. ASSUME NEW x PROVE x \in seen' <=> \E k \in 1..Len(C) : C[k] = x
    <3>1. CASE x = m
      BY <1>2, <1>3, <3>1
    <3>2. CASE x # m
      <4>1. x \in seen' <=> \E k \in 1..Len(citations) : citations[k] = x
        BY <1>2, <3>2 DEF CiteInv, SeenIsCited
      <4>2. \A k \in 1..Len(citations) : k \in 1..Len(C)
        BY <1>3
      <4> QED BY <1>3, <1>4, <3>2, <4>1, <4>2
    <3> QED BY <3>1, <3>2
  <2> QED BY <1>2, <2>1 DEF SeenIsCited
<1>10. Markers!EachMarkerOnce'
  <2>1. ASSUME NEW k \in 1..Len(C), NEW l \in 1..Len(C), C[k] = C[l] PROVE k = l
    <3>1. CASE k \in 1..Len(citations) /\ l \in 1..Len(citations)
      BY <1>3, <2>1, <3>1 DEF CiteInv, Markers!EachMarkerOnce
    <3> QED BY <1>3, <1>4, <1>5, <2>1, <3>1
  <2> QED BY <1>2, <2>1 DEF Markers!EachMarkerOnce
<1>11. Markers!CitesAllMentions'
  <2>1. ASSUME NEW j \in 1..pos' - 1, content[j] \in 1..excerpts
        PROVE  \E k \in 1..Len(C) : C[k] = content[j]
    <3>1. CASE j = pos
      BY <1>3, <3>1
    <3>2. CASE j \in 1..pos - 1
      <4>1. PICK k \in 1..Len(citations) : citations[k] = content[j]
        BY <2>1, <3>2 DEF CiteInv, Markers!CitesAllMentions
      <4> QED BY <1>3, <4>1
    <3> QED BY <1>7, <3>1, <3>2
  <2>2. ASSUME NEW k \in 1..Len(C)
        PROVE  C[k] \in 1..excerpts /\ \E j \in 1..pos' - 1 : content[j] = C[k]
    <3>1. CASE k \in 1..Len(citations)
      <4>1. citations[k] \in 1..excerpts /\ \E j \in 1..pos - 1 : content[j] = citations[k]
        BY <3>1 DEF CiteInv, Markers!CitesAllMentions
      <4> QED BY <1>1, <1>2, <1>3, <3>1, <4>1
    <3>2. CASE k = Len(citations) + 1
      BY <1>1, <1>2, <1>3, <3>2
    <3> QED BY <1>4, <3>1, <3>2
  <2> QED BY <1>2, <2>1, <2>2 DEF Markers!CitesAllMentions
<1>12. Markers!FirstMentionOrder'
  <2>1. ASSUME NEW k \in 1..Len(C), NEW l \in 1..Len(C), k < l
        PROVE  \E j \in 1..pos' - 1 : C[k] = content[j] /\ \A h \in 1..j : content[h] # C[l]
    <3>1. k \in 1..Len(citations) /\ C[k] = citations[k]
      BY <1>3, <1>4, <2>1
    <3>2. CASE l \in 1..Len(citations)
      <4>1. PICK j \in 1..pos - 1 : /\ content[j] = citations[k]
                                    /\ \A h \in 1..j : content[h] # citations[l]
        BY <2>1, <3>1, <3>2 DEF CiteInv, Markers!FirstMentionOrder
      <4>2. j \in 1..pos' - 1
        BY <1>1, <1>2
      <4> QED BY <1>3, <3>1, <3>2, <4>1, <4>2
    <3>3. CASE l = Len(citations) + 1
      <4>1. PICK j \in 1..pos - 1 : content[j] = citations[k]
        BY <3>1 DEF CiteInv, Markers!CitesAllMentions
      <4>2. \A h \in 1..j : h \in 1..pos - 1
        BY <1>1
      <4> QED BY <1>1, <1>2, <1>3, <1>6, <3>1, <3>3, <4>1, <4>2
    <3> QED BY <1>4, <3>2, <3>3
  <2> QED BY <1>2, <2>1 DEF Markers!FirstMentionOrder
<1> QED BY <1>8, <1>9, <1>10, <1>11, <1>12 DEF CiteInv
-----------------------------------------------------------------------------
(* post_json: what is sent again, and how long that may take *)

\* The waits of one exchange, each as long as it may be.
Longest == Waits * TIMEOUT_SECONDS

\* Exchanges that have taken their time.
Exchanges == IF llmPc \in {"backoff", "done"} THEN attempt + 1 ELSE attempt

\* attempt counts the replies that were worth a retry; the last reply of a call that
\* has ended was not, or was one too many.
AttemptsAreCounted ==
  /\ llmPc = "choose" => attempt = 0 /\ replies = <<>>
  /\ llmPc = "post" => Len(replies) = attempt
  /\ llmPc = "backoff" => Len(replies) = attempt + 1 /\ attempt < MAX_RETRIES
  /\ llmPc = "done" =>
       /\ Len(replies) \in {attempt, attempt + 1}
       /\ Len(replies) = attempt + 1 /\ result = "LLM_UNAVAILABLE" =>
            replies[Len(replies)] \notin Provider!Retryable \/ attempt = MAX_RETRIES
  /\ llmPc # "done" => result = "none"

\* Each exchange has taken the waits it may take at most, each back-off twice the one
\* before.
TimeIsCounted ==
  elapsed <= Exchanges * Longest + BACKOFF_BASE * (2^attempt - 1)

CallInv == Provider!TypeOK /\ Provider!RetriesAreWorthIt /\ AttemptsAreCounted /\ TimeIsCounted

-----------------------------------------------------------------------------
\* The subsets of n + 1 numbers are those of n, without and with the last.
LEMMA NextPower ==
  ASSUME NEW n \in Nat
  PROVE  2^n \in Nat /\ 2^(n + 1) = 2 * 2^n
<1> DEFINE Without == SUBSET (1..n)
           With == {X \cup {n + 1} : X \in Without}
           add == [X \in Without |-> X \cup {n + 1}]
<1>1. /\ IsFiniteSet(1..n) /\ Cardinality(1..n) = n
      /\ IsFiniteSet(1..n + 1) /\ Cardinality(1..n + 1) = n + 1
  BY FS_Interval
<1>2. /\ IsFiniteSet(Without) /\ Cardinality(Without) = 2^n
      /\ Cardinality(SUBSET (1..n + 1)) = 2^(n + 1)
  BY <1>1, FS_SUBSET
<1>3. \A X \in Without : n + 1 \notin X
  OBVIOUS
<1>4. add \in Bijection(Without, With)
  <2>1. \A X, Y \in Without : X \cup {n + 1} = Y \cup {n + 1} => X = Y
    BY <1>3
  <2>2. add \in [Without -> With]
    OBVIOUS
  <2>3. \A Y \in With : \E X \in Without : add[X] = Y
    OBVIOUS
  <2>4. \A X, Y \in Without : add[X] = add[Y] => X = Y
    BY <2>1
  <2> HIDE DEF add, With, Without
  <2>5. add \in Injection(Without, With)
    BY <2>2, <2>4 DEF Injection, IsInjective
  <2>6. add \in Surjection(Without, With)
    BY <2>2, <2>3 DEF Surjection
  <2> QED  BY <2>5, <2>6 DEF Bijection
<1>5. IsFiniteSet(With) /\ Cardinality(With) = Cardinality(Without)
  BY <1>2, <1>4, FS_Bijection DEF ExistsBijection
<1>6. SUBSET (1..n + 1) = Without \cup With
  <2>1. 1..n + 1 = 1..n \cup {n + 1}
    OBVIOUS
  <2>2. ASSUME NEW X \in SUBSET (1..n \cup {n + 1}), n + 1 \in X PROVE X \in With
    <3>1. X \ {n + 1} \in Without /\ X = (X \ {n + 1}) \cup {n + 1}
      <4>1. X \ {n + 1} \subseteq 1..n
        OBVIOUS
      <4>2. X = (X \ {n + 1}) \cup {n + 1}
        BY <2>2
      <4> QED  BY <4>1, <4>2
    <3> QED  BY <3>1
  <2>3. \A X \in SUBSET (1..n \cup {n + 1}) : n + 1 \notin X => X \in Without
    OBVIOUS
  <2>4. \A X \in With : X \in SUBSET (1..n \cup {n + 1})
    OBVIOUS
  <2> HIDE DEF With
  <2> QED  BY <2>1, <2>2, <2>3, <2>4
<1>7. Without \cap With = {} /\ Cardinality(Without \cap With) = 0
  <2>1. \A Y \in With : n + 1 \in Y
    OBVIOUS
  <2> HIDE DEF With
  <2>2. Without \cap With = {}
    BY <1>3, <2>1
  <2> QED  BY <2>2, FS_EmptySet
<1>8. Cardinality(Without) \in Nat
  BY <1>2, FS_CardinalityType
<1>9. Cardinality(Without \cup With) = Cardinality(Without) + Cardinality(With)
  <2> HIDE DEF Without, With
  <2>1. Cardinality(Without \cup With)
          = Cardinality(Without) + Cardinality(With) - Cardinality(Without \cap With)
    BY <1>2, <1>5, FS_Union
  <2> QED  BY <1>5, <1>7, <1>8, <2>1
<1> HIDE DEF Without, With
<1>10. 2^(n + 1) = Cardinality(Without) + Cardinality(Without)
  BY <1>2, <1>5, <1>6, <1>9
<1> QED  BY <1>2, <1>8, <1>10

LEMMA PowersGrow ==
  ASSUME NEW n \in Nat, NEW m \in 0..n
  PROVE  2^m \in Nat /\ 2^n \in Nat /\ 1 <= 2^m /\ 2^m <= 2^n
<1>1. ASSUME NEW l \in Nat, NEW k \in 0..l PROVE 2^k \in Nat /\ 2^l \in Nat /\ 2^k <= 2^l
  <2>1. /\ IsFiniteSet(1..k) /\ Cardinality(1..k) = k
        /\ IsFiniteSet(1..l) /\ Cardinality(1..l) = l
    BY FS_Interval
  <2>2. /\ IsFiniteSet(SUBSET (1..l)) /\ Cardinality(SUBSET (1..l)) = 2^l
        /\ Cardinality(SUBSET (1..k)) = 2^k
    BY <2>1, FS_SUBSET
  <2>3. SUBSET (1..k) \subseteq SUBSET (1..l)
    OBVIOUS
  <2>4. Cardinality(SUBSET (1..k)) <= Cardinality(SUBSET (1..l))
    BY <2>2, <2>3, FS_Subset
  <2> QED  BY <2>2, <2>4, NextPower
<1>2. 2^0 = 1
  OBVIOUS
<1>3. 2^0 <= 2^m
  <2>1. m \in Nat /\ 0 \in 0..m
    OBVIOUS
  <2> QED  BY <1>1, <2>1
<1> QED  BY <1>1, <1>2, <1>3

-----------------------------------------------------------------------------
LEMMA LongestIsNat == Longest \in Nat /\ \A d \in Latencies : d \in Nat /\ d <= Longest
<1>1. Waits * TIMEOUT_SECONDS \in Nat
  BY PolicyAssumption
<1>2. ASSUME NEW l \in Nat, NEW d \in 1..l PROVE d \in Nat /\ d <= l
  OBVIOUS
<1> QED  BY <1>1, <1>2, PolicyAssumption DEF Longest

\* The time of one more exchange.
LEMMA OneMore ==
  ASSUME NEW e \in Nat, NEW x \in Nat, NEW b \in Int, NEW d \in Latencies,
         e <= x * Longest + b
  PROVE  e + d \in Nat /\ e + d <= (x + 1) * Longest + b
<1>1. d \in Nat /\ d <= Longest /\ Longest \in Nat
  BY LongestIsNat
<1>2. (x + 1) * Longest = x * Longest + Longest
  BY <1>1
<1>3. x * Longest \in Nat
  BY <1>1
<1> QED  BY <1>1, <1>2, <1>3

LEMMA CallInit == Provider!Init => CallInv
<1> SUFFICES ASSUME Provider!Init PROVE CallInv
  OBVIOUS
<1>1. Provider!TypeOK /\ AttemptsAreCounted
  BY PolicyAssumption DEF Provider!Init, Provider!TypeOK, AttemptsAreCounted
<1>2. Provider!RetriesAreWorthIt
  BY PolicyAssumption DEF Provider!Init, Provider!RetriesAreWorthIt
<1>3. TimeIsCounted
  <2>1. Exchanges * Longest = 0
    BY LongestIsNat DEF Provider!Init, Exchanges
  <2>2. BACKOFF_BASE * (2^attempt - 1) = 0
    <3>1. 2^0 - 1 = 0
      OBVIOUS
    <3>2. BACKOFF_BASE * 0 = 0
      BY PolicyAssumption
    <3> QED  BY <3>1, <3>2 DEF Provider!Init
  <2> QED  BY <2>1, <2>2 DEF Provider!Init, TimeIsCounted
<1> QED  BY <1>1, <1>2, <1>3 DEF CallInv

LEMMA CallNext ==
  ASSUME CallInv, Provider!Next \/ UNCHANGED Provider!vars
  PROVE  CallInv'
<1> DEFINE Spent == BACKOFF_BASE * (2^attempt - 1)
<1>1. Provider!TypeOK /\ Provider!RetriesAreWorthIt /\ AttemptsAreCounted /\ TimeIsCounted
  BY DEF CallInv
<1>2. attempt \in Nat /\ elapsed \in Nat /\ MAX_RETRIES \in Nat /\ BACKOFF_BASE \in Nat
  BY <1>1, PolicyAssumption DEF Provider!TypeOK
<1>3. /\ 2^attempt \in Nat /\ 2^(attempt + 1) = 2 * 2^attempt
      /\ Spent \in Int
  BY <1>2, NextPower
<1>4. CASE Provider!Choose
  <2>1. Provider!TypeOK'
    BY <1>1, <1>4 DEF Provider!TypeOK, Provider!Choose, Provider!Finish
  <2>2. AttemptsAreCounted'
    BY <1>1, <1>4 DEF Provider!TypeOK, AttemptsAreCounted, Provider!Choose, Provider!Finish
  <2>3. Provider!RetriesAreWorthIt'
    BY <1>1, <1>4, PolicyAssumption DEF Provider!RetriesAreWorthIt, AttemptsAreCounted,
       Provider!Choose
  <2>4. TimeIsCounted'
    <3>1. Exchanges = 0 /\ Exchanges' \in {0, 1}
      BY <1>1, <1>4 DEF Exchanges, AttemptsAreCounted, Provider!Choose, Provider!Finish
    <3>2. Exchanges * Longest = 0 /\ Exchanges' * Longest >= 0 /\ Exchanges' * Longest \in Nat
      <4>1. 0 * Longest = 0 /\ 1 * Longest = Longest /\ Longest \in Nat
        BY LongestIsNat
      <4>2. Exchanges * Longest = 0
        BY <3>1, <4>1
      <4>3. CASE Exchanges' = 0
        <5>1. Exchanges' * Longest = 0
          BY <4>1, <4>3
        <5> QED  BY <4>2, <5>1
      <4>4. CASE Exchanges' = 1
        <5>1. Exchanges' * Longest = Longest
          BY <4>1, <4>4
        <5> QED  BY <4>1, <4>2, <5>1
      <4> QED  BY <3>1, <4>3, <4>4
    <3>3. elapsed' = elapsed /\ attempt' = attempt /\ elapsed <= Exchanges * Longest + Spent
      BY <1>1, <1>4 DEF Provider!Choose, TimeIsCounted
    <3>4. elapsed <= Exchanges' * Longest + Spent
      BY <1>2, <1>3, <3>2, <3>3
    <3> QED  BY <3>3, <3>4 DEF TimeIsCounted, Longest
  <2> QED  BY <2>1, <2>2, <2>3, <2>4 DEF CallInv
<1>5. ASSUME llmPc = "post", attempt' = attempt, llmPc' \in {"backoff", "done"},
             NEW d \in Latencies, elapsed' = elapsed + d
      PROVE  TimeIsCounted' /\ elapsed' \in Nat
  <2>1. Exchanges = attempt /\ Exchanges' = attempt + 1
    BY <1>5 DEF Exchanges
  <2>2. elapsed <= attempt * Longest + Spent
    BY <1>1, <2>1 DEF TimeIsCounted
  <2> HIDE DEF Spent
  <2>3. elapsed' \in Nat /\ elapsed' <= (attempt + 1) * Longest + Spent
    BY <1>2, <1>3, <1>5, <2>2, OneMore
  <2> QED  BY <1>5, <2>1, <2>3 DEF TimeIsCounted, Longest, Spent
<1>6. CASE Provider!RequestFails
  <2>0. /\ llmPc = "post" /\ llmPc' = "done" /\ result' = "LLM_UNAVAILABLE"
        /\ attempt' = attempt /\ replies' = replies
        /\ UNCHANGED <<kind, provider, keys>>
    BY <1>6 DEF Provider!RequestFails, Provider!Finish
  <2>1. TimeIsCounted' /\ elapsed' \in Nat
    <3>1. PICK d \in Latencies : elapsed' = elapsed + d
      BY <1>6 DEF Provider!RequestFails
    <3> QED  BY <1>5, <2>0, <3>1
  <2>2. Provider!TypeOK'
    BY <1>1, <2>0, <2>1 DEF Provider!TypeOK
  <2>3. AttemptsAreCounted'
    BY <1>1, <1>2, <2>0 DEF AttemptsAreCounted
  <2>4. Provider!RetriesAreWorthIt'
    BY <1>1, <2>0 DEF Provider!RetriesAreWorthIt
  <2> QED  BY <2>1, <2>2, <2>3, <2>4 DEF CallInv
<1>7. CASE Provider!Answered
  <2>1. PICK r \in Provider!Replies :
          IF r \in {"good", "odd"} THEN Provider!Read(r) ELSE Provider!Refused(r)
    BY <1>7 DEF Provider!Answered
  <2>2. /\ llmPc = "post" /\ attempt' = attempt /\ UNCHANGED <<kind, provider, keys>>
        /\ replies' = Append(replies, r)
        /\ \/ /\ llmPc' = "backoff" /\ result' = result
              /\ r \in Provider!Retryable /\ attempt < MAX_RETRIES
           \/ llmPc' = "done" /\ result' \in {"value", "INTERNAL_ERROR"}
           \/ /\ llmPc' = "done" /\ result' = "LLM_UNAVAILABLE"
              /\ ~(r \in Provider!Retryable /\ attempt < MAX_RETRIES)
    BY <1>7, <2>1 DEF Provider!Answered, Provider!Read, Provider!Refused, Provider!Finish
  <2>3. /\ replies \in Seq(Provider!Replies) /\ replies' \in Seq(Provider!Replies)
        /\ Len(replies) = attempt /\ Len(replies') = attempt + 1
        /\ replies'[attempt + 1] = r /\ \A k \in 1..attempt : replies'[k] = replies[k]
    BY <1>1, <1>2, <2>2 DEF Provider!TypeOK, AttemptsAreCounted
  <2>4. TimeIsCounted' /\ elapsed' \in Nat
    <3>1. PICK d \in Latencies : elapsed' = elapsed + d
      BY <1>7 DEF Provider!Answered
    <3>2. llmPc' \in {"backoff", "done"}
      BY <2>2
    <3> QED  BY <1>5, <2>2, <3>1, <3>2
  <2>5. Provider!TypeOK'
    BY <1>1, <2>2, <2>3, <2>4 DEF Provider!TypeOK
  <2>6. attempt <= MAX_RETRIES
    BY <1>1, <1>2 DEF Provider!TypeOK
  <2>7. AttemptsAreCounted'
    BY <1>1, <1>2, <2>2, <2>3, <2>6 DEF AttemptsAreCounted
  <2>8. Provider!RetriesAreWorthIt'
    <3>1. \A k \in 1..attempt : replies[k] \in Provider!Retryable
      BY <1>1, <2>2, <2>3 DEF Provider!RetriesAreWorthIt
    <3>2. llmPc' \in {"backoff", "post"} => r \in Provider!Retryable
      BY <2>2
    <3>3. ASSUME NEW k \in 1..Len(replies'), k < Len(replies') \/ llmPc' \in {"backoff", "post"}
          PROVE  replies'[k] \in Provider!Retryable
      <4>1. k \in 1..attempt \/ (k = attempt + 1 /\ llmPc' \in {"backoff", "post"})
        BY <1>2, <2>3, <3>3
      <4> QED  BY <2>3, <3>1, <3>2, <4>1
    <3>4. Len(replies') <= MAX_RETRIES + 1
      BY <1>2, <2>3, <2>6
    <3> QED  BY <3>3, <3>4 DEF Provider!RetriesAreWorthIt
  <2> QED  BY <2>4, <2>5, <2>7, <2>8 DEF CallInv
<1>8. CASE Provider!Backoff
  <2>0. /\ llmPc = "backoff" /\ llmPc' = "post" /\ attempt' = attempt + 1 /\ replies' = replies
        /\ result' = result /\ UNCHANGED <<kind, provider, keys>>
        /\ elapsed' = elapsed + BACKOFF_BASE * 2^attempt
    BY <1>8 DEF Provider!Backoff
  <2>1. attempt < MAX_RETRIES /\ Len(replies) = attempt + 1
    BY <1>1, <2>0 DEF AttemptsAreCounted
  <2>2. Provider!TypeOK'
    <3>1. attempt + 1 \in 0..MAX_RETRIES
      BY <1>2, <2>1
    <3>2. elapsed' \in Nat
      BY <1>2, <1>3, <2>0
    <3> QED  BY <1>1, <2>0, <3>1, <3>2 DEF Provider!TypeOK
  <2>3. AttemptsAreCounted'
    BY <1>1, <2>0, <2>1 DEF AttemptsAreCounted
  <2>4. Provider!RetriesAreWorthIt'
    BY <1>1, <2>0 DEF Provider!RetriesAreWorthIt
  <2>5. TimeIsCounted'
    <3>1. Exchanges = attempt + 1 /\ Exchanges' = attempt + 1
      BY <2>0 DEF Exchanges
    <3>2. ASSUME NEW b \in Nat, NEW p \in Nat, NEW q \in Nat, q = 2 * p
          PROVE  b * (p - 1) + b * p = b * (q - 1)
      BY <3>2
    <3>3. Spent + BACKOFF_BASE * 2^attempt = BACKOFF_BASE * (2^(attempt + 1) - 1)
      <4>1. 2 * 2^attempt \in Nat
        BY <1>3
      <4> QED  BY <1>2, <1>3, <3>2, <4>1
    <3>4. elapsed <= (attempt + 1) * Longest + Spent
      BY <1>1, <3>1 DEF TimeIsCounted
    <3>5. (attempt + 1) * Longest \in Nat /\ BACKOFF_BASE * 2^attempt \in Nat
      BY <1>2, <1>3, LongestIsNat
    <3>6. elapsed + BACKOFF_BASE * 2^attempt
            <= (attempt + 1) * Longest + BACKOFF_BASE * (2^(attempt + 1) - 1)
      <4> HIDE DEF Spent
      <4> QED  BY <1>2, <1>3, <3>3, <3>4, <3>5
    <3> QED  BY <2>0, <3>1, <3>6 DEF TimeIsCounted, Longest
  <2> QED  BY <2>2, <2>3, <2>4, <2>5 DEF CallInv
<1>9. CASE UNCHANGED Provider!vars
  BY <1>1, <1>9 DEF Provider!vars, CallInv, Provider!TypeOK, Provider!RetriesAreWorthIt,
     AttemptsAreCounted,
                    TimeIsCounted, Exchanges, Longest
<1> QED  BY <1>4, <1>6, <1>7, <1>8, <1>9 DEF Provider!Next

LEMMA CallsKeepPolicy ==
  ASSUME CallInv
  PROVE  Provider!RetriesAreWorthIt /\ Provider!WaitIsBounded /\ Provider!GivesUpLate
<1>1. Provider!TypeOK /\ Provider!RetriesAreWorthIt /\ AttemptsAreCounted /\ TimeIsCounted
  BY DEF CallInv
<1>2. /\ attempt \in Nat /\ elapsed \in Nat /\ MAX_RETRIES \in Nat /\ BACKOFF_BASE \in Nat
      /\ attempt \in 0..MAX_RETRIES /\ Longest \in Nat
  BY <1>1, LongestIsNat, PolicyAssumption DEF Provider!TypeOK
<1>3. 2^attempt \in Nat /\ 2^MAX_RETRIES \in Nat /\ 2^attempt <= 2^MAX_RETRIES
  BY <1>2, PowersGrow
<1>4. Provider!WaitIsBounded
  <2>1. Exchanges \in Nat /\ Exchanges <= MAX_RETRIES + 1
    BY <1>1, <1>2 DEF Exchanges, AttemptsAreCounted
  <2>2. ASSUME NEW a \in Nat, NEW b \in Nat, NEW c \in Nat, a <= b
        PROVE  a * c <= b * c /\ a * c \in Nat /\ b * c \in Nat
    <3>1. b * c = a * c + (b - a) * c
      BY <2>2
    <3>2. b - a \in Nat /\ (b - a) * c \in Nat /\ a * c \in Nat
      BY <2>2
    <3> QED  BY <3>1, <3>2
  <2>3. /\ Exchanges * Longest <= (MAX_RETRIES + 1) * Longest
        /\ Exchanges * Longest \in Nat /\ (MAX_RETRIES + 1) * Longest \in Nat
    BY <1>2, <2>1, <2>2
  <2>4. BACKOFF_BASE * (2^attempt - 1) <= Provider!Backoffs
    <3>1. 1 <= 2^attempt /\ 2^attempt - 1 \in Nat /\ 2^MAX_RETRIES - 1 \in Nat
      BY <1>2, <1>3, PowersGrow
    <3>2. ASSUME NEW a \in Nat, NEW b \in Nat, NEW c \in Nat, a <= b
          PROVE  c * a <= c * b
      BY <2>2, <3>2
    <3> QED  BY <1>2, <1>3, <3>1, <3>2 DEF Provider!Backoffs
  <2>5. (MAX_RETRIES + 1) * Longest = (MAX_RETRIES + 1) * Waits * TIMEOUT_SECONDS
    BY PolicyAssumption DEF Longest
  <2>6. BACKOFF_BASE * (2^attempt - 1) \in Int /\ Provider!Backoffs \in Int
    BY <1>2, <1>3 DEF Provider!Backoffs
  <2>7. elapsed <= Exchanges * Longest + BACKOFF_BASE * (2^attempt - 1)
    BY <1>1 DEF TimeIsCounted
  <2>8. elapsed <= (MAX_RETRIES + 1) * Longest + Provider!Backoffs
    BY <1>2, <2>3, <2>4, <2>6, <2>7
  <2> QED  BY <2>5, <2>8 DEF Provider!WaitIsBounded
<1>5. Provider!GivesUpLate
  <2> SUFFICES ASSUME result = "LLM_UNAVAILABLE", Len(replies) \in 1..MAX_RETRIES
               PROVE  replies[Len(replies)] \notin Provider!Retryable \/ attempt = Len(replies)
    BY DEF Provider!GivesUpLate
  <2>1. llmPc = "done"
    BY <1>1 DEF AttemptsAreCounted, Provider!TypeOK
  <2> QED  BY <1>1, <1>2, <2>1 DEF AttemptsAreCounted
<1> QED  BY <1>1, <1>4, <1>5

-----------------------------------------------------------------------------
(* The pipeline *)

ChunkInv == LoopInv /\ InOrder

\* A part is at its beginning until it is called.
NotYetCalled ==
  /\ phase \in {"chunk", "embed_chunks", "embed_question"} =>
       plan = "none" /\ rows = <<>> /\ retrieved = <<>> /\ tablePc = "query"
  /\ phase \in {"chunk", "embed_chunks", "embed_question", "retrieve", "complete"} =>
       content = <<>> /\ pos = 1 /\ seen = {} /\ citations = <<>>

\* The prompt has an excerpt, and a fake reply mentions the first one.
ReplyIsUsable ==
  /\ phase \in {"complete", "cite"} => excerpts > 0
  /\ phase = "cite" /\ provider = "fake" => EndsLikeAFake(content)

IInv == ChunkInv /\ CallInv /\ TableInv /\ CiteInv /\ NotYetCalled /\ ReplyIsUsable

-----------------------------------------------------------------------------
(* The parts, under the names that the pipeline gives them *)

LEMMA ChunkStarts == Chunker!Init => ChunkInv
BY LoopInit, InitIsInOrder DEF ChunkInv

LEMMA ChunkSteps == ChunkInv /\ Chunker!Next => ChunkInv'
BY LoopNext, StepKeepsOrder DEF ChunkInv

LEMMA ChunkRests == ChunkInv /\ UNCHANGED chunking => ChunkInv'
<1>1. UNCHANGED chunking => UNCHANGED Chunker!vars
  BY DEF chunking, Chunker!vars
<1> QED  BY <1>1, LoopNext, StepKeepsOrder DEF ChunkInv

\* What chunk_text leaves behind when its locals are gone.
LEMMA ChunkForgets == ForgetChunking => ChunkInv'
<1> SUFFICES ASSUME ForgetChunking PROVE ChunkInv'
  OBVIOUS
<1>1. /\ text' = <<>> /\ i' = 1 /\ start' = 0 /\ chunked' = <<>> /\ chunkPc' = "done"
      /\ current' = [first |-> 0, last |-> 0, from |-> 0, chars |-> 0]
      /\ text' \in Texts /\ Len(text') = 0 /\ Len(chunked') = 0
  BY HandedOnAssumption DEF ForgetChunking, Chunker!Empty
<1>2. LoopInv'
  <2>1. Chunker!TypeOK' /\ Chunker!ChunksFit'
    BY <1>1 DEF Chunker!TypeOK, Chunker!Chunk, Chunker!ChunksFit
  <2>2. CurrentIsRun' /\ StartIsInside'
    BY <1>1, SizesAssumption DEF CurrentIsRun, StartIsInside
  <2>3. PassedIsKept'
    BY <1>1 DEF PassedIsKept
  <2> QED  BY <2>1, <2>2, <2>3 DEF LoopInv
<1>3. InOrder'
  BY <1>1 DEF InOrder, Chunker!InReadingOrder, Chunker!PackedGreedily, LastIsFollowed,
              SlicesStart
<1> QED  BY <1>2, <1>3 DEF ChunkInv

LEMMA CallRests == CallInv /\ UNCHANGED <<settings, calling>> => CallInv'
<1>1. UNCHANGED <<settings, calling>> => UNCHANGED Provider!vars
  BY DEF settings, calling, Provider!vars
<1> QED  BY <1>1, CallNext

\* A new call starts at its beginning, with the settings of the last or with others.
LEMMA CallBegins ==
  ASSUME NEW k \in {"embed", "complete"}, CallInv, BeginCall(k),
         ReadSettings \/ UNCHANGED settings
  PROVE  CallInv'
<1>1. Provider!Init'
  BY DEF BeginCall, ReadSettings, settings, Provider!Init, CallInv, Provider!TypeOK
<1>2. Provider!Init' => CallInv'
  BY CallInit, PTL
<1> QED  BY <1>1, <1>2

LEMMA TableRests == TableInv /\ UNCHANGED <<table, retrieving>> => TableInv'
<1>1. UNCHANGED <<table, retrieving>> => UNCHANGED Retriever!vars
  BY DEF table, retrieving, Retriever!vars
<1> QED  BY <1>1, TableNext

LEMMA CiteSteps == CiteInv /\ Markers!Next => CiteInv'
BY SkipIInv, CiteIInv DEF Markers!Next

LEMMA CiteRests == CiteInv /\ UNCHANGED citing => CiteInv'
BY DEF CiteInv, citing, Markers!TypeOK, SeenIsCited, Markers!EachMarkerOnce,
       Markers!CitesAllMentions, Markers!FirstMentionOrder

-----------------------------------------------------------------------------
LEMMA InitIInv == Init => IInv
<1> SUFFICES ASSUME Init PROVE IInv
  OBVIOUS
<1>1. ChunkInv
  BY ChunkStarts DEF Init
<1>2. TableInv
  <2>1. Retriever!Init
    BY TableAssumption, LimitsAssumption
       DEF Init, Retriever!Init, AnyOwner, NotSearched, AnySimilarity
  <2> QED  BY <2>1, TableInit
<1>3. CiteInv
  <2>1. 0 \in ChunkCounts
    BY LimitsAssumption, HandedOnAssumption
  <2>2. Markers!Init
    BY <2>1, HandedOnAssumption DEF Init, Markers!Init
  <2> QED  BY <2>2, CiteInit
<1>4. CallInv
  <2>1. Provider!Init
    BY DEF Init, Provider!Init
  <2> QED  BY <2>1, CallInit
<1> QED  BY <1>1, <1>2, <1>3, <1>4 DEF Init, IInv, NotYetCalled, ReplyIsUsable

\* A prompt is made only of excerpts that were found, and no more than the limit.
LEMMA CompletePromptIInv == IInv /\ CompletePrompt => IInv'
<1> SUFFICES ASSUME IInv, CompletePrompt PROVE IInv'
  OBVIOUS
<1> USE DEF CompletePrompt
<1>1. ChunkInv' /\ CallInv'
  BY ChunkRests, CallRests DEF IInv
<1>2. TableInv'
  <2>1. Retriever!Init'
    BY TableAssumption, LimitsAssumption
       DEF Retriever!Init, AnyOwner, NotSearched, AnySimilarity
  <2>2. Retriever!Init' => TableInv'
    BY TableInit, PTL
  <2> QED  BY <2>1, <2>2
<1>3. retrieved \in Seq(Chunks) /\ Len(retrieved) \in 0..TOP_K /\ Len(retrieved) > 0
  BY LimitsAssumption DEF IInv, TableInv, Retriever!TypeOK
<1>4. CiteInv'
  <2>1. excerpts' \in ChunkCounts /\ content' = <<>>
    BY <1>3, HandedOnAssumption DEF IInv, NotYetCalled
  <2>2. Markers!Init'
    BY <2>1, HandedOnAssumption DEF IInv, NotYetCalled, Markers!Init
  <2>3. Markers!Init' => CiteInv'
    BY CiteInit, PTL
  <2> QED  BY <2>2, <2>3
<1>5. NotYetCalled' /\ ReplyIsUsable'
  BY <1>3 DEF IInv, NotYetCalled, ReplyIsUsable
<1> QED  BY <1>1, <1>2, <1>4, <1>5 DEF IInv

LEMMA RetrieveChunksIInv == IInv /\ RetrieveChunks => IInv'
<1> SUFFICES ASSUME IInv, RetrieveChunks PROVE IInv'
  OBVIOUS
<1> USE DEF RetrieveChunks
<1>1. ChunkInv' /\ CallInv' /\ CiteInv'
  BY ChunkRests, CallBegins, CiteRests DEF IInv
<1>2. TableInv'
  <2>1. Retriever!Init'
    BY DEF IInv, NotYetCalled, retrieving, Retriever!Init
  <2>2. Retriever!Init' => TableInv'
    BY TableInit, PTL
  <2> QED  BY <2>1, <2>2
<1>3. NotYetCalled' /\ ReplyIsUsable'
  BY DEF IInv, NotYetCalled, ReplyIsUsable, citing
<1> QED  BY <1>1, <1>2, <1>3 DEF IInv

LEMMA ReadReplyIInv == IInv /\ ReadReply => IInv'
<1> SUFFICES ASSUME IInv, ReadReply PROVE IInv'
  OBVIOUS
<1> USE DEF ReadReply
<1>1. ChunkInv' /\ CallInv' /\ TableInv'
  BY ChunkRests, CallBegins, TableRests DEF IInv
<1>2. CiteInv'
  <2>1. excerpts \in ChunkCounts
    BY DEF IInv, CiteInv, Markers!TypeOK
  <2>2. Markers!Init'
    BY <2>1 DEF IInv, NotYetCalled, Markers!Init
  <2>3. Markers!Init' => CiteInv'
    BY CiteInit, PTL
  <2> QED  BY <2>2, <2>3
<1>3. EndsLikeAFake(content)' = EndsLikeAFake(content')
  BY DEF EndsLikeAFake
<1>4. NotYetCalled' /\ ReplyIsUsable'
  BY <1>3 DEF IInv, NotYetCalled, ReplyIsUsable, settings
<1> QED  BY <1>1, <1>2, <1>4 DEF IInv

\* The steps of a part keep its own invariant and leave the others alone.
LEMMA NextIInv == IInv /\ [Next]_vars => IInv'
<1> SUFFICES ASSUME IInv, [Next]_vars PROVE IInv'
  OBVIOUS
<1> USE DEF IInv
<1>1. CASE UNCHANGED vars
  <2>1. UNCHANGED <<phase, chunking, calling, table, retrieving, citing, settings>>
    BY <1>1 DEF vars, chunking, calling, table, retrieving, citing, settings
  <2>2. ChunkInv' /\ CallInv' /\ TableInv' /\ CiteInv'
    BY <2>1, ChunkRests, CallRests, TableRests, CiteRests
  <2> QED  BY <2>1, <2>2 DEF NotYetCalled, ReplyIsUsable, EndsLikeAFake, retrieving, citing,
              settings
<1>2. CASE ChunkPage
  <2>1. ChunkInv' /\ CallInv' /\ TableInv' /\ CiteInv'
    BY <1>2, ChunkSteps, CallRests, TableRests, CiteRests DEF ChunkPage
  <2> QED  BY <1>2, <2>1 DEF ChunkPage, NotYetCalled, ReplyIsUsable, retrieving, citing
<1>3. CASE EmbedChunks \/ EmbedQuestion
  <2>1. ChunkInv' /\ CallInv' /\ TableInv' /\ CiteInv'
    BY <1>3, ChunkForgets, CallBegins, TableRests, CiteRests DEF EmbedChunks, EmbedQuestion
  <2> QED  BY <1>3, <2>1 DEF EmbedChunks, EmbedQuestion, PageIsChunked, NotYetCalled,
              ReplyIsUsable, retrieving, citing
<1>4. CASE CallProvider
  <2>1. ChunkInv' /\ CallInv' /\ TableInv' /\ CiteInv'
    BY <1>4, ChunkRests, CallNext, TableRests, CiteRests DEF CallProvider
  <2> QED  BY <1>4, <2>1 DEF CallProvider, NotYetCalled, ReplyIsUsable, retrieving, citing
<1>5. CASE CallFails \/ NothingFound \/ SaveAnswer
  <2>1. ChunkInv' /\ CallInv' /\ TableInv' /\ CiteInv'
    BY <1>5, ChunkRests, CallRests, TableRests, CiteRests DEF CallFails, NothingFound, SaveAnswer
  <2> QED  BY <1>5, <2>1 DEF CallFails, NothingFound, SaveAnswer, NotYetCalled, ReplyIsUsable
<1>6. CASE QueryChunks
  <2>1. ChunkInv' /\ CallInv' /\ TableInv' /\ CiteInv'
    BY <1>6, ChunkRests, CallRests, TableNext, CiteRests DEF QueryChunks
  <2> QED  BY <1>6, <2>1 DEF QueryChunks, NotYetCalled, ReplyIsUsable, citing
<1>7. CASE CiteMarkers
  <2>1. ChunkInv' /\ CallInv' /\ TableInv' /\ CiteInv'
    BY <1>7, ChunkRests, CallRests, TableRests, CiteSteps DEF CiteMarkers
  <2>2. UNCHANGED <<content, excerpts>>
    BY <1>7 DEF CiteMarkers, Markers!Next, Markers!Skip, Markers!Cite
  <2> QED  BY <1>7, <2>1, <2>2 DEF CiteMarkers, NotYetCalled, ReplyIsUsable, EndsLikeAFake,
              settings
<1> QED  BY <1>1, <1>2, <1>3, <1>4, <1>5, <1>6, <1>7, CompletePromptIInv, RetrieveChunksIInv,
            ReadReplyIInv DEF Next

THEOREM Invariance == Spec => []IInv
BY InitIInv, NextIInv, PTL DEF Spec

-----------------------------------------------------------------------------
\* The locals of every call, and what is handed from one to the next, are always of
\* their types: no step of one call writes into another's.
THEOREM TypeCorrect == Spec => []TypeOK
<1> DEFINE Phased == phase \in {"chunk", "embed_chunks", "embed_question", "retrieve",
                                "complete", "cite", "end"}
<1>1. Init => Phased
  BY DEF Init
<1>2. Phased /\ [Next]_vars => Phased'
  BY DEF vars, Next, ChunkPage, EmbedChunks, CallProvider, CallFails, EmbedQuestion,
         RetrieveChunks, QueryChunks, CompletePrompt, NothingFound, ReadReply, CiteMarkers,
         SaveAnswer
<1>3. IInv /\ Phased => TypeOK
  BY DEF IInv, ChunkInv, LoopInv, CallInv, TableInv, CiteInv, TypeOK
<1> QED  BY <1>1, <1>2, <1>3, Invariance, PTL DEF Spec

\* Whatever page is ingested, its chunks keep the text, in order, full and within
\* the limit, while they are made and when they are handed on.
THEOREM ChunksKeepThePage == Spec => []ChunksKeepText
<1>1. ChunkInv => ChunksKeepText
  <2> SUFFICES ASSUME ChunkInv PROVE ChunksKeepText
    OBVIOUS
  <2>1. Chunker!NothingIsLost
    BY KeptAtEnd, SizesAssumption, TextsAssumption DEF ChunkInv
  <2>2. Chunker!InReadingOrder /\ Chunker!ChunksFit /\ Chunker!PackedGreedily
    BY DEF ChunkInv, LoopInv, InOrder
  <2> QED  BY <2>1, <2>2 DEF ChunksKeepText
<1> QED  BY <1>1, Invariance, PTL DEF IInv

\* However long the provider takes and whatever it answers, only what may be cured is
\* sent again, the caller waits no longer than the limits allow, and is refused
\* only when they are used up.
THEOREM RetriesFollowPolicy == Spec => []RetriesKeepToPolicy
<1>1. CallInv => RetriesKeepToPolicy
  BY CallsKeepPolicy DEF RetriesKeepToPolicy
<1> QED  BY <1>1, Invariance, PTL DEF IInv

\* Whatever the table holds when the question arrives, the prompt is made of the
\* asker's own chunks, and by a scan of the table of the best of them.
THEOREM PromptIsMine == Spec => []RetrievesMyBest
<1>1. TableInv => RetrievesMyBest
  BY BestIsRetrieved DEF TableInv, RetrievesMyBest
<1> QED  BY <1>1, Invariance, PTL DEF IInv

\* Whatever the model answers, its citations are the excerpts it mentions, each
\* once and in order, and the fake provider's answer has one.
THEOREM AnswerIsCited == Spec => []CitesFirstMentions
<1>1. IInv => CitesFirstMentions
  <2> SUFFICES ASSUME IInv PROVE CitesFirstMentions
    OBVIOUS
  <2>1. Markers!TypeOK /\ SeenIsCited /\ Markers!EachMarkerOnce /\ Markers!CitesAllMentions
        /\ Markers!FirstMentionOrder
    BY DEF IInv, CiteInv
  <2>2. ASSUME phase = "cite", pos > Len(content), provider = "fake"
        PROVE  1 \in seen
    <3>1. /\ content \in Seq(Nat) /\ Len(content) \in Nat /\ pos = Len(content) + 1
          /\ excerpts \in Nat /\ 1 \in 1..excerpts
      BY <2>1, <2>2, AnswersAssumption DEF IInv, ReplyIsUsable, Markers!TypeOK
    <3>2. \E j \in 1..pos - 1 : content[j] = 1
      <4>1. EndsLikeAFake(content)
        BY <2>2 DEF IInv, ReplyIsUsable
      <4>2. CASE content # <<>> /\ content[Len(content)] = 1
        BY <3>1, <4>2
      <4>3. CASE Len(content) > 1 /\ content[Len(content) - 1] = 1
        BY <3>1, <4>3
      <4> QED  BY <4>1, <4>2, <4>3 DEF EndsLikeAFake
    <3>3. \E k \in 1..Len(citations) : citations[k] = 1
      BY <2>1, <3>1, <3>2 DEF Markers!CitesAllMentions
    <3> QED  BY <2>1, <3>3 DEF SeenIsCited
  <2> QED  BY <2>1, <2>2 DEF CitesFirstMentions
<1> QED  BY <1>1, Invariance, PTL
=============================================================================
