----------------------------- MODULE Citations -----------------------------
(***************************************************************************)
(* extract_citations of backend/app/qa/citations.py: the loop that maps the  *)
(* [n] markers of a model's answer to the chunks it was given.  An answer is *)
(* what the pattern finds in it, the numbers it mentions in order; chunk n   *)
(* of the prompt is n itself.                                                *)
(***************************************************************************)
EXTENDS CitationInputs

VARIABLES content, chunks, pos, seen, citations

vars == <<content, chunks, pos, seen, citations>>

Init ==
  /\ content \in Answers /\ chunks \in ChunkCounts
  /\ pos = 1 /\ seen = {} /\ citations = <<>>

\* The marker is the number of an excerpt of the prompt.
Known(m) == m \in 1..chunks

Skip ==
  /\ pos \in 1..Len(content)
  /\ content[pos] \in seen \/ ~Known(content[pos])
  /\ pos' = pos + 1
  /\ UNCHANGED <<content, chunks, seen, citations>>

CiteAgain ==
  /\ pos \in 1..Len(content)
  /\ Known(content[pos])
  /\ seen' = seen \cup {content[pos]}
  /\ citations' = Append(citations, content[pos])
  /\ pos' = pos + 1
  /\ UNCHANGED <<content, chunks>>

Cite ==
  /\ pos \in 1..Len(content)
  /\ content[pos] \notin seen /\ Known(content[pos])
  /\ seen' = seen \cup {content[pos]}
  /\ citations' = Append(citations, content[pos])
  /\ pos' = pos + 1
  /\ UNCHANGED <<content, chunks>>

Next == Skip \/ Cite

Spec == Init /\ [][Next]_vars

-----------------------------------------------------------------------------
TypeOK ==
  /\ content \in Answers /\ chunks \in ChunkCounts
  /\ pos \in 1..Len(content) + 1
  /\ seen \subseteq 1..chunks
  /\ citations \in Seq(1..chunks)

\* "duplicates are de-duplicated": an answer has one citation for a marker.
EachMarkerOnce ==
  \A k, l \in 1..Len(citations) : citations[k] = citations[l] => k = l

\* "out-of-range markers ignored", and no other: what is cited is what has been
\* mentioned of the excerpts.
CitesAllMentions ==
  /\ \A k \in 1..Len(citations) :
       citations[k] \in 1..chunks /\ \E j \in 1..pos - 1 : content[j] = citations[k]
  /\ \A j \in 1..pos - 1 : content[j] \in 1..chunks =>
       \E k \in 1..Len(citations) : citations[k] = content[j]

\* "first-mention order preserved": some mention of the earlier one precedes
\* every mention of the later one.
FirstMentionOrder ==
  \A k, l \in 1..Len(citations) : k < l =>
    \E j \in 1..pos - 1 : /\ content[j] = citations[k]
                          /\ \A h \in 1..j : content[h] # citations[l]
=============================================================================
