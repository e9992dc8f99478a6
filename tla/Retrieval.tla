----------------------------- MODULE Retrieval -----------------------------
(***************************************************************************)
(* retrieve_chunks of backend/app/qa/retrieval.py for one question: the      *)
(* query over the chunks table, which PostgreSQL answers from the table or   *)
(* from its HNSW index, and the loop that drops weak matches.  A chunk is    *)
(* its owner, whether its document may be searched, and its similarity to    *)
(* the question in hundredths.                                               *)
(***************************************************************************)
EXTENDS RetrievalInputs, Sequences

VARIABLES owner, searchable, similarity, plan, rows, retrieved, pc

vars == <<owner, searchable, similarity, plan, rows, retrieved, pc>>

Init ==
  /\ owner \in [Chunks -> Users]
  /\ searchable \in [Chunks -> BOOLEAN]
  /\ similarity \in [Chunks -> Similarities]
  /\ plan = "none" /\ rows = <<>> /\ retrieved = <<>> /\ pc = "query"

\* ORDER BY distance LIMIT n: some n of the nearest of C, nearest first.
Nearest(C, n) ==
  LET size == IF Cardinality(C) < n THEN Cardinality(C) ELSE n
  IN  {s \in [1..size -> C] :
         /\ \A k, l \in 1..size : k < l => s[k] # s[l] /\ similarity[s[k]] >= similarity[s[l]]
         /\ \A c \in C : \/ \E k \in 1..size : s[k] = c
                         \/ \A k \in 1..size : similarity[s[k]] >= similarity[c]}

RangeOf(s) == {s[k] : k \in 1..Len(s)}

EverybodysChunks == {c \in Chunks : searchable[c]}

\* The WHERE clause: owned, not deleted, ready.
Mine == {c \in Chunks : owner[c] = Asker /\ searchable[c]}

QueryTable ==
  /\ pc = "query" /\ "table" \in Plans
  /\ plan' = "table"
  /\ rows' \in Nearest(Mine, TOP_K)
  /\ pc' = "filter"
  /\ UNCHANGED <<owner, searchable, similarity, retrieved>>

\* The index knows nothing of owners: its candidates are filtered afterwards.
QueryIndex ==
  /\ pc = "query" /\ "index" \in Plans
  /\ plan' = "index"
  /\ \E s \in Nearest(Chunks, EF_SEARCH) : rows' \in Nearest(Mine \cap RangeOf(s), TOP_K)
  /\ pc' = "filter"
  /\ UNCHANGED <<owner, searchable, similarity, retrieved>>

Filter ==
  /\ pc = "filter" /\ Len(rows) > 0
  /\ rows' = Tail(rows)
  /\ retrieved' = IF similarity[Head(rows)] >= SIMILARITY_THRESHOLD
                  THEN Append(retrieved, Head(rows)) ELSE retrieved
  /\ UNCHANGED <<owner, searchable, similarity, plan, pc>>

Return ==
  /\ pc = "filter" /\ Len(rows) = 0
  /\ pc' = "done"
  /\ UNCHANGED <<owner, searchable, similarity, plan, rows, retrieved>>

Next == QueryTable \/ QueryIndex \/ Filter \/ Return

Spec == Init /\ [][Next]_vars

-----------------------------------------------------------------------------
TypeOK ==
  /\ owner \in [Chunks -> Users] /\ searchable \in [Chunks -> BOOLEAN]
  /\ similarity \in [Chunks -> Similarities]
  /\ plan \in {"none", "table", "index"}
  /\ rows \in Seq(Chunks) /\ Len(rows) <= TOP_K
  /\ retrieved \in Seq(Chunks) /\ Len(retrieved) <= TOP_K
  /\ pc \in {"query", "filter", "done"}

\* "never retrieve across users", whichever plan: what is retrieved is the
\* asker's, searchable, strong enough and numbered from the best match on.
RetrievedIsGrounded ==
  \A k \in 1..Len(retrieved) :
    /\ owner[retrieved[k]] = Asker /\ searchable[retrieved[k]]
    /\ similarity[retrieved[k]] >= SIMILARITY_THRESHOLD
    /\ \A l \in 1..k : similarity[retrieved[l]] >= similarity[retrieved[k]]

\* "top-k = 6, filtered to the user's documents": a strong chunk of the asker is
\* left out only for TOP_K others that are at least as strong.  The plan that
\* scans the index does not ensure it: candidates of others crowd it out.
TopOfMine ==
  pc = "done" /\ plan = "table" => \A c \in Mine \ RangeOf(retrieved) :
    similarity[c] >= SIMILARITY_THRESHOLD =>
      /\ Len(retrieved) = TOP_K
      /\ \A d \in RangeOf(retrieved) : similarity[d] >= similarity[c]
=============================================================================
