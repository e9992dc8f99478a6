-------------------------- MODULE RetrievalInputs --------------------------
(* What retrieve_chunks of backend/app/qa/retrieval.py meets: the chunks of all *)
(* users, the sizes of backend/app/qa/rules.py and the planner of PostgreSQL.   *)
EXTENDS Integers, FiniteSets

CONSTANTS
  Chunks, Users, Asker,
  Similarities,
  TOP_K, SIMILARITY_THRESHOLD,
  EF_SEARCH,   \* candidates that a scan of the index yields (hnsw.ef_search)
  Plans        \* the plans the query planner may choose, of "table" and "index"

ASSUME TableAssumption ==
  /\ IsFiniteSet(Chunks)
  /\ Asker \in Users /\ Similarities \subseteq Int
  /\ Plans \subseteq {"table", "index"}
ASSUME LimitsAssumption ==
  /\ TOP_K \in Nat /\ EF_SEARCH \in Nat
  /\ SIMILARITY_THRESHOLD \in Similarities
=============================================================================
