------------------------------ MODULE Pipeline ------------------------------
(***************************************************************************)
(* From a page of text to a cited answer: the calls that ingest_document and *)
(* ask_question make, in their order, to chunk_text, the language-model      *)
(* providers, retrieve_chunks and extract_citations.  Each runs to its end   *)
(* before the next begins, and its locals are gone when it returns: what is  *)
(* handed on is named in the action that does it.                            *)
(***************************************************************************)
EXTENDS ChunkingInputs, CitationInputs, RetrievalInputs

CONSTANTS TIMEOUT_SECONDS, MAX_RETRIES, BACKOFF_BASE, Waits, Latencies  \* of Llm

ASSUME PolicyAssumption ==
  /\ TIMEOUT_SECONDS \in Nat \ {0} /\ MAX_RETRIES \in Nat /\ BACKOFF_BASE \in Nat
  /\ Waits \in Nat \ {0}
  /\ Latencies \subseteq 1..Waits * TIMEOUT_SECONDS
\* A page may be empty and an answer without markers; the excerpts are counted.
ASSUME HandedOnAssumption ==
  <<>> \in Texts /\ <<>> \in Answers /\ 0..TOP_K \subseteq ChunkCounts

VARIABLES
  phase,                                                          \* which call is running
  text, i, start, current, chunked, chunkPc,                      \* chunk_text
  kind, provider, keys, attempt, replies, elapsed, llmPc, result, \* a provider's call
  owner, searchable, similarity, plan, rows, retrieved, tablePc,  \* retrieve_chunks
  content, excerpts, pos, seen, citations                         \* extract_citations

chunking == <<text, i, start, current, chunked, chunkPc>>
settings == <<provider, keys>>
calling == <<kind, attempt, replies, elapsed, llmPc, result>>
table == <<owner, searchable, similarity>>
retrieving == <<plan, rows, retrieved, tablePc>>
citing == <<content, excerpts, pos, seen, citations>>
vars == <<phase, text, i, start, current, chunked, chunkPc,
          kind, provider, keys, attempt, replies, elapsed, llmPc, result,
          owner, searchable, similarity, plan, rows, retrieved, tablePc,
          content, excerpts, pos, seen, citations>>

Chunker == INSTANCE Chunking WITH chunks <- chunked, pc <- chunkPc
Provider == INSTANCE Llm WITH pc <- llmPc
Retriever == INSTANCE Retrieval WITH pc <- tablePc
Markers == INSTANCE Citations WITH chunks <- excerpts

\* Outside of a query the contents of the table do not matter.
AnyOwner == [c \in Chunks |-> Asker]
NotSearched == [c \in Chunks |-> FALSE]
AnySimilarity == [c \in Chunks |-> SIMILARITY_THRESHOLD]

Init ==
  /\ phase = "chunk" /\ Chunker!Init
  /\ kind = "embed" /\ provider = "fake" /\ keys = {} /\ attempt = 0 /\ replies = <<>>
  /\ elapsed = 0 /\ llmPc = "choose" /\ result = "none"
  /\ owner = AnyOwner /\ searchable = NotSearched /\ similarity = AnySimilarity
  /\ plan = "none" /\ rows = <<>> /\ retrieved = <<>> /\ tablePc = "query"
  /\ content = <<>> /\ excerpts = 0 /\ pos = 1 /\ seen = {} /\ citations = <<>>

BeginCall(k) ==
  /\ kind' = k /\ attempt' = 0 /\ replies' = <<>> /\ elapsed' = 0
  /\ llmPc' = "choose" /\ result' = "none"

\* What the environment of the process says at the time.
ReadSettings == /\ provider' \in {"fake", "openai", "anthropic"}
                /\ keys' \in SUBSET {"openai", "anthropic"}

-----------------------------------------------------------------------------
(* ingest_document *)

ChunkPage ==
  /\ phase = "chunk" /\ Chunker!Next
  /\ UNCHANGED <<phase, settings, calling, table, retrieving, citing>>

PageIsChunked == phase = "chunk" /\ chunkPc = "done"

ForgetChunking ==
  /\ text' = <<>> /\ i' = 1 /\ start' = 0 /\ current' = Chunker!Empty
  /\ chunked' = <<>> /\ chunkPc' = "done"

\* Chunks are embedded in one call, if there are any.
EmbedChunks ==
  /\ PageIsChunked /\ chunked # <<>>
  /\ phase' = "embed_chunks"
  /\ ForgetChunking /\ BeginCall("embed") /\ ReadSettings
  /\ UNCHANGED <<table, retrieving, citing>>

CallProvider ==
  /\ phase \in {"embed_chunks", "embed_question", "complete"} /\ Provider!Next
  /\ UNCHANGED <<phase, chunking, table, retrieving, citing>>

\* The document is marked as failed, or the ask ends with an error.
CallFails ==
  /\ phase \in {"embed_chunks", "embed_question", "complete"}
  /\ result \in {"LLM_UNAVAILABLE", "INTERNAL_ERROR"}
  /\ phase' = "end"
  /\ UNCHANGED <<chunking, settings, calling, table, retrieving, citing>>

-----------------------------------------------------------------------------
(* ask_question, of a process that may have been given other settings *)

EmbedQuestion ==
  /\ \/ PageIsChunked /\ chunked = <<>>
     \/ phase = "embed_chunks" /\ result = "value"
  /\ phase' = "embed_question"
  /\ ForgetChunking /\ BeginCall("embed") /\ ReadSettings
  /\ UNCHANGED <<table, retrieving, citing>>

\* The vector goes to the database, which holds the chunks of everybody by now.
RetrieveChunks ==
  /\ phase = "embed_question" /\ result = "value"
  /\ phase' = "retrieve"
  /\ BeginCall("complete")
  /\ owner' \in [Chunks -> Users] /\ searchable' \in [Chunks -> BOOLEAN]
  /\ similarity' \in [Chunks -> Similarities]
  /\ UNCHANGED <<chunking, settings, retrieving, citing>>

QueryChunks ==
  /\ phase = "retrieve" /\ Retriever!Next
  /\ UNCHANGED <<phase, chunking, settings, calling, citing>>

\* The chat model is called with the excerpts that were found, numbered from 1.
CompletePrompt ==
  /\ phase = "retrieve" /\ tablePc = "done" /\ retrieved # <<>>
  /\ phase' = "complete"
  /\ excerpts' = Len(retrieved)
  /\ owner' = AnyOwner /\ searchable' = NotSearched /\ similarity' = AnySimilarity
  /\ plan' = "none" /\ rows' = <<>> /\ retrieved' = <<>> /\ tablePc' = "query"
  /\ UNCHANGED <<chunking, settings, calling, content, pos, seen, citations>>

NothingFound ==
  /\ phase = "retrieve" /\ tablePc = "done" /\ retrieved = <<>>
  /\ phase' = "end"
  /\ UNCHANGED <<chunking, settings, calling, table, retrieving, citing>>

\* FakeChatProvider ends with the first two numbers that begin a line of the prompt:
\* [1], and [2] unless a line of an excerpt or of the question begins with one.
EndsLikeAFake(a) ==
  \/ excerpts = 1 /\ a # <<>> /\ a[Len(a)] = 1
  \/ Len(a) > 1 /\ a[Len(a) - 1] = 1

\* The reply may mention any numbers; a fake one quotes the first excerpt before.
ReadReply ==
  /\ phase = "complete" /\ result = "value"
  /\ phase' = "cite"
  /\ content' \in Answers
  /\ provider = "fake" => EndsLikeAFake(content')
  /\ BeginCall("embed")
  /\ UNCHANGED <<chunking, settings, table, retrieving, excerpts, pos, seen, citations>>

CiteMarkers ==
  /\ phase = "cite" /\ Markers!Next
  /\ UNCHANGED <<phase, chunking, settings, calling, table, retrieving>>

SaveAnswer ==
  /\ phase = "cite" /\ pos > Len(content)
  /\ phase' = "end"
  /\ UNCHANGED <<chunking, settings, calling, table, retrieving, citing>>

Next ==
  \/ ChunkPage \/ EmbedChunks \/ CallProvider \/ CallFails
  \/ EmbedQuestion \/ RetrieveChunks \/ QueryChunks \/ CompletePrompt \/ NothingFound
  \/ ReadReply \/ CiteMarkers \/ SaveAnswer

Spec == Init /\ [][Next]_vars

\* Nothing else runs in between: the next step is always taken.
FairSpec == Spec /\ WF_vars(Next)

-----------------------------------------------------------------------------
TypeOK ==
  /\ phase \in {"chunk", "embed_chunks", "embed_question", "retrieve", "complete",
                "cite", "end"}
  /\ Chunker!TypeOK /\ Provider!TypeOK /\ Retriever!TypeOK /\ Markers!TypeOK

\* Every loop of the pipeline ends: the slices of chunk_text make progress, the
\* retries of post_json are counted, and so are rows and markers.
EveryCallReturns == <>(phase = "end")

\* "no sentence is lost at a boundary": when chunk_text returns, every character
\* is in a chunk, and chunk_index follows the text with the overlap it should.
\* None is empty or beyond MAX_CHUNK_CHARS, so that all can be embedded, and none
\* ends before a paragraph that would have fitted.
ChunksKeepText ==
  /\ Chunker!NothingIsLost /\ Chunker!InReadingOrder
  /\ Chunker!ChunksFit /\ Chunker!PackedGreedily

\* post_json retries what a retry may cure, and nothing else, up to its limit;
\* its caller waits a bounded time and is refused only when the retries are used.
\* An answer of good status that cannot be read ends the call like a refusal.
RetriesKeepToPolicy ==
  Provider!RetriesAreWorthIt /\ Provider!WaitIsBounded /\ Provider!GivesUpLate

\* "never retrieve across users": by whichever plan, what retrieve_chunks returns
\* is the asker's, searchable, strong enough and best first; and with a table scan
\* it leaves out nothing that is better.
RetrievesMyBest == Retriever!RetrievedIsGrounded /\ Retriever!TopOfMine

\* extract_citations cites exactly the given excerpts that are mentioned, each
\* once and in the order of the first mentions: an answer is stored without
\* citations only if it mentions none, and the keyless demo's never is.
CitesFirstMentions ==
  /\ Markers!EachMarkerOnce /\ Markers!CitesAllMentions /\ Markers!FirstMentionOrder
  /\ phase = "cite" /\ pos > Len(content) /\ provider = "fake" => 1 \in seen
=============================================================================
