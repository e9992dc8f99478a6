--------------------------------- MODULE QA ---------------------------------
(***************************************************************************)
(* backend/app/qa: asking a question, next to documents that are deleted   *)
(* while the language model is thinking.  A chunk row is locked by the      *)
(* foreign-key check of a citation (shared) and by its DELETE (exclusive);  *)
(* PostgreSQL aborts one transaction of a cycle of waits.  What is read     *)
(* from a document is abstracted to the identity of its chunks.            *)
(***************************************************************************)
EXTENDS Naturals, Sequences, FiniteSets

CONSTANTS
  Users,
  Docs,       \* documents, fully ingested when the module begins
  OwnerOf,    \* the owner of each document
  Chunks,
  DocOf,      \* the document of each chunk
  Asks,       \* requests to ask a question, each used once
  TopK,       \* rules.TOP_K
  PoolSizes   \* the sizes the SQLAlchemy pool may be given

ASSUME OwnerAssumption == OwnerOf \in [Docs -> Users]
ASSUME DocAssumption == DocOf \in [Chunks -> Docs]
ASSUME BoundAssumption == TopK \in Nat \ {0} /\ PoolSizes \subseteq Nat \ {0}

VARIABLES
  deleted,    \* documents with deleted_at set
  chunkRows,  \* rows of chunks
  questions,  \* the asks whose question row exists
  answers,    \* the asks whose answer row exists
  citations,  \* rows of citations
  audit,      \* <<action, ask>>
  pc,         \* where each ask stands
  asker,      \* its user
  context,    \* the chunks it retrieved, best first
  cited,      \* the markers the reply mentions that extract_citations keeps
  inserted,   \* those whose citation is flushed
  erase,      \* where the DELETE request of each document stands
  erased,     \* the chunks its statement has deleted
  poolSize    \* the pool's connections: with two, an ask and a deletion fill it

dbVars == <<deleted, chunkRows, questions, answers, citations, audit>>
askVars == <<pc, asker, context, cited, inserted>>
eraseVars == <<erase, erased>>
vars == <<dbVars, askVars, eraseVars, poolSize>>

\* From refresh(question) to the final commit one connection is held, the
\* calls to the language model included.
AskTx == {r \in Asks : pc[r] \in {"opened", "refreshed", "retrieved", "replied", "flushing"}}
EraseTx == {d \in Docs : erase[d] = "erasing"}
ConnectionFree == Cardinality(AskTx) + Cardinality(EraseTx) < poolSize

ChunkOf(r, m) == context[r][m]
Shared(r) == {ChunkOf(r, m) : m \in inserted[r]}
ChunksOf(d) == {c \in chunkRows : DocOf[c] = d}

\* The WHERE clause of retrieve_chunks.
Retrievable(u) == {c \in chunkRows : OwnerOf[DocOf[c]] = u /\ DocOf[c] \notin deleted}

\* Similarity ranks the chunks and may drop any of them: any choice is possible.
Rankings(S) == {s \in UNION {[1..n -> S] : n \in 0..TopK} :
                 \A i, j \in DOMAIN s : s[i] = s[j] => i = j}

Init ==
  /\ deleted = {} /\ chunkRows = Chunks
  /\ questions = {} /\ answers = {} /\ citations = {} /\ audit = {}
  /\ pc = [r \in Asks |-> "new"]
  /\ asker = [r \in Asks |-> "none"]
  /\ context = [r \in Asks |-> <<>>]
  /\ cited = [r \in Asks |-> {}]
  /\ inserted = [r \in Asks |-> {}]
  /\ erase = [d \in Docs |-> "new"]
  /\ erased = [d \in Docs |-> {}]
  /\ poolSize \in PoolSizes

Goto(r, from, to) == pc[r] = from /\ pc' = [pc EXCEPT ![r] = to]

-----------------------------------------------------------------------------
(* ask_question *)

\* get_conversation: 404 unless the conversation is the asker's.
OpenConversation(r, u, mine) ==
  /\ ConnectionFree
  /\ Goto(r, "new", IF mine THEN "opened" ELSE "refused")
  /\ asker' = [asker EXCEPT ![r] = u]
  /\ UNCHANGED <<dbVars, context, cited, inserted, eraseVars, poolSize>>

SaveQuestionWithAnswer(r) ==
  /\ Goto(r, "opened", "saved")
  /\ UNCHANGED <<dbVars, asker, context, cited, inserted, eraseVars>>

\* The question and question.asked are committed before any call to a model.
SaveQuestion(r) ==
  /\ Goto(r, "opened", "saved")
  /\ questions' = questions \cup {r}
  /\ audit' = audit \cup {<<"question.asked", r>>}
  /\ UNCHANGED <<deleted, chunkRows, answers, citations, asker, context, cited, inserted,
                 eraseVars>>

\* refresh(question) opens the transaction that the rest runs in.
RefreshQuestion(r) ==
  /\ ConnectionFree
  /\ Goto(r, "saved", "refreshed")
  /\ UNCHANGED <<dbVars, asker, context, cited, inserted, eraseVars>>

\* The question is embedded, then the chunks are retrieved; with none there is
\* no grounded answer and no call to the chat model.
Retrieve(r) ==
  \E s \in Rankings(Retrievable(asker[r])) :
    /\ Goto(r, "refreshed", IF s = <<>> THEN "unanswered" ELSE "retrieved")
    /\ context' = [context EXCEPT ![r] = s]
    /\ UNCHANGED <<dbVars, asker, cited, inserted, eraseVars>>

\* The chat model replies, mentioning some of the markers.
Complete(r) ==
  \E M \in SUBSET DOMAIN context[r] :
    /\ Goto(r, "retrieved", "replied")
    /\ cited' = [cited EXCEPT ![r] = M]
    /\ UNCHANGED <<dbVars, asker, context, inserted, eraseVars>>

\* INSERT INTO answers: flushed, not committed.
InsertAnswer(r) ==
  /\ Goto(r, "replied", "flushing")
  /\ UNCHANGED <<dbVars, asker, context, cited, inserted, eraseVars>>

\* A citation is inserted once its chunk is not being deleted ...
InsertCitation(r, m) ==
  /\ pc[r] = "flushing"
  /\ m \in cited[r] \ inserted[r]
  /\ ChunkOf(r, m) \in chunkRows
  /\ \A d \in EraseTx : ChunkOf(r, m) \notin erased[d]
  /\ inserted' = [inserted EXCEPT ![r] = @ \cup {m}]
  /\ UNCHANGED <<dbVars, pc, asker, context, cited, eraseVars>>

\* ... and violates its foreign key when the chunk is gone.
ForeignKeyFails(r) ==
  /\ \E m \in cited[r] \ inserted[r] : ChunkOf(r, m) \notin chunkRows
  /\ Goto(r, "flushing", "error")
  /\ inserted' = [inserted EXCEPT ![r] = {}]
  /\ UNCHANGED <<dbVars, asker, context, cited, eraseVars>>

CitationRows(r) == {[ask |-> r, marker |-> m, chunk |-> ChunkOf(r, m)] : m \in inserted[r]}

CommitAnswerEarly(r) ==
  /\ Goto(r, "flushing", "committed")
  /\ answers' = answers \cup {r}
  /\ citations' = citations \cup CitationRows(r)
  /\ audit' = audit \cup {<<"answer.generated", r>>}
  /\ inserted' = [inserted EXCEPT ![r] = {}]
  /\ UNCHANGED <<deleted, chunkRows, questions, asker, context, cited, eraseVars>>

CommitAnswerInOwnSession(r) ==
  /\ ConnectionFree
  /\ Goto(r, "flushing", "committed")
  /\ inserted[r] = cited[r]
  /\ answers' = answers \cup {r}
  /\ citations' = citations \cup CitationRows(r)
  /\ audit' = audit \cup {<<"answer.generated", r>>}
  /\ inserted' = [inserted EXCEPT ![r] = {}]
  /\ UNCHANGED <<deleted, chunkRows, questions, asker, context, cited, eraseVars>>

CommitAnswer(r) ==
  /\ Goto(r, "flushing", "committed")
  /\ inserted[r] = cited[r]
  /\ answers' = answers \cup {r}
  /\ citations' = citations \cup CitationRows(r)
  /\ audit' = audit \cup {<<"answer.generated", r>>}
  /\ inserted' = [inserted EXCEPT ![r] = {}]
  /\ UNCHANGED <<deleted, chunkRows, questions, asker, context, cited, eraseVars>>

\* refresh(answer) takes a connection again; then the response, 201.
Respond(r) ==
  /\ ConnectionFree
  /\ Goto(r, "committed", "answered")
  /\ UNCHANGED <<dbVars, asker, context, cited, inserted, eraseVars>>

\* A provider error (502), a database error or a crash: the open transaction
\* is rolled back.  A commit that took effect and was not acknowledged ends so
\* too, after SaveQuestion or CommitAnswer.
Fail(r) ==
  /\ r \in AskTx \/ pc[r] \in {"saved", "committed"}
  /\ pc' = [pc EXCEPT ![r] = IF @ = "opened" THEN "unsaved" ELSE "error"]
  /\ inserted' = [inserted EXCEPT ![r] = {}]
  /\ UNCHANGED <<dbVars, asker, context, cited, eraseVars, poolSize>>

-----------------------------------------------------------------------------
(* delete_document, as the rows it locks *)

\* get_document found it; UPDATE documents is flushed.
BeginErase(d) ==
  /\ ConnectionFree
  /\ erase[d] = "new"
  /\ erase' = [erase EXCEPT ![d] = "erasing"]
  /\ UNCHANGED <<dbVars, askVars, erased, poolSize>>

EraseChunk(d, c) ==
  /\ erase[d] = "erasing"
  /\ c \in ChunksOf(d) \ erased[d]
  /\ \A r \in AskTx : c \notin Shared(r)
  /\ erased' = [erased EXCEPT ![d] = @ \cup {c}]
  /\ UNCHANGED <<dbVars, askVars, erase>>

CommitEraseWithoutCascade(d) ==
  /\ erase[d] = "erasing"
  /\ erased[d] = ChunksOf(d)
  /\ erase' = [erase EXCEPT ![d] = "erased"]
  /\ deleted' = deleted \cup {d}
  /\ chunkRows' = chunkRows \ erased[d]
  /\ UNCHANGED <<citations, questions, answers, audit, askVars, erased>>

\* ON DELETE CASCADE takes the citations of the chunks along.
CommitErase(d) ==
  /\ erase[d] = "erasing"
  /\ erased[d] = ChunksOf(d)
  /\ erase' = [erase EXCEPT ![d] = "erased"]
  /\ deleted' = deleted \cup {d}
  /\ chunkRows' = chunkRows \ erased[d]
  /\ citations' = {k \in citations : k.chunk \notin erased[d]}
  /\ UNCHANGED <<questions, answers, audit, askVars, erased>>

EraseFails(d) ==
  /\ erase[d] = "erasing"
  /\ erase' = [erase EXCEPT ![d] = "failed"]
  /\ erased' = [erased EXCEPT ![d] = {}]
  /\ UNCHANGED <<dbVars, askVars, poolSize>>

-----------------------------------------------------------------------------
(* The deadlock detector *)

AskWaitsFor(r, d) == /\ pc[r] = "flushing"
                     /\ \E m \in cited[r] \ inserted[r] : ChunkOf(r, m) \in erased[d]
EraseWaitsFor(d, r) == ChunksOf(d) \cap Shared(r) # {}

\* Asks R and deletions D that all wait, in a ring, for one another.
Ring(R, D) ==
  /\ R # {}
  /\ \A r \in R : /\ \E d \in D : AskWaitsFor(r, d)
                  /\ \E d \in D : EraseWaitsFor(d, r)
  /\ \A d \in D : /\ \E r \in R : EraseWaitsFor(d, r)
                  /\ \E r \in R : AskWaitsFor(r, d)

AbortVictim ==
  \E R \in SUBSET AskTx, D \in SUBSET EraseTx :
    /\ Ring(R, D)
    /\ (\E r \in R : Fail(r)) \/ (\E d \in D : EraseFails(d))

Serve(r) ==
  /\ \/ SaveQuestion(r) \/ RefreshQuestion(r) \/ Retrieve(r) \/ Complete(r)
     \/ InsertAnswer(r) \/ (\E m \in cited[r] : InsertCitation(r, m))
     \/ ForeignKeyFails(r) \/ CommitAnswer(r) \/ Respond(r)
  /\ UNCHANGED poolSize

ServeErase(d) ==
  /\ (\E c \in Chunks : EraseChunk(d, c)) \/ CommitErase(d)
  /\ UNCHANGED poolSize

Next ==
  \/ \E r \in Asks : \/ \E u \in Users, mine \in BOOLEAN : OpenConversation(r, u, mine)
                     \/ Serve(r)
                     \/ Fail(r)
  \/ \E d \in Docs : BeginErase(d) \/ ServeErase(d) \/ EraseFails(d)
  \/ AbortVictim

Spec == Init /\ [][Next]_vars

\* Providers answer or time out, the database works, and its deadlock
\* detector runs after deadlock_timeout.
FairSpec == /\ Spec
            /\ \A r \in Asks : WF_vars(Serve(r))
            /\ \A d \in Docs : WF_vars(ServeErase(d))
            /\ WF_vars(AbortVictim)

-----------------------------------------------------------------------------
AskPcs == {"new", "opened", "saved", "refreshed", "retrieved", "replied", "flushing",
           "committed", "answered", "unanswered", "refused", "unsaved",
           "error"}
CitationRow == [ask : Asks, marker : 1..TopK, chunk : Chunks]

TypeOK ==
  /\ deleted \subseteq Docs /\ chunkRows \subseteq Chunks
  /\ questions \subseteq Asks /\ answers \subseteq Asks /\ citations \subseteq CitationRow
  /\ audit \subseteq {"question.asked", "answer.generated"} \X Asks
  /\ pc \in [Asks -> AskPcs]
  /\ asker \in [Asks -> Users \cup {"none"}]
  /\ context \in [Asks -> Seq(Chunks)] /\ \A r \in Asks : Len(context[r]) <= TopK
  /\ cited \in [Asks -> SUBSET (1..TopK)] /\ inserted \in [Asks -> SUBSET (1..TopK)]
  /\ erase \in [Docs -> {"new", "erasing", "erased", "failed"}]
  /\ erased \in [Docs -> SUBSET Chunks]
  /\ poolSize \in PoolSizes

\* A citation always leads to a stored chunk of a document that is not deleted
\* and belongs to the asker, though retrieval and the INSERT are many awaits
\* apart.
CitationsResolve ==
  \A k \in citations :
    /\ k.ask \in answers
    /\ k.chunk \in chunkRows
    /\ DocOf[k.chunk] \notin deleted
    /\ OwnerOf[DocOf[k.chunk]] = asker[k.ask]

\* An answer is saved with all the citations its text mentions; it loses one
\* only when the cited document is deleted.
AnswersKeepCitations ==
  \A r \in answers : \A m \in cited[r] :
    \/ [ask |-> r, marker |-> m, chunk |-> ChunkOf(r, m)] \in citations
    \/ DocOf[ChunkOf(r, m)] \in deleted

\* "saved before any LLM call can fail": however an ask ends that got as far as
\* its question's commit, in an answer, without one, or in an error of a model,
\* of the database or of a citation, its question and the audit event are there;
\* an asker who was given an answer has it in the history, one who was told
\* there is none does not, and an answer is there exactly if its audit event is.
QuestionsSurvive ==
  \A r \in Asks :
    /\ pc[r] \in AskPcs \ {"new", "opened", "refused", "unsaved"} => r \in questions
    /\ r \in questions <=> <<"question.asked", r>> \in audit
    /\ r \in answers <=> <<"answer.generated", r>> \in audit
    /\ pc[r] \in {"committed", "answered"} => r \in answers
    /\ r \in answers => pc[r] \in {"committed", "answered", "error"}

\* Given PostgreSQL's detector neither an ask nor a deletion waits for ever,
\* though each may hold chunks the other wants.  What the detector cannot see is
\* a ring through the connection pool: there is none because a request that asks
\* for a connection holds neither one nor a lock, so that the asks which have
\* all of the pool while their models think, end without another.
NobodyHangs ==
  /\ \A r \in Asks :
       pc[r] = "opened" ~> pc[r] \in {"answered", "unanswered", "unsaved", "error"}
  /\ \A d \in Docs : erase[d] = "erasing" ~> erase[d] \in {"erased", "failed"}
==============================================================================
