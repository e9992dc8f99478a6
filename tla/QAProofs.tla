------------------------------- MODULE QAProofs -------------------------------
(***************************************************************************)
(* Theorems about QA, for any users, documents, chunks and requests.  The   *)
(* chunks are retrieved long before they are cited and are locked one by    *)
(* one; Contexts says what is left of the retrieval, Locks what the shared  *)
(* locks are worth, Gone what a deletion leaves.                            *)
(***************************************************************************)
EXTENDS QA, SequenceTheorems, TLAPS

\* A request cites what it has retrieved, and that was the asker's.
Contexts ==
  \A r \in Asks :
    /\ \A m \in DOMAIN context[r] : OwnerOf[DocOf[ChunkOf(r, m)]] = asker[r]
    /\ inserted[r] \subseteq cited[r] /\ cited[r] \subseteq DOMAIN context[r]
    /\ inserted[r] # {} => pc[r] = "flushing"
    /\ pc[r] \in {"new", "opened", "saved", "refreshed"} => context[r] = <<>>

\* A citation that is not committed holds a chunk that no deletion has.
Locks ==
  \A r \in Asks : \A m \in inserted[r] :
    /\ ChunkOf(r, m) \in chunkRows
    /\ \A d \in EraseTx : ChunkOf(r, m) \notin erased[d]

\* No chunk is left of a deleted document.
Gone ==
  /\ \A c \in chunkRows : DocOf[c] \notin deleted
  /\ \A d \in Docs : erased[d] # {} => erase[d] \in {"erasing", "erased"}

IInv == TypeOK /\ Contexts /\ Locks /\ Gone /\ CitationsResolve /\ AnswersKeepCitations
        /\ QuestionsSurvive

-----------------------------------------------------------------------------
\* At the start nobody has asked and nothing is deleted.
LEMMA InitHolds == Init => IInv
<1> SUFFICES ASSUME Init PROVE IInv
  OBVIOUS
<1> USE DEF Init
<1>1. TypeOK
  <2>1. <<>> \in Seq(Chunks) /\ Len(<<>>) <= TopK
    BY BoundAssumption
  <2> QED  BY <2>1 DEF TypeOK, AskPcs
<1>2. Contexts /\ Locks /\ Gone /\ CitationsResolve /\ AnswersKeepCitations
  BY DEF Contexts, Locks, Gone, CitationsResolve, AnswersKeepCitations
<1>3. QuestionsSurvive
  BY DEF QuestionsSurvive
<1> QED  BY <1>1, <1>2, <1>3 DEF IInv

-----------------------------------------------------------------------------
(* One lemma per action. *)

\* A request that only begins has retrieved and stored nothing.
LEMMA OpenConversationKeeps ==
  ASSUME IInv, NEW r \in Asks, NEW u \in Users, NEW mine \in BOOLEAN, OpenConversation(r, u,
         mine)
  PROVE  IInv'
<1> USE OwnerAssumption, DocAssumption, BoundAssumption
    DEF IInv, OpenConversation, Goto, dbVars, askVars, eraseVars
<1>1. TypeOK'
  BY DEF TypeOK, AskPcs
<1>2. Contexts'
  BY DEF TypeOK, Contexts, ChunkOf
<1>3. Locks'
  BY DEF TypeOK, Contexts, Locks, ChunkOf, EraseTx
<1>4. Gone'
  BY DEF TypeOK, Gone, ChunksOf
<1>5. CitationsResolve'
  <2>1. \A k \in citations : k.ask \in Asks /\ k.ask # r
    BY DEF TypeOK, CitationRow, CitationsResolve, QuestionsSurvive
  <2> QED  BY <2>1 DEF TypeOK, CitationsResolve
<1>6. AnswersKeepCitations'
  BY DEF TypeOK, AnswersKeepCitations, Contexts, QuestionsSurvive, ChunkOf
<1>7. QuestionsSurvive'
  BY DEF TypeOK, AskPcs, QuestionsSurvive, Contexts
<1> QED  BY <1>1, <1>2, <1>3, <1>4, <1>5, <1>6, <1>7

\* The question and its event are written together.
LEMMA SaveQuestionKeeps ==
  ASSUME IInv, NEW r \in Asks, SaveQuestion(r), UNCHANGED poolSize
  PROVE  IInv'
<1> USE OwnerAssumption, DocAssumption, BoundAssumption
    DEF IInv, SaveQuestion, Goto, dbVars, askVars, eraseVars
<1>1. TypeOK'
  BY DEF TypeOK, AskPcs
<1>2. Contexts'
  BY DEF TypeOK, Contexts, ChunkOf
<1>3. Locks'
  BY DEF TypeOK, Contexts, Locks, ChunkOf, EraseTx
<1>4. Gone'
  BY DEF TypeOK, Gone, ChunksOf
<1>5. CitationsResolve'
  BY DEF TypeOK, CitationsResolve, Contexts, Gone, QuestionsSurvive, ChunkOf
<1>6. AnswersKeepCitations'
  BY DEF TypeOK, AnswersKeepCitations, Contexts, QuestionsSurvive, ChunkOf
<1>7. QuestionsSurvive'
  BY DEF TypeOK, AskPcs, QuestionsSurvive, Contexts
<1> QED  BY <1>1, <1>2, <1>3, <1>4, <1>5, <1>6, <1>7

\* The request holds a connection, but no chunk yet.
LEMMA RefreshQuestionKeeps ==
  ASSUME IInv, NEW r \in Asks, RefreshQuestion(r), UNCHANGED poolSize
  PROVE  IInv'
<1> USE OwnerAssumption, DocAssumption, BoundAssumption
    DEF IInv, RefreshQuestion, Goto, dbVars, askVars, eraseVars
<1>1. TypeOK'
  BY DEF TypeOK, AskPcs
<1>2. Contexts'
  BY DEF TypeOK, Contexts, ChunkOf
<1>3. Locks'
  BY DEF TypeOK, Contexts, Locks, ChunkOf, EraseTx
<1>4. Gone'
  BY DEF TypeOK, Gone, ChunksOf
<1>5. CitationsResolve'
  BY DEF TypeOK, CitationsResolve, Contexts, Gone, QuestionsSurvive, ChunkOf
<1>6. AnswersKeepCitations'
  BY DEF TypeOK, AnswersKeepCitations, Contexts, QuestionsSurvive, ChunkOf
<1>7. QuestionsSurvive'
  BY DEF TypeOK, AskPcs, QuestionsSurvive, Contexts
<1> QED  BY <1>1, <1>2, <1>3, <1>4, <1>5, <1>6, <1>7

\* What is retrieved belongs to the asker.
LEMMA RetrieveKeeps ==
  ASSUME IInv, NEW r \in Asks, Retrieve(r), UNCHANGED poolSize
  PROVE  IInv'
<1> USE OwnerAssumption, DocAssumption, BoundAssumption
    DEF IInv, Retrieve, Goto, dbVars, askVars, eraseVars
<1>a. PICK s \in Rankings(Retrievable(asker[r])) :
        /\ pc' = [pc EXCEPT ![r] = IF s = <<>> THEN "unanswered" ELSE "retrieved"]
        /\ context' = [context EXCEPT ![r] = s]
  OBVIOUS
<1>b. PICK n \in 0..TopK : s \in [1..n -> Retrievable(asker[r])]
  BY DEF Rankings
<1>c. s \in Seq(Chunks) /\ Len(s) <= TopK /\ DOMAIN s = 1..n
  <2>1. s \in [1..n -> Chunks]
    BY <1>b DEF Retrievable, TypeOK
  <2> QED  BY <1>b, <2>1
<1>d. \A m \in DOMAIN s : OwnerOf[DocOf[s[m]]] = asker[r]
  BY <1>b, <1>c DEF Retrievable
<1>e. r \notin answers /\ cited[r] = {} /\ inserted[r] = {}
  <2>1. DOMAIN context[r] = {}
    BY DEF Contexts
  <2>2. cited[r] \subseteq DOMAIN context[r] /\ inserted[r] \subseteq cited[r]
    BY DEF Contexts
  <2>3. r \notin answers
    BY DEF QuestionsSurvive
  <2> QED  BY <2>1, <2>2, <2>3
<1>1. TypeOK'
  BY <1>a, <1>c DEF TypeOK, AskPcs
<1>2. Contexts'
  <2>1. ASSUME NEW o \in Asks \ {r}
        PROVE  UNCHANGED <<pc[o], context[o], asker[o], cited[o], inserted[o]>>
    BY <1>a DEF TypeOK
  <2>2. /\ context'[r] = s /\ asker'[r] = asker[r]
        /\ cited'[r] = {} /\ inserted'[r] = {} /\ pc'[r] \in {"unanswered", "retrieved"}
    BY <1>a, <1>e DEF TypeOK
  <2>3. \A m \in DOMAIN context'[r] : OwnerOf[DocOf[ChunkOf(r, m)']] = asker'[r]
    BY <1>d, <2>2 DEF ChunkOf
  <2> QED  BY <2>1, <2>2, <2>3 DEF Contexts, ChunkOf
<1>3. Locks'
  BY DEF TypeOK, Contexts, Locks, ChunkOf, EraseTx
<1>4. Gone'
  BY DEF TypeOK, Gone, ChunksOf
<1>5. CitationsResolve'
  BY DEF TypeOK, CitationsResolve, Contexts, Gone, QuestionsSurvive, ChunkOf
<1>6. AnswersKeepCitations'
  <2>1. \A o \in answers : o \in Asks /\ context'[o] = context[o]
    BY <1>a, <1>e DEF TypeOK
  <2> QED  BY <2>1 DEF AnswersKeepCitations, ChunkOf
<1>7. QuestionsSurvive'
  <2>1. /\ \A o \in Asks \ {r} : pc'[o] = pc[o]
        /\ pc[r] = "refreshed" /\ pc'[r] \in {"unanswered", "retrieved"}
        /\ UNCHANGED <<questions, answers, audit>>
    BY <1>a DEF TypeOK
  <2>2. r \in questions
    BY <2>1 DEF QuestionsSurvive, AskPcs
  <2> QED  BY <1>e, <2>1, <2>2 DEF QuestionsSurvive
<1> QED  BY <1>1, <1>2, <1>3, <1>4, <1>5, <1>6, <1>7

\* The model chooses among the chunks of the context.
LEMMA CompleteKeeps ==
  ASSUME IInv, NEW r \in Asks, Complete(r), UNCHANGED poolSize
  PROVE  IInv'
<1> USE OwnerAssumption, DocAssumption, BoundAssumption
    DEF IInv, Complete, Goto, dbVars, askVars, eraseVars
<1>a. r \notin answers
  BY DEF QuestionsSurvive
<1>1. TypeOK'
  BY DEF TypeOK, AskPcs
<1>2. Contexts'
  BY DEF TypeOK, Contexts, ChunkOf
<1>3. Locks'
  BY DEF TypeOK, Contexts, Locks, ChunkOf, EraseTx
<1>4. Gone'
  BY DEF TypeOK, Gone, ChunksOf
<1>5. CitationsResolve'
  BY DEF TypeOK, CitationsResolve, Contexts, Gone, QuestionsSurvive, ChunkOf
<1>6. AnswersKeepCitations'
  <2>1. \A o \in answers : o \in Asks /\ cited'[o] = cited[o]
    BY <1>a DEF TypeOK
  <2> QED  BY <2>1 DEF AnswersKeepCitations, ChunkOf
<1>7. QuestionsSurvive'
  BY DEF TypeOK, AskPcs, QuestionsSurvive, Contexts
<1> QED  BY <1>1, <1>2, <1>3, <1>4, <1>5, <1>6, <1>7

\* From here on there are locks.
LEMMA InsertAnswerKeeps ==
  ASSUME IInv, NEW r \in Asks, InsertAnswer(r), UNCHANGED poolSize
  PROVE  IInv'
<1> USE OwnerAssumption, DocAssumption, BoundAssumption
    DEF IInv, InsertAnswer, Goto, dbVars, askVars, eraseVars
<1>1. TypeOK'
  BY DEF TypeOK, AskPcs
<1>2. Contexts'
  BY DEF TypeOK, Contexts, ChunkOf
<1>3. Locks'
  BY DEF TypeOK, Contexts, Locks, ChunkOf, EraseTx
<1>4. Gone'
  BY DEF TypeOK, Gone, ChunksOf
<1>5. CitationsResolve'
  BY DEF TypeOK, CitationsResolve, Contexts, Gone, QuestionsSurvive, ChunkOf
<1>6. AnswersKeepCitations'
  BY DEF TypeOK, AnswersKeepCitations, Contexts, QuestionsSurvive, ChunkOf
<1>7. QuestionsSurvive'
  BY DEF TypeOK, AskPcs, QuestionsSurvive, Contexts
<1> QED  BY <1>1, <1>2, <1>3, <1>4, <1>5, <1>6, <1>7

\* A shared lock is taken on a stored chunk that no deletion holds.
LEMMA InsertCitationKeeps ==
  ASSUME IInv, NEW r \in Asks, NEW m \in cited[r], InsertCitation(r, m), UNCHANGED poolSize
  PROVE  IInv'
<1> USE OwnerAssumption, DocAssumption, BoundAssumption
    DEF IInv, InsertCitation, Goto, dbVars, askVars, eraseVars
<1>1. TypeOK'
  BY DEF TypeOK, AskPcs
<1>2. Contexts'
  BY DEF TypeOK, Contexts, ChunkOf
<1>3. Locks'
  BY DEF TypeOK, Contexts, Locks, ChunkOf, EraseTx
<1>4. Gone'
  BY DEF TypeOK, Gone, ChunksOf
<1>5. CitationsResolve'
  BY DEF TypeOK, CitationsResolve, Contexts, Gone, QuestionsSurvive, ChunkOf
<1>6. AnswersKeepCitations'
  BY DEF TypeOK, AnswersKeepCitations, Contexts, QuestionsSurvive, ChunkOf
<1>7. QuestionsSurvive'
  BY DEF TypeOK, AskPcs, QuestionsSurvive, Contexts
<1> QED  BY <1>1, <1>2, <1>3, <1>4, <1>5, <1>6, <1>7

\* The rollback gives the locks up.
LEMMA ForeignKeyFailsKeeps ==
  ASSUME IInv, NEW r \in Asks, ForeignKeyFails(r), UNCHANGED poolSize
  PROVE  IInv'
<1> USE OwnerAssumption, DocAssumption, BoundAssumption
    DEF IInv, ForeignKeyFails, Goto, dbVars, askVars, eraseVars
<1>1. TypeOK'
  BY DEF TypeOK, AskPcs
<1>2. Contexts'
  BY DEF TypeOK, Contexts, ChunkOf
<1>3. Locks'
  BY DEF TypeOK, Contexts, Locks, ChunkOf, EraseTx
<1>4. Gone'
  BY DEF TypeOK, Gone, ChunksOf
<1>5. CitationsResolve'
  BY DEF TypeOK, CitationsResolve, Contexts, Gone, QuestionsSurvive, ChunkOf
<1>6. AnswersKeepCitations'
  BY DEF TypeOK, AnswersKeepCitations, Contexts, QuestionsSurvive, ChunkOf
<1>7. QuestionsSurvive'
  BY DEF TypeOK, AskPcs, QuestionsSurvive, Contexts
<1> QED  BY <1>1, <1>2, <1>3, <1>4, <1>5, <1>6, <1>7

\* All citations are there, and their chunks are locked until now.
LEMMA CommitAnswerKeeps ==
  ASSUME IInv, NEW r \in Asks, CommitAnswer(r), UNCHANGED poolSize
  PROVE  IInv'
<1> USE OwnerAssumption, DocAssumption, BoundAssumption
    DEF IInv, CommitAnswer, Goto, CitationRows, dbVars, askVars, eraseVars
<1>a. \A m \in cited[r] : /\ m \in 1..TopK /\ ChunkOf(r, m) \in chunkRows
                           /\ OwnerOf[DocOf[ChunkOf(r, m)]] = asker[r]
  BY DEF Contexts, Locks, TypeOK
<1>b. \A k \in CitationRows(r) : /\ k.ask = r /\ k.marker \in cited[r]
                                 /\ k.chunk = ChunkOf(r, k.marker) /\ k \in CitationRow
  BY <1>a DEF CitationRow, TypeOK
<1>1. TypeOK'
  BY <1>b DEF TypeOK, AskPcs
<1>2. Contexts'
  BY DEF TypeOK, Contexts, ChunkOf
<1>3. Locks'
  BY DEF TypeOK, Contexts, Locks, ChunkOf, EraseTx
<1>4. Gone'
  BY DEF TypeOK, Gone, ChunksOf
<1>5. CitationsResolve'
  BY <1>a, <1>b DEF CitationsResolve, Gone
<1>6. AnswersKeepCitations'
  BY DEF TypeOK, AnswersKeepCitations, Contexts, QuestionsSurvive, ChunkOf
<1>7. QuestionsSurvive'
  BY DEF TypeOK, AskPcs, QuestionsSurvive, Contexts
<1> QED  BY <1>1, <1>2, <1>3, <1>4, <1>5, <1>6, <1>7

\* The reply changes no row.
LEMMA RespondKeeps ==
  ASSUME IInv, NEW r \in Asks, Respond(r), UNCHANGED poolSize
  PROVE  IInv'
<1> USE OwnerAssumption, DocAssumption, BoundAssumption
    DEF IInv, Respond, Goto, dbVars, askVars, eraseVars
<1>1. TypeOK'
  BY DEF TypeOK, AskPcs
<1>2. Contexts'
  BY DEF TypeOK, Contexts, ChunkOf
<1>3. Locks'
  BY DEF TypeOK, Contexts, Locks, ChunkOf, EraseTx
<1>4. Gone'
  BY DEF TypeOK, Gone, ChunksOf
<1>5. CitationsResolve'
  BY DEF TypeOK, CitationsResolve, Contexts, Gone, QuestionsSurvive, ChunkOf
<1>6. AnswersKeepCitations'
  BY DEF TypeOK, AnswersKeepCitations, Contexts, QuestionsSurvive, ChunkOf
<1>7. QuestionsSurvive'
  BY DEF TypeOK, AskPcs, QuestionsSurvive, Contexts
<1> QED  BY <1>1, <1>2, <1>3, <1>4, <1>5, <1>6, <1>7

\* The rollback gives the locks up; the committed question stays.
LEMMA FailKeeps ==
  ASSUME IInv, NEW r \in Asks, Fail(r)
  PROVE  IInv'
<1> USE OwnerAssumption, DocAssumption, BoundAssumption
    DEF IInv, Fail, AskTx, dbVars, askVars, eraseVars
<1>1. TypeOK'
  BY DEF TypeOK, AskPcs
<1>2. Contexts'
  BY DEF TypeOK, Contexts, ChunkOf
<1>3. Locks'
  BY DEF TypeOK, Contexts, Locks, ChunkOf, EraseTx
<1>4. Gone'
  BY DEF TypeOK, Gone, ChunksOf
<1>5. CitationsResolve'
  BY DEF TypeOK, CitationsResolve, Contexts, Gone, QuestionsSurvive, ChunkOf
<1>6. AnswersKeepCitations'
  BY DEF TypeOK, AnswersKeepCitations, Contexts, QuestionsSurvive, ChunkOf
<1>7. QuestionsSurvive'
  BY DEF TypeOK, AskPcs, QuestionsSurvive, Contexts
<1> QED  BY <1>1, <1>2, <1>3, <1>4, <1>5, <1>6, <1>7

\* A deletion that only begins has deleted no chunk.
LEMMA BeginEraseKeeps ==
  ASSUME IInv, NEW d \in Docs, BeginErase(d)
  PROVE  IInv'
<1> USE OwnerAssumption, DocAssumption, BoundAssumption
    DEF IInv, BeginErase, dbVars, askVars, eraseVars
<1>1. TypeOK'
  BY DEF TypeOK, AskPcs
<1>2. Contexts'
  BY DEF TypeOK, Contexts, ChunkOf
<1>3. Locks'
  BY DEF TypeOK, Gone, Locks, ChunkOf, EraseTx
<1>4. Gone'
  BY DEF TypeOK, Gone, ChunksOf
<1>5. CitationsResolve'
  BY DEF TypeOK, CitationsResolve, Contexts, Gone, QuestionsSurvive, ChunkOf
<1>6. AnswersKeepCitations'
  BY DEF TypeOK, AnswersKeepCitations, Contexts, QuestionsSurvive, ChunkOf
<1>7. QuestionsSurvive'
  BY DEF TypeOK, AskPcs, QuestionsSurvive, Contexts
<1> QED  BY <1>1, <1>2, <1>3, <1>4, <1>5, <1>6, <1>7

\* An exclusive lock is granted on a chunk that no citation holds.
LEMMA EraseChunkKeeps ==
  ASSUME IInv, NEW d \in Docs, NEW c \in Chunks, EraseChunk(d, c), UNCHANGED poolSize
  PROVE  IInv'
<1> USE OwnerAssumption, DocAssumption, BoundAssumption
    DEF IInv, EraseChunk, dbVars, askVars, eraseVars
<1>1. TypeOK'
  BY DEF TypeOK, AskPcs
<1>2. Contexts'
  BY DEF TypeOK, Contexts, ChunkOf
<1>3. Locks'
  <2>1. \A r \in Asks : \A m \in inserted[r] : ChunkOf(r, m) # c
    BY DEF Contexts, AskTx, Shared
  <2> QED  BY <2>1 DEF TypeOK, Locks, ChunkOf, EraseTx
<1>4. Gone'
  BY DEF TypeOK, Gone, ChunksOf
<1>5. CitationsResolve'
  BY DEF TypeOK, CitationsResolve, Contexts, Gone, QuestionsSurvive, ChunkOf
<1>6. AnswersKeepCitations'
  BY DEF TypeOK, AnswersKeepCitations, Contexts, QuestionsSurvive, ChunkOf
<1>7. QuestionsSurvive'
  BY DEF TypeOK, AskPcs, QuestionsSurvive, Contexts
<1> QED  BY <1>1, <1>2, <1>3, <1>4, <1>5, <1>6, <1>7

\* The citations go with their chunks.
LEMMA CommitEraseKeeps ==
  ASSUME IInv, NEW d \in Docs, CommitErase(d), UNCHANGED poolSize
  PROVE  IInv'
<1> USE OwnerAssumption, DocAssumption, BoundAssumption
    DEF IInv, CommitErase, dbVars, askVars, eraseVars
<1>a. \A c \in chunkRows : c \in erased[d] <=> DocOf[c] = d
  BY DEF ChunksOf
<1>1. TypeOK'
  BY DEF TypeOK, AskPcs
<1>2. Contexts'
  BY DEF TypeOK, Contexts, ChunkOf
<1>3. Locks'
  BY DEF TypeOK, Contexts, Locks, ChunkOf, EraseTx
<1>4. Gone'
  BY DEF TypeOK, Gone, ChunksOf
<1>5. CitationsResolve'
  BY <1>a DEF TypeOK, CitationsResolve
<1>6. AnswersKeepCitations'
  <2>1. \A k \in citations : k.chunk \in chunkRows
    BY DEF CitationsResolve
  <2> QED  BY <1>a, <2>1 DEF AnswersKeepCitations, ChunkOf
<1>7. QuestionsSurvive'
  BY DEF TypeOK, AskPcs, QuestionsSurvive, Contexts
<1> QED  BY <1>1, <1>2, <1>3, <1>4, <1>5, <1>6, <1>7

\* The rollback gives the chunks back.
LEMMA EraseFailsKeeps ==
  ASSUME IInv, NEW d \in Docs, EraseFails(d)
  PROVE  IInv'
<1> USE OwnerAssumption, DocAssumption, BoundAssumption
    DEF IInv, EraseFails, dbVars, askVars, eraseVars
<1>1. TypeOK'
  BY DEF TypeOK, AskPcs
<1>2. Contexts'
  BY DEF TypeOK, Contexts, ChunkOf
<1>3. Locks'
  BY DEF TypeOK, Contexts, Locks, ChunkOf, EraseTx
<1>4. Gone'
  BY DEF TypeOK, Gone, ChunksOf
<1>5. CitationsResolve'
  BY DEF TypeOK, CitationsResolve, Contexts, Gone, QuestionsSurvive, ChunkOf
<1>6. AnswersKeepCitations'
  BY DEF TypeOK, AnswersKeepCitations, Contexts, QuestionsSurvive, ChunkOf
<1>7. QuestionsSurvive'
  BY DEF TypeOK, AskPcs, QuestionsSurvive, Contexts
<1> QED  BY <1>1, <1>2, <1>3, <1>4, <1>5, <1>6, <1>7

-----------------------------------------------------------------------------
\* Every step is one of those actions, or stutters.
LEMMA StepKeeps == IInv /\ [Next]_vars => IInv'
<1> SUFFICES ASSUME IInv, [Next]_vars PROVE IInv'
  OBVIOUS
<1>1. CASE UNCHANGED vars
  BY <1>1 DEF vars, dbVars, askVars, eraseVars, IInv, TypeOK, Contexts, Locks, Gone, ChunkOf,
       EraseTx, CitationsResolve, AnswersKeepCitations, QuestionsSurvive
<1>2. ASSUME NEW r \in Asks, NEW u \in Users, NEW mine \in BOOLEAN, OpenConversation(r, u, mine)
      PROVE  IInv'
  BY <1>2, OpenConversationKeeps
<1>3. ASSUME NEW r \in Asks, Serve(r) \/ Fail(r)
      PROVE  IInv'
  BY <1>3, SaveQuestionKeeps, RefreshQuestionKeeps, RetrieveKeeps, CompleteKeeps,
     InsertAnswerKeeps, InsertCitationKeeps, ForeignKeyFailsKeeps, CommitAnswerKeeps,
     RespondKeeps, FailKeeps DEF Serve
<1>4. ASSUME NEW d \in Docs, BeginErase(d) \/ ServeErase(d) \/ EraseFails(d)
      PROVE  IInv'
  BY <1>4, BeginEraseKeeps, EraseChunkKeeps, CommitEraseKeeps, EraseFailsKeeps DEF ServeErase
<1>5. CASE AbortVictim
  BY <1>3, <1>4, <1>5 DEF AbortVictim, AskTx, EraseTx
<1> QED  BY <1>1, <1>2, <1>3, <1>4, <1>5 DEF Next

\* The invariant holds in every reachable state.
THEOREM InvariantHolds == Spec => []IInv
BY InitHolds, StepKeeps, PTL DEF Spec

\* Every reachable state is of the type that TypeOK gives.
THEOREM TypeCorrect == Spec => []TypeOK
<1>1. IInv => TypeOK
  BY DEF IInv
<1> QED  BY <1>1, InvariantHolds, PTL

\* A citation leads to a stored chunk of the asker, however asks and deletions
\* overlap, fail or are aborted by the deadlock detector.
THEOREM CitationsAlwaysResolve == Spec => []CitationsResolve
<1>1. IInv => CitationsResolve
  BY DEF IInv
<1> QED  BY <1>1, InvariantHolds, PTL

\* An answer has all the citations of its text that no deletion took along.
THEOREM AnswersStayCited == Spec => []AnswersKeepCitations
<1>1. IInv => AnswersKeepCitations
  BY DEF IInv
<1> QED  BY <1>1, InvariantHolds, PTL

\* Whatever becomes of the models' calls, the question is in the history and in
\* the audit trail, and an answer in both or neither.
THEOREM QuestionsAreKept == Spec => []QuestionsSurvive
<1>1. IInv => QuestionsSurvive
  BY DEF IInv
<1> QED  BY <1>1, InvariantHolds, PTL
=============================================================================
