--------------------------- MODULE DocumentsProofs ---------------------------
(***************************************************************************)
(* Theorems about Documents, for any owners, documents, quota, pool and      *)
(* faults.  Three processes write one row: Uploads says what an upload has  *)
(* done when it is where it is, Tasks the same of a background task, and    *)
(* Targets that a deletion has a document.  The quota is a sum: what an     *)
(* owner has and what the owner's running uploads may add.  That the rows go *)
(* through the lifecycle of DocumentLifecycle rests on their locks.          *)
(***************************************************************************)
EXTENDS Documents, FiniteSetTheorems, TLAPS

\* The row comes with the commit, and the file before it.
Uploads ==
  \A d \in Docs :
    /\ upload[d] \in {"admitted", "stored"} => uploader[d] \in Owners
    /\ upload[d] \in {"new", "admitted", "stored", "refused"} => ~Exists(d)
    /\ upload[d] \in {"stored", "committed", "accepted"} => file[d]
    /\ upload[d] # "accepted" => task[d] = "none"

\* A task has the document in the status that its place in the code says.
Tasks ==
  \A d \in Docs :
    /\ task[d] \in {"none", "queued", "fetched"} => status[d] = "uploaded"
    /\ task[d] \in {"parsing", "embedded", "locked", "failing"} => status[d] = "processing"
    /\ task[d] = "misled" => status[d] = "ready"

\* A deletion that found a document has one.
Targets == \A q \in Deletes : del[q] \in {"found", "locked", "emptied"} => target[q] \in Docs

Uploading(o) == {d \in UploadTx : uploader[d] = o}

IInv == TypeOK /\ Uploads /\ Tasks /\ Targets /\ AuditMatchesDocuments /\ ChunksOnlyWhenReady
        /\ FilesMatchRows /\ QuotaOvershootBounded

-----------------------------------------------------------------------------
\* At the start there is no document.
LEMMA InitHolds == Init => IInv
<1> SUFFICES ASSUME Init PROVE IInv
  OBVIOUS
<1> USE OwnersAssumption, QuotaAssumption, PoolSizesAssumption DEF Init, Exists
<1>1. TypeOK
  BY DEF TypeOK, DocStatus, UploadPcs, TaskPcs, DeletePcs
<1>2. Uploads /\ Tasks /\ Targets /\ AuditMatchesDocuments /\ ChunksOnlyWhenReady
      /\ FilesMatchRows
  BY DEF Uploads, Tasks, Targets, AuditMatchesDocuments, ChunksOnlyWhenReady, FilesMatchRows
<1>3. QuotaOvershootBounded
  <2>1. \A o \in Owners : Active(o) = {} /\ {d \in UploadTx : uploader[d] = o} = {}
    BY DEF Active, UploadTx
  <2>2. Cardinality({}) = 0 /\ poolSize \in Nat \ {0} /\ Quota \in Nat \ {0}
    BY FS_EmptySet
  <2>3. 0 + 0 <= Quota - 1 + poolSize
    BY ONLY <2>2
  <2> SUFFICES ASSUME NEW o \in Owners
               PROVE  Cardinality(Active(o)) + Cardinality({d \in UploadTx : uploader[d] = o})
                        <= Quota - 1 + poolSize
    BY DEF QuotaOvershootBounded
  <2>4. Active(o) = {} /\ {d \in UploadTx : uploader[d] = o} = {}
    BY <2>1
  <2> QED  BY ONLY <2>2, <2>3, <2>4
<1> QED  BY <1>1, <1>2, <1>3 DEF IInv

-----------------------------------------------------------------------------
(* The quota *)

\* A transaction is of one of finitely many requests.
LEMMA Finite ==
  /\ IsFiniteSet(UploadTx) /\ IsFiniteSet(TaskTx) /\ IsFiniteSet(DeleteTx)
  /\ \A o : IsFiniteSet(Active(o)) /\ IsFiniteSet(Uploading(o))
BY RequestsAssumption, FS_Subset DEF UploadTx, TaskTx, DeleteTx, Active, Uploading

\* One more element is at most one more.
LEMMA OneMore ==
  ASSUME NEW S, IsFiniteSet(S), NEW x
  PROVE  IsFiniteSet(S \cup {x}) /\ Cardinality(S \cup {x}) <= Cardinality(S) + 1
<1>1. Cardinality(S) \in Nat
  BY FS_CardinalityType
<1>2. /\ IsFiniteSet(S \cup {x})
      /\ Cardinality(S \cup {x}) = IF x \in S THEN Cardinality(S) ELSE Cardinality(S) + 1
  BY FS_AddElement
<1> QED  BY <1>1, <1>2

\* What neither adds a document nor an upload keeps the sum.
LEMMA FewerKeepQuota ==
  ASSUME QuotaOvershootBounded, poolSize \in PoolSizes, UNCHANGED poolSize,
         \A o \in Owners : Active(o)' \subseteq Active(o) /\ Uploading(o)' \subseteq Uploading(o)
  PROVE  QuotaOvershootBounded'
<1> SUFFICES ASSUME NEW o \in Owners
             PROVE  Cardinality(Active(o)') + Cardinality(Uploading(o)') <= Quota - 1 + poolSize
  BY DEF QuotaOvershootBounded, Uploading
<1>1. /\ Cardinality(Active(o)) + Cardinality(Uploading(o)) <= Quota - 1 + poolSize
      /\ poolSize \in Nat /\ Quota \in Nat
  BY QuotaAssumption, PoolSizesAssumption DEF QuotaOvershootBounded, Uploading
<1>2. /\ Cardinality(Active(o)) \in Nat /\ Cardinality(Active(o)') \in Nat
      /\ Cardinality(Active(o)') <= Cardinality(Active(o))
  BY Finite, FS_Subset, FS_CardinalityType
<1>3. /\ Cardinality(Uploading(o)) \in Nat /\ Cardinality(Uploading(o)') \in Nat
      /\ Cardinality(Uploading(o)') <= Cardinality(Uploading(o))
  BY Finite, FS_Subset, FS_CardinalityType
<1> QED  BY <1>1, <1>2, <1>3

\* An admitted upload finds its owner under quota, and with it there are no
\* more uploads than connections.
LEMMA AdmissionKeepsQuota ==
  ASSUME IInv, NEW d \in Docs, NEW o \in Owners, CountActive(d, o)
  PROVE  QuotaOvershootBounded'
<1> USE DEF IInv, TypeOK, CountActive, UploadStep, dbVars
<1>1. \A p \in Owners : Active(p)' = Active(p)
  BY DEF Active
<1>2. \A p \in Owners \ {o} : Uploading(p)' \subseteq Uploading(p)
  BY DEF Uploading, UploadTx
<1>3. CASE ~UnderQuota(o)
  <2>1. Uploading(o)' \subseteq Uploading(o)
    BY <1>3 DEF Uploading, UploadTx
  <2> QED  BY <1>1, <1>2, <2>1, FewerKeepQuota
<1>4. CASE UnderQuota(o)
  <2>1. poolSize \in Nat /\ Quota \in Nat \ {0}
    BY QuotaAssumption, PoolSizesAssumption
  <2>2. Uploading(o)' \subseteq UploadTx \cup {d}
    BY DEF Uploading, UploadTx
  <2>3. /\ IsFiniteSet(UploadTx \cup {d})
        /\ Cardinality(UploadTx \cup {d}) <= Cardinality(UploadTx) + 1
    BY Finite, OneMore
  <2>4. /\ Cardinality(Uploading(o)') \in Nat
        /\ Cardinality(Uploading(o)') <= Cardinality(UploadTx \cup {d})
    BY <2>2, <2>3, FS_Subset, FS_CardinalityType
  <2>5. Cardinality(UploadTx) < poolSize
    <3>1. /\ Cardinality(UploadTx) \in Nat /\ Cardinality(TaskTx) \in Nat
          /\ Cardinality(DeleteTx) \in Nat
      BY Finite, FS_CardinalityType
    <3> QED  BY <2>1, <3>1 DEF ConnectionFree
  <2>6. Cardinality(Active(o)) \in Nat /\ Cardinality(Active(o)) <= Quota - 1
    BY <1>4, <2>1, Finite, FS_CardinalityType DEF UnderQuota
  <2>7. Cardinality(UploadTx) \in Nat /\ Cardinality(UploadTx \cup {d}) \in Nat
    BY <2>3, Finite, FS_CardinalityType
  <2>8. Cardinality(Active(o)') + Cardinality(Uploading(o)') <= Quota - 1 + poolSize
    BY <1>1, <2>1, <2>3, <2>4, <2>5, <2>6, <2>7
  <2>9. ASSUME NEW p \in Owners \ {o}
        PROVE  Cardinality(Active(p)') + Cardinality(Uploading(p)') <= Quota - 1 + poolSize
    <3>1. Cardinality(Active(p)) + Cardinality(Uploading(p)) <= Quota - 1 + poolSize
      BY DEF QuotaOvershootBounded, Uploading
    <3>2. /\ Cardinality(Uploading(p)) \in Nat /\ Cardinality(Uploading(p)') \in Nat
          /\ Cardinality(Uploading(p)') <= Cardinality(Uploading(p))
      BY <1>2, Finite, FS_Subset, FS_CardinalityType
    <3>3. Cardinality(Active(p)) \in Nat
      BY Finite, FS_CardinalityType
    <3> QED  BY <1>1, <2>1, <3>1, <3>2, <3>3
  <2> QED  BY <2>8, <2>9 DEF QuotaOvershootBounded, Uploading
<1> QED  BY <1>3, <1>4

\* A commit turns a running upload into a document.
LEMMA CommitKeepsQuota ==
  ASSUME IInv, NEW d \in Docs, upload[d] = "stored", InsertRow(d),
         \E to \in {"committed", "error", "io_error"} : upload' = [upload EXCEPT ![d] = to],
         UNCHANGED <<uploader, poolSize>>
  PROVE  QuotaOvershootBounded'
<1> USE DEF IInv, TypeOK, InsertRow
<1> SUFFICES ASSUME NEW o \in Owners
             PROVE  Cardinality(Active(o)') + Cardinality(Uploading(o)') <= Quota - 1 + poolSize
  BY DEF QuotaOvershootBounded, Uploading
<1>2. /\ Cardinality(Active(o)) + Cardinality(Uploading(o)) <= Quota - 1 + poolSize
      /\ poolSize \in Nat /\ Quota \in Nat
  BY QuotaAssumption, PoolSizesAssumption DEF QuotaOvershootBounded, Uploading
<1>1. Cardinality(Active(o)) \in Nat /\ Cardinality(Uploading(o)) \in Nat
  BY Finite, FS_CardinalityType
<1>3. CASE o = uploader[d]
  <2>1. Uploading(o)' = Uploading(o) \ {d} /\ d \in Uploading(o)
    BY <1>3 DEF Uploading, UploadTx
  <2>2. Cardinality(Uploading(o)') = Cardinality(Uploading(o)) - 1
    BY <2>1, Finite, FS_RemoveElement
  <2>3. Active(o)' \subseteq Active(o) \cup {d}
    BY DEF Active
  <2>4. /\ IsFiniteSet(Active(o) \cup {d})
        /\ Cardinality(Active(o) \cup {d}) <= Cardinality(Active(o)) + 1
        /\ Cardinality(Active(o) \cup {d}) \in Nat
    BY Finite, OneMore, FS_CardinalityType
  <2>5. /\ Cardinality(Active(o)') <= Cardinality(Active(o) \cup {d})
        /\ Cardinality(Active(o)') \in Nat
    BY <2>3, <2>4, FS_Subset, FS_CardinalityType
  <2> QED  BY <1>1, <1>2, <2>2, <2>4, <2>5
<1>4. CASE o # uploader[d]
  <2>1. Uploading(o)' = Uploading(o)
    BY <1>4 DEF Uploading, UploadTx
  <2>2. Active(o)' \subseteq Active(o)
    BY <1>4 DEF Active
  <2>3. Cardinality(Active(o)') <= Cardinality(Active(o)) /\ Cardinality(Active(o)') \in Nat
    BY <2>2, Finite, FS_Subset, FS_CardinalityType
  <2> QED  BY <1>1, <1>2, <2>1, <2>3
<1> QED  BY <1>3, <1>4

-----------------------------------------------------------------------------
(* One lemma per action, or per group of actions of one kind. *)

\* At the quota check nothing is written yet.
LEMMA CountKeeps ==
  ASSUME IInv, NEW d \in Docs, NEW o \in Owners, UNCHANGED poolSize,
         CountActive(d, o)
  PROVE  IInv'
<1> USE OwnersAssumption, MaxChunksAssumption
    DEF IInv, CountActive, UploadStep, dbVars, uploadVars, taskVars, delVars
<1>1. TypeOK'
  BY DEF TypeOK, DocStatus, UploadPcs, TaskPcs, DeletePcs, Actions
<1>2. Uploads'
  BY DEF TypeOK, Uploads, Exists
<1>3. Tasks'
  BY DEF TypeOK, Uploads, Tasks
<1>4. Targets'
  BY DEF TypeOK, Targets
<1>5. AuditMatchesDocuments'
  BY DEF TypeOK, Uploads, Tasks, Targets, AuditMatchesDocuments, Exists
<1>6. ChunksOnlyWhenReady'
  BY DEF TypeOK, Uploads, Tasks, Targets, ChunksOnlyWhenReady
<1>7. FilesMatchRows'
  BY DEF TypeOK, Uploads, FilesMatchRows, Exists
<1>8. QuotaOvershootBounded'
  BY AdmissionKeepsQuota
<1> QED  BY <1>1, <1>2, <1>3, <1>4, <1>5, <1>6, <1>7, <1>8

\* Between the check and the commit, and when the write or the refresh fails.
LEMMA StoreKeeps ==
  ASSUME IInv, NEW d \in Docs, UNCHANGED poolSize,
         \/ RejectContent(d) \/ RefreshFails(d) \/ StoreFile(d)
         \/ StoreFileFails(d)
  PROVE  IInv'
<1> USE OwnersAssumption, MaxChunksAssumption
    DEF IInv, RejectContent, RefreshFails, StoreFile, StoreFileFails, UploadStep, dbVars,
        uploadVars, taskVars, delVars
<1>1. TypeOK'
  <2>1. /\ \E to \in UploadPcs : upload' = [upload EXCEPT ![d] = to]
        /\ file' \in [Docs -> BOOLEAN]
    BY DEF TypeOK, UploadPcs
  <2>2. UNCHANGED <<dbVars, uploader, taskVars, delVars>>
    OBVIOUS
  <2>3. upload' \in [Docs -> UploadPcs]
    BY <2>1 DEF TypeOK
  <2> QED  BY <2>1, <2>2, <2>3 DEF TypeOK
<1>2. Uploads'
  BY DEF TypeOK, Uploads, Exists
<1>3. Tasks'
  BY DEF TypeOK, Uploads, Tasks
<1>4. Targets'
  BY DEF TypeOK, Targets
<1>5. AuditMatchesDocuments'
  <2>1. UNCHANGED dbVars
    OBVIOUS
  <2> QED  BY <2>1 DEF AuditMatchesDocuments, Exists
<1>6. ChunksOnlyWhenReady'
  BY DEF TypeOK, Uploads, Tasks, Targets, ChunksOnlyWhenReady
<1>7. FilesMatchRows'
  BY DEF TypeOK, Uploads, FilesMatchRows, Exists
<1>8. QuotaOvershootBounded'
  BY FewerKeepQuota DEF TypeOK, Active, Uploading, UploadTx
<1> QED  BY <1>1, <1>2, <1>3, <1>4, <1>5, <1>6, <1>7, <1>8

\* The row and its event are written together, acknowledged or not.
LEMMA InsertKeeps ==
  ASSUME IInv, NEW d \in Docs, UNCHANGED poolSize,
         CommitUpload(d) \/ CommitUploadUnacknowledged(d)
  PROVE  IInv'
<1> USE OwnersAssumption, MaxChunksAssumption
    DEF IInv, CommitUpload, CommitUploadUnacknowledged, InsertRow, UploadStep, dbVars,
        uploadVars, taskVars, delVars
<1>1. TypeOK'
  <2>1. /\ \E to \in UploadPcs : upload' = [upload EXCEPT ![d] = to]
        /\ file' \in [Docs -> BOOLEAN]
    BY DEF TypeOK, UploadPcs
  <2>2. InsertRow(d) /\ uploader[d] \in Owners /\ UNCHANGED <<uploader, taskVars, delVars>>
    BY DEF Uploads
  <2> QED  BY <2>1, <2>2 DEF TypeOK, Actions
<1>2. Uploads'
  BY DEF TypeOK, Uploads, Exists
<1>3. Tasks'
  BY DEF TypeOK, Uploads, Tasks
<1>4. Targets'
  BY DEF TypeOK, Targets
<1>5. AuditMatchesDocuments'
  <2>1. InsertRow(d) /\ uploader[d] \in Owners /\ ~Exists(d)
    BY DEF Uploads
  <2> QED  BY <2>1 DEF TypeOK, AuditMatchesDocuments, Exists
<1>6. ChunksOnlyWhenReady'
  BY DEF TypeOK, Uploads, Tasks, Targets, ChunksOnlyWhenReady
<1>7. FilesMatchRows'
  BY DEF TypeOK, Uploads, FilesMatchRows, Exists
<1>8. QuotaOvershootBounded'
  BY CommitKeepsQuota
<1> QED  BY <1>1, <1>2, <1>3, <1>4, <1>5, <1>6, <1>7, <1>8

\* The file goes with the upload that wrote no row.
LEMMA UnlinkKeeps ==
  ASSUME IInv, NEW d \in Docs, UNCHANGED poolSize,
         CommitUploadFails(d)
  PROVE  IInv'
<1> USE OwnersAssumption, MaxChunksAssumption
    DEF IInv, CommitUploadFails, UploadStep, dbVars, uploadVars, taskVars, delVars
<1>1. TypeOK'
  BY DEF TypeOK, DocStatus, UploadPcs, TaskPcs, DeletePcs, Actions
<1>2. Uploads'
  BY DEF TypeOK, Uploads, Exists
<1>3. Tasks'
  BY DEF TypeOK, Uploads, Tasks
<1>4. Targets'
  BY DEF TypeOK, Targets
<1>5. AuditMatchesDocuments'
  BY DEF TypeOK, Uploads, Tasks, Targets, AuditMatchesDocuments, Exists
<1>6. ChunksOnlyWhenReady'
  BY DEF TypeOK, Uploads, Tasks, Targets, ChunksOnlyWhenReady
<1>7. FilesMatchRows'
  BY DEF TypeOK, Uploads, FilesMatchRows, Exists
<1>8. QuotaOvershootBounded'
  BY FewerKeepQuota DEF TypeOK, Active, Uploading, UploadTx
<1> QED  BY <1>1, <1>2, <1>3, <1>4, <1>5, <1>6, <1>7, <1>8

\* The file stays, with its row or without it.
LEMMA UnlinkFailsKeeps ==
  ASSUME IInv, NEW d \in Docs, UNCHANGED poolSize,
         UnlinkFails(d)
  PROVE  IInv'
<1> USE OwnersAssumption, MaxChunksAssumption
    DEF IInv, UnlinkFails, InsertRow, UploadStep, dbVars, uploadVars, taskVars, delVars
<1>a. /\ upload[d] = "stored" /\ uploader[d] \in Owners /\ ~Exists(d)
      /\ upload' = [upload EXCEPT ![d] = "io_error"]
      /\ UNCHANGED <<file, uploader, taskVars, delVars>>
      /\ UNCHANGED dbVars \/ InsertRow(d)
  BY DEF Uploads
<1>1. TypeOK'
  <2>1. "io_error" \in UploadPcs /\ <<"document.uploaded", d>> \in Actions \X Docs
    BY DEF UploadPcs, Actions
  <2> QED  BY <1>a, <2>1 DEF TypeOK
<1>2. Uploads'
  BY DEF TypeOK, Uploads, Exists
<1>3. Tasks'
  BY DEF TypeOK, Uploads, Tasks
<1>4. Targets'
  BY DEF TypeOK, Targets
<1>5. AuditMatchesDocuments'
  <2>1. CASE UNCHANGED dbVars
    BY <2>1 DEF AuditMatchesDocuments, Exists
  <2>2. CASE InsertRow(d)
    BY <1>a, <2>2 DEF TypeOK, AuditMatchesDocuments, Exists
  <2> QED  BY <1>a, <2>1, <2>2
<1>6. ChunksOnlyWhenReady'
  BY DEF TypeOK, Uploads, Tasks, Targets, ChunksOnlyWhenReady
<1>7. FilesMatchRows'
  BY DEF TypeOK, Uploads, FilesMatchRows, Exists
<1>8. QuotaOvershootBounded'
  <2>1. CASE UNCHANGED dbVars
    BY <2>1, FewerKeepQuota DEF TypeOK, Active, Uploading, UploadTx
  <2>2. CASE InsertRow(d)
    BY <1>a, <2>2, CommitKeepsQuota
  <2> QED  BY <1>a, <2>1, <2>2
<1> QED  BY <1>1, <1>2, <1>3, <1>4, <1>5, <1>6, <1>7, <1>8

\* Only now the document has a task.
LEMMA AcceptKeeps ==
  ASSUME IInv, NEW d \in Docs, UNCHANGED poolSize,
         AcceptUpload(d)
  PROVE  IInv'
<1> USE OwnersAssumption, MaxChunksAssumption
    DEF IInv, AcceptUpload, UploadStep, dbVars, uploadVars, taskVars, delVars
<1>1. TypeOK'
  BY DEF TypeOK, DocStatus, UploadPcs, TaskPcs, DeletePcs, Actions
<1>2. Uploads'
  BY DEF TypeOK, Uploads, Exists
<1>3. Tasks'
  BY DEF TypeOK, Uploads, Tasks
<1>4. Targets'
  BY DEF TypeOK, Targets
<1>5. AuditMatchesDocuments'
  BY DEF TypeOK, Uploads, Tasks, Targets, AuditMatchesDocuments, Exists
<1>6. ChunksOnlyWhenReady'
  BY DEF TypeOK, Uploads, Tasks, Targets, ChunksOnlyWhenReady
<1>7. FilesMatchRows'
  BY DEF TypeOK, Uploads, FilesMatchRows, Exists
<1>8. QuotaOvershootBounded'
  BY FewerKeepQuota DEF TypeOK, Active, Uploading, UploadTx
<1> QED  BY <1>1, <1>2, <1>3, <1>4, <1>5, <1>6, <1>7, <1>8

\* What a task does without writing.
LEMMA LocalKeeps ==
  ASSUME IInv, NEW d \in Docs, UNCHANGED poolSize,
         \/ FetchDocument(d) \/ MarkProcessingFails(d) \/ EmbedFails(d)
         \/ StageReady(d) \/ CommitReadyFails(d) \/ MarkFailedFails(d)
  PROVE  IInv'
<1> USE OwnersAssumption, MaxChunksAssumption
    DEF IInv, FetchDocument, MarkProcessingFails, EmbedFails, StageReady, CommitReadyFails,
        MarkFailedFails, TaskStep, dbVars, uploadVars, taskVars, delVars
<1>1. TypeOK'
  BY DEF TypeOK, DocStatus, UploadPcs, TaskPcs, DeletePcs, Actions
<1>2. Uploads'
  BY DEF TypeOK, Uploads, Exists
<1>3. Tasks'
  BY DEF TypeOK, Uploads, Tasks
<1>4. Targets'
  BY DEF TypeOK, Targets
<1>5. AuditMatchesDocuments'
  <2>1. UNCHANGED dbVars
    OBVIOUS
  <2> QED  BY <2>1 DEF AuditMatchesDocuments, Exists
<1>6. ChunksOnlyWhenReady'
  BY DEF TypeOK, Uploads, Tasks, Targets, ChunksOnlyWhenReady
<1>7. FilesMatchRows'
  BY DEF TypeOK, Uploads, FilesMatchRows, Exists
<1>8. QuotaOvershootBounded'
  BY FewerKeepQuota DEF TypeOK, Active, Uploading, UploadTx
<1> QED  BY <1>1, <1>2, <1>3, <1>4, <1>5, <1>6, <1>7, <1>8

\* The chunks of the text, in memory.
LEMMA EmbedKeeps ==
  ASSUME IInv, NEW d \in Docs, NEW n \in 0..MaxChunks, UNCHANGED poolSize,
         Embed(d, n)
  PROVE  IInv'
<1> USE OwnersAssumption, MaxChunksAssumption
    DEF IInv, Embed, TaskStep, dbVars, uploadVars, taskVars, delVars
<1>1. TypeOK'
  BY DEF TypeOK, DocStatus, UploadPcs, TaskPcs, DeletePcs, Actions
<1>2. Uploads'
  BY DEF TypeOK, Uploads, Exists
<1>3. Tasks'
  BY DEF TypeOK, Uploads, Tasks
<1>4. Targets'
  BY DEF TypeOK, Targets
<1>5. AuditMatchesDocuments'
  BY DEF TypeOK, Uploads, Tasks, Targets, AuditMatchesDocuments, Exists
<1>6. ChunksOnlyWhenReady'
  BY DEF TypeOK, Uploads, Tasks, Targets, ChunksOnlyWhenReady
<1>7. FilesMatchRows'
  BY DEF TypeOK, Uploads, FilesMatchRows, Exists
<1>8. QuotaOvershootBounded'
  BY FewerKeepQuota DEF TypeOK, Active, Uploading, UploadTx
<1> QED  BY <1>1, <1>2, <1>3, <1>4, <1>5, <1>6, <1>7, <1>8

\* Only a task that fetched the document marks it as being processed.
LEMMA ProcessKeeps ==
  ASSUME IInv, NEW d \in Docs, UNCHANGED poolSize,
         MarkProcessing(d)
  PROVE  IInv'
<1> USE OwnersAssumption, MaxChunksAssumption
    DEF IInv, MarkProcessing, TaskStep, dbVars, uploadVars, taskVars, delVars
<1>1. TypeOK'
  BY DEF TypeOK, DocStatus, UploadPcs, TaskPcs, DeletePcs, Actions
<1>2. Uploads'
  BY DEF TypeOK, Uploads, Exists
<1>3. Tasks'
  BY DEF TypeOK, Uploads, Tasks
<1>4. Targets'
  BY DEF TypeOK, Targets
<1>5. AuditMatchesDocuments'
  BY DEF TypeOK, Uploads, Tasks, Targets, AuditMatchesDocuments, Exists
<1>6. ChunksOnlyWhenReady'
  BY DEF TypeOK, Uploads, Tasks, Targets, ChunksOnlyWhenReady
<1>7. FilesMatchRows'
  BY DEF TypeOK, Uploads, FilesMatchRows, Exists
<1>8. QuotaOvershootBounded'
  BY FewerKeepQuota DEF TypeOK, Active, Uploading, UploadTx
<1> QED  BY <1>1, <1>2, <1>3, <1>4, <1>5, <1>6, <1>7, <1>8

\* Status and chunks are written together, acknowledged or not.
LEMMA ReadyKeeps ==
  ASSUME IInv, NEW d \in Docs, UNCHANGED poolSize,
         CommitReady(d) \/ CommitReadyUnacknowledged(d)
  PROVE  IInv'
<1> USE OwnersAssumption, MaxChunksAssumption
    DEF IInv, CommitReady, CommitReadyUnacknowledged, WriteReady, TaskStep, dbVars,
        uploadVars, taskVars, delVars
<1>1. TypeOK'
  BY DEF TypeOK, DocStatus, UploadPcs, TaskPcs, DeletePcs, Actions
<1>2. Uploads'
  BY DEF TypeOK, Uploads, Exists
<1>3. Tasks'
  BY DEF TypeOK, Uploads, Tasks
<1>4. Targets'
  BY DEF TypeOK, Targets
<1>5. AuditMatchesDocuments'
  <2>1. WriteReady(d) /\ status[d] = "processing"
    BY DEF Tasks
  <2> QED  BY <2>1 DEF TypeOK, AuditMatchesDocuments, Exists
<1>6. ChunksOnlyWhenReady'
  <2>1. WriteReady(d) /\ chunks[d] = {} /\ parsed' = parsed
    BY DEF Tasks, ChunksOnlyWhenReady
  <2>2. \E to \in {"done", "misled"} : task' = [task EXCEPT ![d] = to]
    OBVIOUS
  <2> QED  BY <2>1, <2>2 DEF TypeOK, ChunksOnlyWhenReady
<1>7. FilesMatchRows'
  BY DEF TypeOK, Uploads, FilesMatchRows, Exists
<1>8. QuotaOvershootBounded'
  BY FewerKeepQuota DEF TypeOK, Active, Uploading, UploadTx
<1> QED  BY <1>1, <1>2, <1>3, <1>4, <1>5, <1>6, <1>7, <1>8

\* Status and event are written together.
LEMMA FailedKeeps ==
  ASSUME IInv, NEW d \in Docs, UNCHANGED poolSize,
         MarkFailed(d)
  PROVE  IInv'
<1> USE OwnersAssumption, MaxChunksAssumption
    DEF IInv, MarkFailed, dbVars, uploadVars, taskVars, delVars
<1>1. TypeOK'
  BY DEF TypeOK, DocStatus, UploadPcs, TaskPcs, DeletePcs, Actions
<1>2. Uploads'
  BY DEF TypeOK, Uploads, Exists
<1>3. Tasks'
  BY DEF TypeOK, Uploads, Tasks
<1>4. Targets'
  BY DEF TypeOK, Targets
<1>5. AuditMatchesDocuments'
  BY DEF TypeOK, Uploads, Tasks, Targets, AuditMatchesDocuments, Exists
<1>6. ChunksOnlyWhenReady'
  BY DEF TypeOK, Uploads, Tasks, Targets, ChunksOnlyWhenReady
<1>7. FilesMatchRows'
  BY DEF TypeOK, Uploads, FilesMatchRows, Exists
<1>8. QuotaOvershootBounded'
  BY FewerKeepQuota DEF TypeOK, Active, Uploading, UploadTx
<1> QED  BY <1>1, <1>2, <1>3, <1>4, <1>5, <1>6, <1>7, <1>8

\* A deletion takes its document.
LEMMA FindKeeps ==
  ASSUME IInv, NEW q \in Deletes, NEW o \in Owners, NEW d \in Docs, UNCHANGED poolSize,
         FindDocument(q, o, d)
  PROVE  IInv'
<1> USE OwnersAssumption, MaxChunksAssumption
    DEF IInv, FindDocument, DeleteStep, dbVars, uploadVars, taskVars, delVars
<1>1. TypeOK'
  BY DEF TypeOK, DocStatus, UploadPcs, TaskPcs, DeletePcs, Actions
<1>2. Uploads'
  BY DEF TypeOK, Uploads, Exists
<1>3. Tasks'
  BY DEF TypeOK, Uploads, Tasks
<1>4. Targets'
  BY DEF TypeOK, Targets
<1>5. AuditMatchesDocuments'
  BY DEF TypeOK, Uploads, Tasks, Targets, AuditMatchesDocuments, Exists
<1>6. ChunksOnlyWhenReady'
  BY DEF TypeOK, Uploads, Tasks, Targets, ChunksOnlyWhenReady
<1>7. FilesMatchRows'
  BY DEF TypeOK, Uploads, FilesMatchRows, Exists
<1>8. QuotaOvershootBounded'
  BY FewerKeepQuota DEF TypeOK, Active, Uploading, UploadTx
<1> QED  BY <1>1, <1>2, <1>3, <1>4, <1>5, <1>6, <1>7, <1>8

\* What a deletion does before its commit.
LEMMA EmptyKeeps ==
  ASSUME IInv, NEW q \in Deletes, UNCHANGED poolSize,
         StageDeletedAt(q) \/ DeleteChunks(q) \/ DeleteFails(q)
  PROVE  IInv'
<1> USE OwnersAssumption, MaxChunksAssumption
    DEF IInv, StageDeletedAt, DeleteChunks, DeleteFails, DeleteStep, dbVars, uploadVars,
        taskVars, delVars
<1>1. TypeOK'
  <2>1. \E to \in DeletePcs : del' = [del EXCEPT ![q] = to]
    BY DEF DeletePcs
  <2>2. removed' \in [Deletes -> SUBSET (0..MaxChunks-1)]
    BY DEF TypeOK, Targets
  <2>3. UNCHANGED <<dbVars, file, uploadVars, taskVars, target>>
    OBVIOUS
  <2> QED  BY <2>1, <2>2, <2>3 DEF TypeOK
<1>2. Uploads'
  BY DEF TypeOK, Uploads, Exists
<1>3. Tasks'
  BY DEF TypeOK, Uploads, Tasks
<1>4. Targets'
  BY DEF TypeOK, Targets
<1>5. AuditMatchesDocuments'
  <2>1. UNCHANGED dbVars
    OBVIOUS
  <2> QED  BY <2>1 DEF AuditMatchesDocuments, Exists
<1>6. ChunksOnlyWhenReady'
  BY DEF TypeOK, Uploads, Tasks, Targets, ChunksOnlyWhenReady
<1>7. FilesMatchRows'
  BY DEF TypeOK, Uploads, FilesMatchRows, Exists
<1>8. QuotaOvershootBounded'
  BY FewerKeepQuota DEF TypeOK, Active, Uploading, UploadTx
<1> QED  BY <1>1, <1>2, <1>3, <1>4, <1>5, <1>6, <1>7, <1>8

\* The flag, the chunks and the event change together.
LEMMA DeleteKeeps ==
  ASSUME IInv, NEW q \in Deletes, UNCHANGED poolSize,
         CommitDelete(q)
  PROVE  IInv'
<1> USE OwnersAssumption, MaxChunksAssumption
    DEF IInv, CommitDelete, DeleteStep, dbVars, uploadVars, taskVars, delVars
<1>1. TypeOK'
  <2>1. target[q] \in Docs
    BY DEF Targets
  <2> QED  BY <2>1 DEF TypeOK, DeletePcs, Actions
<1>2. Uploads'
  BY DEF TypeOK, Uploads, Exists
<1>3. Tasks'
  BY DEF TypeOK, Uploads, Tasks
<1>4. Targets'
  BY DEF TypeOK, Targets
<1>5. AuditMatchesDocuments'
  BY DEF TypeOK, Uploads, Tasks, Targets, AuditMatchesDocuments, Exists
<1>6. ChunksOnlyWhenReady'
  BY DEF TypeOK, Uploads, Tasks, Targets, ChunksOnlyWhenReady
<1>7. FilesMatchRows'
  BY DEF TypeOK, Uploads, FilesMatchRows, Exists
<1>8. QuotaOvershootBounded'
  BY FewerKeepQuota DEF TypeOK, Active, Uploading, UploadTx
<1> QED  BY <1>1, <1>2, <1>3, <1>4, <1>5, <1>6, <1>7, <1>8

\* A crash leaves the database and the files.
LEMMA CrashKeeps ==
  ASSUME IInv, UNCHANGED poolSize,
         Crash
  PROVE  IInv'
<1> USE OwnersAssumption, MaxChunksAssumption
    DEF IInv, Crash, dbVars, uploadVars, taskVars, delVars
<1>1. TypeOK'
  BY DEF TypeOK, DocStatus, UploadPcs, TaskPcs, DeletePcs, Actions
<1>2. Uploads'
  BY DEF TypeOK, Uploads, Exists
<1>3. Tasks'
  BY DEF TypeOK, Uploads, Tasks
<1>4. Targets'
  BY DEF TypeOK, Targets
<1>5. AuditMatchesDocuments'
  BY DEF TypeOK, Uploads, Tasks, Targets, AuditMatchesDocuments, Exists
<1>6. ChunksOnlyWhenReady'
  BY DEF TypeOK, Uploads, Tasks, Targets, ChunksOnlyWhenReady
<1>7. FilesMatchRows'
  BY DEF TypeOK, Uploads, FilesMatchRows, Exists
<1>8. QuotaOvershootBounded'
  BY FewerKeepQuota DEF TypeOK, Active, Uploading, UploadTx
<1> QED  BY <1>1, <1>2, <1>3, <1>4, <1>5, <1>6, <1>7, <1>8

-----------------------------------------------------------------------------
\* Every step is one of those actions, or stutters.
LEMMA StepKeeps == IInv /\ [Next]_vars => IInv'
<1> SUFFICES ASSUME IInv, [Next]_vars PROVE IInv'
  OBVIOUS
<1>1. CASE UNCHANGED vars
  BY <1>1 DEF vars, dbVars, uploadVars, taskVars, delVars, IInv, TypeOK, Uploads, Tasks,
         Targets,
       AuditMatchesDocuments, ChunksOnlyWhenReady, FilesMatchRows, QuotaOvershootBounded,
       Exists, Active, UploadTx
<1>2. ASSUME NEW d \in Docs, NEW o \in Owners, CountActive(d, o)
      PROVE  IInv'
  BY <1>2, CountKeeps DEF CountActive
<1>3. ASSUME NEW d \in Docs, ServeUpload(d)
      PROVE  IInv'
  BY <1>3, StoreKeeps, InsertKeeps, UnlinkKeeps, UnlinkFailsKeeps, AcceptKeeps
     DEF ServeUpload
<1>4. ASSUME NEW d \in Docs, RunTask(d)
      PROVE  IInv'
  BY <1>4, LocalKeeps, EmbedKeeps, ProcessKeeps, ReadyKeeps, FailedKeeps DEF RunTask
<1>5. ASSUME NEW q \in Deletes, NEW o \in Owners, NEW d \in Docs, FindDocument(q, o, d)
      PROVE  IInv'
  BY <1>5, FindKeeps DEF FindDocument
<1>6. ASSUME NEW q \in Deletes, ServeDelete(q)
      PROVE  IInv'
  BY <1>6, EmptyKeeps, DeleteKeeps DEF ServeDelete
<1>7. CASE Crash
  BY <1>7, CrashKeeps DEF Crash
<1> QED  BY <1>1, <1>2, <1>3, <1>4, <1>5, <1>6, <1>7 DEF Next

\* The invariant holds in every reachable state.
THEOREM InvariantHolds == Spec => []IInv
BY InitHolds, StepKeeps, PTL DEF Spec

\* Every reachable state is of the type that TypeOK gives.
THEOREM TypeCorrect == Spec => []TypeOK
<1>1. IInv => TypeOK
  BY DEF IInv
<1> QED  BY <1>1, InvariantHolds, PTL

\* An owner is over quota by at most the uploads that the pool serves at once.
THEOREM QuotaHolds == Spec => []QuotaOvershootBounded
<1>1. IInv => QuotaOvershootBounded
  BY DEF IInv
<1> QED  BY <1>1, InvariantHolds, PTL

\* Each upload, deletion and failure is in the audit trail exactly if it is in
\* the documents, whatever fails.
THEOREM AuditTellsDocuments == Spec => []AuditMatchesDocuments
<1>1. IInv => AuditMatchesDocuments
  BY DEF IInv
<1> QED  BY <1>1, InvariantHolds, PTL

\* Chunks are stored of ready documents only, and all of them.
THEOREM ReadyMeansComplete == Spec => []ChunksOnlyWhenReady
<1>1. IInv => ChunksOnlyWhenReady
  BY DEF IInv
<1> QED  BY <1>1, InvariantHolds, PTL

\* No file is left without a row, but for a process that dies or an upload
\* directory that fails, and no row without its file, but for a client that was
\* told of an error of the database.
THEOREM FilesFollowRows == Spec => []FilesMatchRows
<1>1. IInv => FilesMatchRows
  BY DEF IInv
<1> QED  BY <1>1, InvariantHolds, PTL

-----------------------------------------------------------------------------
\* Only a task that fetched the document before it was deleted writes to it.
LEMMA GoneStays ==
  ASSUME IInv, [Next]_vars, NEW d \in Docs, Gone(d)
  PROVE  Gone(d)'
<1> USE DEF IInv, TypeOK, Gone
<1>1. CASE UNCHANGED vars
  BY <1>1 DEF vars, dbVars, taskVars
<1>2. ASSUME NEW e \in Docs, \/ \E o \in Owners : CountActive(e, o)
                             \/ ServeUpload(e)
      PROVE  Gone(d)'
  BY <1>2 DEF CountActive, ServeUpload, RejectContent, StoreFile, StoreFileFails,
       CommitUpload, CommitUploadFails, UnlinkFails, CommitUploadUnacknowledged,
       AcceptUpload, RefreshFails, InsertRow,
       dbVars, taskVars
<1>3. ASSUME NEW e \in Docs, RunTask(e)
      PROVE  Gone(d)'
  BY <1>3 DEF RunTask, TaskStep, FetchDocument, MarkProcessing, MarkProcessingFails, Embed,
       EmbedFails, StageReady, CommitReady, CommitReadyFails, CommitReadyUnacknowledged,
       MarkFailed, MarkFailedFails, WriteReady, dbVars, taskVars
<1>4. ASSUME NEW q \in Deletes, \/ \E o \in Owners, e \in Docs : FindDocument(q, o, e)
                                \/ ServeDelete(q)
      PROVE  Gone(d)'
  BY <1>4 DEF FindDocument, ServeDelete, StageDeletedAt, DeleteChunks, CommitDelete,
       DeleteFails, dbVars, taskVars
<1>5. CASE Crash
  BY <1>5 DEF Crash, dbVars
<1> QED  BY <1>1, <1>2, <1>3, <1>4, <1>5 DEF Next

\* Once nothing is left of a deleted document nothing comes back.
THEOREM GoneForGood == Spec => GoneIsForGood
<1>1. IInv /\ [Next]_vars => [\A d \in Docs : Gone(d) => Gone(d)']_vars
  BY GoneStays
<1> QED  BY <1>1, InvariantHolds, PTL DEF Spec, GoneIsForGood

-----------------------------------------------------------------------------
(* The refinement *)

\* A task and a deletion do not hold one row together, a deletion has a row and
\* when it has emptied it all its chunks, and a task has the chunks of a whole text.
RowsAreLocked ==
  /\ \A q \in Deletes :
       /\ del[q] \in {"found", "locked", "emptied"} => Exists(target[q])
       /\ del[q] \in {"locked", "emptied"} => task[target[q]] # "locked"
       /\ del[q] = "emptied" => chunks[target[q]] \subseteq removed[q]
  /\ \A d \in Docs :
       /\ \E n \in 0..MaxChunks : parsed[d] = 0..n-1
       /\ task[d] = "misled" => "lost_ack" \in Faults

LEMMA InitIsUnlocked == Init => RowsAreLocked
<1>1. ASSUME Init PROVE RowsAreLocked
  <2>1. 0 \in 0..MaxChunks /\ {} = 0..0-1
    BY MaxChunksAssumption
  <2> QED  BY <1>1, <2>1 DEF Init, RowsAreLocked
<1> QED  BY <1>1

\* Who wants the row of a document waits for the one who has it.
LEMMA StepKeepsLocks == IInv /\ RowsAreLocked /\ [Next]_vars => RowsAreLocked'
<1> SUFFICES ASSUME IInv, RowsAreLocked, [Next]_vars PROVE RowsAreLocked'
  OBVIOUS
<1> USE OwnersAssumption DEF IInv, TypeOK, RowsAreLocked, Exists
<1>1. CASE UNCHANGED vars
  BY <1>1 DEF vars, dbVars, taskVars, delVars
<1>2. ASSUME NEW e \in Docs, \/ \E o \in Owners : CountActive(e, o)
                             \/ ServeUpload(e)
      PROVE  RowsAreLocked'
  <2>1. UNCHANGED <<chunks, parsed, delVars>>
    BY <1>2 DEF CountActive, ServeUpload, RejectContent, StoreFile, StoreFileFails,
       CommitUpload, CommitUploadFails, UnlinkFails, CommitUploadUnacknowledged,
       AcceptUpload, RefreshFails, InsertRow,
       dbVars, taskVars
  <2>2. task' = task \/ task' = [task EXCEPT ![e] = "queued"]
    BY <1>2 DEF CountActive, ServeUpload, RejectContent, StoreFile, StoreFileFails,
       CommitUpload, CommitUploadFails, UnlinkFails, CommitUploadUnacknowledged,
       AcceptUpload, RefreshFails,
       taskVars
  <2>3. \A d \in Docs : owner[d] # "none" => owner'[d] # "none"
    BY <1>2 DEF CountActive, ServeUpload, RejectContent, StoreFile, StoreFileFails,
       CommitUpload, CommitUploadFails, UnlinkFails, CommitUploadUnacknowledged,
       AcceptUpload, RefreshFails, InsertRow,
       UploadStep, Uploads, dbVars
  <2>4. \A q \in Deletes : del[q] \in {"found", "locked", "emptied"} => target[q] \in Docs
    BY DEF Targets
  <2> QED  BY <2>1, <2>2, <2>3, <2>4 DEF delVars
<1>3. ASSUME NEW e \in Docs, RunTask(e)
      PROVE  RowsAreLocked'
  <2> USE DEF TaskStep, dbVars, delVars
  <2>1. CASE \/ FetchDocument(e) \/ MarkProcessing(e) \/ MarkProcessingFails(e)
             \/ EmbedFails(e) \/ CommitReadyFails(e) \/ MarkFailed(e) \/ MarkFailedFails(e)
    <3>1. UNCHANGED <<owner, chunks, parsed, delVars>>
      BY <2>1 DEF FetchDocument, MarkProcessing, MarkProcessingFails, EmbedFails,
         CommitReadyFails, MarkFailed, MarkFailedFails
    <3>2. \E to \in TaskPcs \ {"locked", "misled"} : task' = [task EXCEPT ![e] = to]
      BY <2>1 DEF FetchDocument, MarkProcessing, MarkProcessingFails, EmbedFails,
         CommitReadyFails, MarkFailed, MarkFailedFails, TaskPcs
    <3> QED  BY <3>1, <3>2
  <2>2. ASSUME NEW n \in 0..MaxChunks, Embed(e, n)
        PROVE  RowsAreLocked'
    <3>1. UNCHANGED <<owner, chunks, delVars>> /\ task' = [task EXCEPT ![e] = "embedded"]
          /\ parsed' = [parsed EXCEPT ![e] = 0..n-1]
      BY <2>2 DEF Embed
    <3> QED  BY <3>1
  <2>3. CASE StageReady(e)
    BY <2>3 DEF StageReady, RowLocked
  <2>4. CASE CommitReady(e) \/ CommitReadyUnacknowledged(e)
    <3>1. \A q \in Deletes : del[q] = "emptied" => target[q] # e
      BY <2>4 DEF CommitReady, CommitReadyUnacknowledged
    <3>2. \A d \in Docs \ {e} : chunks'[d] = chunks[d]
      BY <2>4 DEF CommitReady, CommitReadyUnacknowledged, WriteReady
    <3>3. UNCHANGED <<owner, parsed, delVars>>
      BY <2>4 DEF CommitReady, CommitReadyUnacknowledged, WriteReady
    <3>4. \/ task' = [task EXCEPT ![e] = "done"]
          \/ task' = [task EXCEPT ![e] = "misled"] /\ "lost_ack" \in Faults
      BY <2>4 DEF CommitReady, CommitReadyUnacknowledged
    <3>5. \A q \in Deletes : del[q] \in {"locked", "emptied"} => target[q] \in Docs
      BY DEF Targets
    <3>6. \A q \in Deletes : del'[q] = "emptied" => chunks'[target'[q]] \subseteq removed'[q]
      BY <3>1, <3>2, <3>3, <3>5
    <3>7. \A q \in Deletes : del'[q] \in {"found", "locked", "emptied"} => owner'[target'[q]] # "none"
      BY <3>3
    <3>8. \A q \in Deletes : del'[q] \in {"locked", "emptied"} => task'[target'[q]] # "locked"
      BY <3>3, <3>4, <3>5
    <3>9. (\A d \in Docs :
             /\ \E n \in 0..MaxChunks : parsed[d] = 0..n-1
             /\ task[d] = "misled" => "lost_ack" \in Faults)'
      BY <3>3, <3>4
    <3> QED  BY <3>6, <3>7, <3>8, <3>9
  <2> QED  BY <1>3, <2>1, <2>2, <2>3, <2>4 DEF RunTask
<1>4. ASSUME NEW q \in Deletes, NEW o \in Owners, NEW e \in Docs, FindDocument(q, o, e)
      PROVE  RowsAreLocked'
  BY <1>4 DEF FindDocument, DeleteStep, dbVars, taskVars
<1>5. ASSUME NEW q \in Deletes, ServeDelete(q)
      PROVE  RowsAreLocked'
  <2> USE DEF DeleteStep, dbVars, taskVars
  <2>1. CASE StageDeletedAt(q)
    BY <2>1 DEF StageDeletedAt, RowLocked, Targets
  <2>2. CASE DeleteChunks(q)
    BY <2>2 DEF DeleteChunks
  <2>3. CASE CommitDelete(q)
    <3>1. \A p \in Deletes : chunks'[target[p]] \subseteq chunks[target[p]]
      BY <2>3 DEF CommitDelete, Targets
    <3>2. UNCHANGED <<owner, taskVars, target, removed>> /\ del' = [del EXCEPT ![q] = "deleted"]
      BY <2>3 DEF CommitDelete
    <3> QED  BY <3>1, <3>2
  <2>4. CASE DeleteFails(q)
    BY <2>4 DEF DeleteFails
  <2> QED  BY <1>5, <2>1, <2>2, <2>3, <2>4 DEF ServeDelete
<1>6. CASE Crash
  <2>1. 0 \in 0..MaxChunks /\ {} = 0..0-1
    BY MaxChunksAssumption
  <2> QED  BY <1>6, <2>1 DEF Crash, dbVars
<1> QED  BY <1>1, <1>2, <1>3, <1>4, <1>5, <1>6 DEF Next

\* What is written moves a document along, or nothing is written.
LEMMA StepIsOfLifecycle ==
  IInv /\ RowsAreLocked /\ [Next]_vars => [Lifecycle!Next]_<<owner, status, deleted, chunks>>
<1> SUFFICES ASSUME IInv, RowsAreLocked, [Next]_vars
             PROVE  [Lifecycle!Next]_<<owner, status, deleted, chunks>>
  OBVIOUS
<1> USE DEF IInv, TypeOK, dbVars
<1>1. CASE UNCHANGED vars
  BY <1>1 DEF vars
<1>2. ASSUME NEW d \in Docs, NEW o \in Owners, CountActive(d, o)
      PROVE  UNCHANGED dbVars
  BY <1>2 DEF CountActive
<1>3. ASSUME NEW d \in Docs, ServeUpload(d)
      PROVE  UNCHANGED dbVars \/ Lifecycle!Next
  <2>1. CASE InsertRow(d) /\ upload[d] = "stored"
    <3>1. uploader[d] \in Owners /\ owner[d] = "none" /\ InsertRow(d)
      BY <2>1 DEF Uploads, Exists
    <3>2. Lifecycle!Registered(d, uploader[d])
      BY <3>1 DEF Lifecycle!Registered, InsertRow
    <3> QED  BY <3>1, <3>2 DEF Lifecycle!Next
  <2> QED  BY <1>3, <2>1 DEF ServeUpload, UploadStep, CommitUpload,
              CommitUploadUnacknowledged, RejectContent, StoreFile, StoreFileFails,
              CommitUploadFails, UnlinkFails, AcceptUpload, RefreshFails
<1>4. ASSUME NEW d \in Docs, RunTask(d)
      PROVE  UNCHANGED dbVars \/ Lifecycle!Next
  <2>1. task[d] # "none" => owner[d] # "none"
    BY DEF Uploads, FilesMatchRows, Exists
  <2>2. CASE MarkProcessing(d)
    <3>1. Lifecycle!Started(d)
      BY <2>1, <2>2 DEF MarkProcessing, TaskStep, Tasks, Lifecycle!Started, Lifecycle!MoveFrom
    <3> QED  BY <3>1 DEF Lifecycle!Next
  <2>3. CASE CommitReady(d) \/ CommitReadyUnacknowledged(d)
    <3>1. /\ task[d] = "locked" /\ WriteReady(d)
          /\ status[d] = "processing" /\ chunks[d] = {}
      BY <2>3 DEF CommitReady, CommitReadyUnacknowledged, TaskStep, Tasks, ChunksOnlyWhenReady
    <3>2. PICK n \in 0..MaxChunks : parsed[d] = 0..n-1
      BY DEF RowsAreLocked
    <3>3. Lifecycle!Completed(d, n)
      BY <2>1, <3>1, <3>2 DEF WriteReady, Lifecycle!Completed, Lifecycle!MoveFrom
    <3> QED  BY <3>3 DEF Lifecycle!Next
  <2>4. CASE MarkFailed(d)
    <3>1. CASE task[d] = "failing"
      <4>1. Lifecycle!GaveUp(d)
        BY <2>1, <2>4, <3>1 DEF MarkFailed, Tasks, Lifecycle!GaveUp, Lifecycle!MoveFrom
      <4> QED  BY <4>1 DEF Lifecycle!Next
    <3>2. CASE task[d] = "misled"
      <4>1. Lifecycle!Disowned(d)
        BY <2>1, <2>4, <3>2 DEF MarkFailed, Tasks, RowsAreLocked, Lifecycle!Disowned,
           Lifecycle!MoveFrom
      <4> QED  BY <4>1 DEF Lifecycle!Next
    <3> QED  BY <2>4, <3>1, <3>2 DEF MarkFailed
  <2> QED  BY <1>4, <2>2, <2>3, <2>4 DEF RunTask, FetchDocument, MarkProcessingFails, Embed,
              EmbedFails, StageReady, CommitReadyFails, MarkFailedFails
<1>5. ASSUME NEW q \in Deletes, NEW o \in Owners, NEW d \in Docs, FindDocument(q, o, d)
      PROVE  UNCHANGED dbVars
  BY <1>5 DEF FindDocument
<1>6. ASSUME NEW q \in Deletes, ServeDelete(q)
      PROVE  UNCHANGED dbVars \/ Lifecycle!Next
  <2>1. CASE CommitDelete(q)
    <3>1. del[q] = "emptied" /\ target[q] \in Docs
      BY <2>1 DEF CommitDelete, DeleteStep, Targets
    <3>2. chunks[target[q]] \ removed[q] = {}
      BY <3>1 DEF RowsAreLocked
    <3>3. owner[target[q]] # "none"
      BY <3>1 DEF RowsAreLocked, Exists
    <3>4. Lifecycle!Erased(target[q])
      BY <2>1, <3>1, <3>2, <3>3 DEF CommitDelete, Lifecycle!Erased
    <3> QED  BY <3>1, <3>4 DEF Lifecycle!Next
  <2> QED  BY <1>6, <2>1 DEF ServeDelete, StageDeletedAt, DeleteChunks, DeleteFails
<1>7. CASE Crash
  BY <1>7 DEF Crash
<1> QED  BY <1>1, <1>2, <1>3, <1>4, <1>5, <1>6, <1>7 DEF Next

\* Uploads, ingestion and deletions implement the lifecycle of a document.
THEOREM LifecycleIsFollowed == Spec => FollowsLifecycle
<1>1. Init => Lifecycle!NoDocuments
  BY DEF Init, Lifecycle!NoDocuments
<1>2. Init => IInv /\ RowsAreLocked
  BY InitHolds, InitIsUnlocked
<1>3. IInv /\ RowsAreLocked /\ [Next]_vars
      => IInv' /\ RowsAreLocked' /\ [Lifecycle!Next]_<<owner, status, deleted, chunks>>
  BY StepKeeps, StepKeepsLocks, StepIsOfLifecycle
<1> QED  BY <1>1, <1>2, <1>3, PTL DEF Spec, FollowsLifecycle, Lifecycle!Spec, Lifecycle!rows
=============================================================================
