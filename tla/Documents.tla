----------------------------- MODULE Documents -----------------------------
(***************************************************************************)
(* backend/app/documents and backend/app/ingestion: uploading, ingesting   *)
(* in the background, listing quota and soft-deleting documents, at the    *)
(* granularity of the awaits.  The database, the upload directory and the  *)
(* audit table survive a crash; requests and background tasks do not.      *)
(***************************************************************************)
EXTENDS Naturals, FiniteSets

CONSTANTS
  Docs,        \* document ids: each stands for one upload request
  Deletes,     \* DELETE requests
  Owners,      \* users
  Quota,       \* settings.max_documents_per_user
  PoolSizes,   \* the sizes the SQLAlchemy pool may be given
  MaxChunks,   \* bound on the chunks of one document
  Faults       \* which faults may happen: a subset of FaultKinds

FaultKinds == {"crash", "database", "lost_ack", "storage"}

ASSUME OwnersAssumption == "none" \notin Owners
ASSUME RequestsAssumption == IsFiniteSet(Docs) /\ IsFiniteSet(Deletes)
ASSUME QuotaAssumption == Quota \in Nat \ {0}
ASSUME PoolSizesAssumption == PoolSizes \subseteq Nat \ {0}
ASSUME MaxChunksAssumption == MaxChunks \in Nat
ASSUME FaultsAssumption == Faults \subseteq FaultKinds

VARIABLES
  owner,    \* documents.owner_id, "none" while the row does not exist
  status,   \* documents.status
  deleted,  \* documents.deleted_at IS NOT NULL
  chunks,   \* the chunk_index values stored for each document
  audit,    \* audit_events of the two services: <<action, document>>
  file,     \* whether upload_dir holds the file of the document
  upload,   \* where each upload request stands
  uploader, \* its user
  task,     \* where each background ingest_document stands
  parsed,   \* the chunks the task has embedded, local to it
  del,      \* where each DELETE request stands
  target,   \* its document
  removed,  \* the chunks its DELETE statement found
  poolSize  \* the pool's connections: with one, no two transactions overlap

dbVars == <<owner, status, deleted, chunks, audit>>
uploadVars == <<upload, uploader>>
taskVars == <<task, parsed>>
delVars == <<del, target, removed>>
vars == <<dbVars, file, uploadVars, taskVars, delVars, poolSize>>

DocStatus == {"uploaded", "processing", "ready", "failed"}
Exists(d) == owner[d] # "none"
Active(o) == {d \in Docs : owner[d] = o /\ ~deleted[d]}

\* A connection is held from a transaction's first statement to its end.
UploadTx == {d \in Docs : upload[d] \in {"admitted", "stored"}}
TaskTx == {d \in Docs : task[d] \in {"fetched", "locked"}}
DeleteTx == {q \in Deletes : del[q] \in {"found", "locked", "emptied"}}
ConnectionFree ==
  Cardinality(UploadTx) + Cardinality(TaskTx) + Cardinality(DeleteTx) < poolSize

\* UPDATE documents keeps the row locked until the transaction ends.
RowLocked(d) == \/ task[d] = "locked"
                \/ \E q \in Deletes : del[q] \in {"locked", "emptied"} /\ target[q] = d

Init ==
  /\ owner = [d \in Docs |-> "none"]
  /\ status = [d \in Docs |-> "uploaded"]
  /\ deleted = [d \in Docs |-> FALSE]
  /\ chunks = [d \in Docs |-> {}]
  /\ audit = {}
  /\ file = [d \in Docs |-> FALSE]
  /\ upload = [d \in Docs |-> "new"]
  /\ uploader = [d \in Docs |-> "none"]
  /\ task = [d \in Docs |-> "none"]
  /\ parsed = [d \in Docs |-> {}]
  /\ del = [q \in Deletes |-> "new"]
  /\ target = [q \in Deletes |-> "none"]
  /\ removed = [q \in Deletes |-> {}]
  /\ poolSize \in PoolSizes

UploadStep(d, from, to) == upload[d] = from /\ upload' = [upload EXCEPT ![d] = to]
TaskStep(d, from, to) == task[d] = from /\ task' = [task EXCEPT ![d] = to]
DeleteStep(q, from, to) == del[q] = from /\ del' = [del EXCEPT ![q] = to]

-----------------------------------------------------------------------------
(* upload_document *)

UnderQuotaOffByOne(o) == Cardinality(Active(o)) <= Quota

UnderQuota(o) == Cardinality(Active(o)) < Quota

\* SELECT count(*): the quota check; at the quota the answer is 429.
CountActive(d, o) ==
  /\ ConnectionFree
  /\ UploadStep(d, "new", IF UnderQuota(o) THEN "admitted" ELSE "refused")
  /\ uploader' = [uploader EXCEPT ![d] = o]
  /\ UNCHANGED <<dbVars, file, taskVars, delVars, poolSize>>

\* The type, size or content is not acceptable: 422.
RejectContent(d) ==
  /\ UploadStep(d, "admitted", "refused")
  /\ UNCHANGED <<dbVars, file, uploader, taskVars, delVars>>

\* The body has been read and is acceptable: target.write_bytes(content).
StoreFile(d) ==
  /\ UploadStep(d, "admitted", "stored")
  /\ file' = [file EXCEPT ![d] = TRUE]
  /\ UNCHANGED <<dbVars, uploader, taskVars, delVars>>

\* mkdir or write_bytes raised, before the try whose handler unlinks: 500, and
\* what was written of the file stays.
StoreFileFails(d) ==
  /\ "storage" \in Faults
  /\ UploadStep(d, "admitted", "io_error")
  /\ \E written \in BOOLEAN : file' = [file EXCEPT ![d] = written]
  /\ UNCHANGED <<dbVars, uploader, taskVars, delVars>>

InsertRow(d) ==
  /\ owner' = [owner EXCEPT ![d] = uploader[d]]
  /\ audit' = audit \cup {<<"document.uploaded", d>>}
  /\ UNCHANGED <<status, deleted, chunks>>

CommitUpload(d) ==
  /\ UploadStep(d, "stored", "committed")
  /\ InsertRow(d)
  /\ UNCHANGED <<file, uploader, taskVars, delVars>>

CommitUploadKeepsFile(d) ==
  /\ "database" \in Faults
  /\ UploadStep(d, "stored", "error")
  /\ UNCHANGED <<dbVars, file, uploader, taskVars, delVars>>

\* The commit raised and wrote nothing: the handler unlinks the file.
CommitUploadFails(d) ==
  /\ "database" \in Faults
  /\ UploadStep(d, "stored", "error")
  /\ file' = [file EXCEPT ![d] = FALSE]
  /\ UNCHANGED <<dbVars, uploader, taskVars, delVars>>

\* The commit took effect but its acknowledgement was lost: it raised all the
\* same, and the handler unlinks the file of a row that exists.
CommitUploadUnacknowledged(d) ==
  /\ "lost_ack" \in Faults
  /\ UploadStep(d, "stored", "error")
  /\ InsertRow(d)
  /\ file' = [file EXCEPT ![d] = FALSE]
  /\ UNCHANGED <<uploader, taskVars, delVars>>

\* Either way the handler's unlink may raise as well, and the file stays.
UnlinkFails(d) ==
  /\ "storage" \in Faults
  /\ UploadStep(d, "stored", "io_error")
  /\ \/ "database" \in Faults /\ UNCHANGED dbVars
     \/ "lost_ack" \in Faults /\ InsertRow(d)
  /\ UNCHANGED <<file, uploader, taskVars, delVars>>

\* refresh, 202, and the background task the router added starts to wait.
AcceptUpload(d) ==
  /\ ConnectionFree
  /\ UploadStep(d, "committed", "accepted")
  /\ task' = [task EXCEPT ![d] = "queued"]
  /\ UNCHANGED <<dbVars, file, uploader, parsed, delVars>>

\* The refresh raised: 500, and no task was ever added.
RefreshFails(d) ==
  /\ "database" \in Faults
  /\ UploadStep(d, "committed", "error")
  /\ UNCHANGED <<dbVars, file, uploader, taskVars, delVars>>

-----------------------------------------------------------------------------
(* ingest_document *)

FetchDeletedDocument(d) ==
  /\ ConnectionFree
  /\ TaskStep(d, "queued", "fetched")
  /\ UNCHANGED <<dbVars, file, uploadVars, parsed, delVars>>

\* session.get: a document deleted meanwhile is left alone.
FetchDocument(d) ==
  /\ ConnectionFree
  /\ TaskStep(d, "queued", IF deleted[d] THEN "done" ELSE "fetched")
  /\ UNCHANGED <<dbVars, file, uploadVars, parsed, delVars>>

MarkProcessing(d) ==
  /\ TaskStep(d, "fetched", "parsing")
  /\ ~RowLocked(d)
  /\ status' = [status EXCEPT ![d] = "processing"]
  /\ UNCHANGED <<owner, deleted, chunks, audit, file, uploadVars, parsed, delVars>>

\* The first commit is outside the try block.
MarkProcessingFails(d) ==
  /\ "database" \in Faults
  /\ TaskStep(d, "fetched", "raised")
  /\ UNCHANGED <<dbVars, file, uploadVars, parsed, delVars>>

\* parse, chunk and embed: no transaction is open meanwhile.
Embed(d, n) ==
  /\ file[d]
  /\ TaskStep(d, "parsing", "embedded")
  /\ parsed' = [parsed EXCEPT ![d] = 0..n-1]
  /\ UNCHANGED <<dbVars, file, uploadVars, delVars>>

EmbedFailsSilently(d) ==
  /\ TaskStep(d, "parsing", "done")
  /\ UNCHANGED <<dbVars, file, uploadVars, parsed, delVars>>

\* A missing or unreadable file, a provider error, a wrong number of vectors.
EmbedFails(d) ==
  /\ TaskStep(d, "parsing", "failing")
  /\ UNCHANGED <<dbVars, file, uploadVars, parsed, delVars>>

StageReadyUnlocked(d) ==
  /\ ConnectionFree
  /\ TaskStep(d, "embedded", "locked")
  /\ UNCHANGED <<dbVars, file, uploadVars, parsed, delVars>>

\* The flush: INSERT INTO chunks and UPDATE documents, which waits for the row.
StageReady(d) ==
  /\ ConnectionFree
  /\ TaskStep(d, "embedded", "locked")
  /\ ~RowLocked(d)
  /\ UNCHANGED <<dbVars, file, uploadVars, parsed, delVars>>

WriteReady(d) ==
  /\ chunks' = [chunks EXCEPT ![d] = @ \cup parsed[d]]
  /\ status' = [status EXCEPT ![d] = "ready"]
  /\ UNCHANGED <<owner, deleted, audit>>

CommitReady(d) ==
  /\ TaskStep(d, "locked", "done")
  /\ WriteReady(d)
  /\ UNCHANGED <<file, uploadVars, parsed, delVars>>

CommitReadyFailsHalfway(d) ==
  /\ "database" \in Faults
  /\ TaskStep(d, "locked", "failing")
  /\ chunks' = [chunks EXCEPT ![d] = @ \cup parsed[d]]
  /\ UNCHANGED <<owner, status, deleted, audit, file, uploadVars, parsed, delVars>>

CommitReadyFails(d) ==
  /\ "database" \in Faults
  /\ TaskStep(d, "locked", "failing")
  /\ UNCHANGED <<dbVars, file, uploadVars, parsed, delVars>>

\* The commit took effect, and raised because its acknowledgement was lost.
CommitReadyUnacknowledged(d) ==
  /\ "lost_ack" \in Faults
  /\ TaskStep(d, "locked", "misled")
  /\ WriteReady(d)
  /\ UNCHANGED <<file, uploadVars, parsed, delVars>>

MarkFailedWithoutAudit(d) ==
  /\ ConnectionFree
  /\ ~RowLocked(d)
  /\ task[d] \in {"failing", "misled"}
  /\ task' = [task EXCEPT ![d] = IF @ = "failing" THEN "done" ELSE "undone"]
  /\ status' = [status EXCEPT ![d] = "failed"]
  /\ UNCHANGED <<owner, deleted, chunks, audit, file, uploadVars, parsed, delVars>>

\* The except branch: rollback, get, status failed, audit, commit.
MarkFailed(d) ==
  /\ ConnectionFree
  /\ ~RowLocked(d)
  /\ task[d] \in {"failing", "misled"}
  /\ task' = [task EXCEPT ![d] = IF @ = "failing" THEN "done" ELSE "undone"]
  /\ status' = [status EXCEPT ![d] = "failed"]
  /\ audit' = audit \cup {<<"document.processing_failed", d>>}
  /\ UNCHANGED <<owner, deleted, chunks, file, uploadVars, parsed, delVars>>

MarkFailedFails(d) ==
  /\ "database" \in Faults
  /\ task[d] \in {"failing", "misled"}
  /\ task' = [task EXCEPT ![d] = "raised"]
  /\ UNCHANGED <<dbVars, file, uploadVars, parsed, delVars>>

-----------------------------------------------------------------------------
(* delete_document *)

\* get_document: 404 for a missing, deleted or foreign document.
FindDocument(q, o, d) ==
  /\ ConnectionFree
  /\ DeleteStep(q, "new", IF owner[d] = o /\ ~deleted[d] THEN "found" ELSE "refused")
  /\ target' = [target EXCEPT ![q] = d]
  /\ UNCHANGED <<dbVars, file, uploadVars, taskVars, removed, poolSize>>

\* The DELETE below autoflushes UPDATE documents SET deleted_at first.
StageDeletedAt(q) ==
  /\ DeleteStep(q, "found", "locked")
  /\ ~RowLocked(target[q])
  /\ UNCHANGED <<dbVars, file, uploadVars, taskVars, target, removed>>

\* DELETE FROM chunks removes the chunks committed by now.
DeleteChunks(q) ==
  /\ DeleteStep(q, "locked", "emptied")
  /\ removed' = [removed EXCEPT ![q] = chunks[target[q]]]
  /\ UNCHANGED <<dbVars, file, uploadVars, taskVars, target>>

CommitDelete(q) ==
  /\ DeleteStep(q, "emptied", "deleted")
  /\ deleted' = [deleted EXCEPT ![target[q]] = TRUE]
  /\ chunks' = [chunks EXCEPT ![target[q]] = @ \ removed[q]]
  /\ audit' = audit \cup {<<"document.deleted", target[q]>>}
  /\ UNCHANGED <<owner, status, file, uploadVars, taskVars, target, removed>>

DeleteFails(q) ==
  /\ "database" \in Faults
  /\ del[q] \in {"found", "locked", "emptied"}
  /\ del' = [del EXCEPT ![q] = "error"]
  /\ UNCHANGED <<dbVars, file, uploadVars, taskVars, target, removed>>

-----------------------------------------------------------------------------
\* The process dies: requests get no answer, tasks are forgotten; nothing at
\* start-up looks for documents they left behind.
Crash ==
  /\ "crash" \in Faults
  /\ upload' = [d \in Docs |-> IF upload[d] \in {"admitted", "stored", "committed"}
                                THEN "cut" ELSE upload[d]]
  /\ task' = [d \in Docs |-> IF task[d] \in {"none", "done", "undone", "raised"}
                              THEN task[d] ELSE "lost"]
  /\ del' = [q \in Deletes |-> IF del[q] \in {"found", "locked", "emptied"}
                                THEN "cut" ELSE del[q]]
  /\ parsed' = [d \in Docs |-> {}]
  /\ removed' = [q \in Deletes |-> {}]
  /\ UNCHANGED <<dbVars, file, uploader, target, poolSize>>

ServeUpload(d) ==
  /\ \/ RejectContent(d) \/ StoreFile(d) \/ StoreFileFails(d)
     \/ CommitUpload(d) \/ CommitUploadFails(d) \/ CommitUploadUnacknowledged(d)
     \/ UnlinkFails(d) \/ AcceptUpload(d) \/ RefreshFails(d)
  /\ UNCHANGED poolSize

RunTask(d) ==
  /\ \/ FetchDocument(d) \/ MarkProcessing(d) \/ MarkProcessingFails(d)
     \/ (\E n \in 0..MaxChunks : Embed(d, n)) \/ EmbedFails(d)
     \/ StageReady(d) \/ CommitReady(d) \/ CommitReadyFails(d)
     \/ CommitReadyUnacknowledged(d) \/ MarkFailed(d) \/ MarkFailedFails(d)
  /\ UNCHANGED poolSize

ServeDelete(q) ==
  /\ StageDeletedAt(q) \/ DeleteChunks(q) \/ CommitDelete(q) \/ DeleteFails(q)
  /\ UNCHANGED poolSize

Next ==
  \/ \E d \in Docs : \/ \E o \in Owners : CountActive(d, o)
                     \/ ServeUpload(d)
                     \/ RunTask(d)
  \/ \E q \in Deletes : \/ \E o \in Owners, d \in Docs : FindDocument(q, o, d)
                        \/ ServeDelete(q)
  \/ Crash

Spec == Init /\ [][Next]_vars

\* The event loop and the database make progress on what is in memory.
FairSpec == /\ Spec
            /\ \A d \in Docs : WF_vars(ServeUpload(d)) /\ WF_vars(RunTask(d))
            /\ \A q \in Deletes : WF_vars(ServeDelete(q))

-----------------------------------------------------------------------------
UploadPcs == {"new", "admitted", "stored", "committed", "accepted", "refused", "error",
              "io_error", "cut"}
TaskPcs == {"none", "queued", "fetched", "parsing", "embedded", "locked", "failing",
            "misled", "done", "undone", "raised", "lost"}
DeletePcs == {"new", "found", "locked", "emptied", "deleted", "refused", "error", "cut"}
Actions == {"document.uploaded", "document.deleted", "document.processing_failed"}

TypeOK ==
  /\ owner \in [Docs -> Owners \cup {"none"}]
  /\ status \in [Docs -> DocStatus]
  /\ deleted \in [Docs -> BOOLEAN]
  /\ chunks \in [Docs -> SUBSET (0..MaxChunks-1)]
  /\ audit \subseteq Actions \X Docs
  /\ file \in [Docs -> BOOLEAN]
  /\ upload \in [Docs -> UploadPcs]
  /\ uploader \in [Docs -> Owners \cup {"none"}]
  /\ task \in [Docs -> TaskPcs]
  /\ parsed \in [Docs -> SUBSET (0..MaxChunks-1)]
  /\ del \in [Deletes -> DeletePcs]
  /\ target \in [Deletes -> Docs \cup {"none"}]
  /\ removed \in [Deletes -> SUBSET (0..MaxChunks-1)]
  /\ poolSize \in PoolSizes

\* Check-then-insert can overshoot the quota, but by no more than the uploads
\* that can be between the two at once: whenever one is admitted the owner is
\* under quota, and each running upload holds a connection.
QuotaOvershootBounded ==
  \A o \in Owners :
    Cardinality(Active(o)) + Cardinality({d \in UploadTx : uploader[d] = o})
      <= Quota - 1 + poolSize

\* The audit trail tells the documents' story: each upload, deletion and
\* processing failure is committed together with its event, whatever fails.
AuditMatchesDocuments ==
  \A d \in Docs :
    /\ <<"document.uploaded", d>> \in audit <=> Exists(d)
    /\ <<"document.deleted", d>> \in audit <=> deleted[d]
    /\ <<"document.processing_failed", d>> \in audit <=> status[d] = "failed"

\* Once a document is deleted and no task that fetched it earlier is running,
\* its vectors are gone for good: a task that starts later leaves it alone.
Gone(d) == /\ deleted[d] /\ chunks[d] = {}
           /\ task[d] \notin {"fetched", "parsing", "embedded", "locked", "failing",
                           "misled"}
GoneIsForGood == [][\A d \in Docs : Gone(d) => Gone(d)']_vars

\* Retrieval filters on status ready: no chunk of a document that is still
\* being ingested, or whose ingestion failed, is ever stored, and a ready
\* document has all the chunks that were embedded.  Only a task that was misled
\* about its last commit leaves the chunks of a document it marks as failed.
ChunksOnlyWhenReady ==
  \A d \in Docs :
    /\ status[d] # "ready" => chunks[d] = {} \/ task[d] = "undone"
    /\ status[d] = "ready" /\ ~deleted[d] /\ task[d] = "done" /\ parsed[d] # {}
         => chunks[d] = parsed[d]

\* "never leave orphan files behind": a stored file belongs to a row, or to an
\* upload that is about to commit it.  One is left over only by a process that
\* dies between the two, or by an upload directory that fails: the write may
\* leave a part of the file, outside the try that would remove it.  Nor does a
\* row lose its file, which ingestion reads after any crash: one without is left
\* only where the client was told of an error of the database.
FilesMatchRows ==
  \A d \in Docs :
    /\ file[d] => Exists(d) \/ upload[d] \in {"stored", "cut", "io_error"}
    /\ Exists(d) /\ ~file[d] => upload[d] = "error"

\* Every accepted document reaches ready or failed, unless it is deleted first:
\* the frontend polls until then.  Only a task that the process took with it, or
\* whose own bookkeeping commits failed, leaves one behind.
IngestionSettles ==
  \A d \in Docs : upload[d] = "accepted" ~>
    status[d] \in {"ready", "failed"} \/ deleted[d] \/ task[d] \in {"lost", "raised"}

\* "uploaded -> processing -> ready | failed": whatever interleaves, fails or dies,
\* each document goes this way and no other, its chunks come all at once with
\* ready, and a deletion takes every chunk that is there when it commits.
Lifecycle == INSTANCE DocumentLifecycle WITH MayDisown <- "lost_ack" \in Faults
FollowsLifecycle == Lifecycle!Spec

\* "Soft delete + immediate vector removal": a deleted document has no vectors.
\* A task that is parsing while the document is deleted stores them afterwards.
DeletedHasNoVectors == \A d \in Docs : deleted[d] => chunks[d] = {}
==============================================================================
