# A verification model of DocQuery AI

DocQuery AI is a FastAPI service and a Next.js client: users upload documents, the
service cuts them into chunks and embeds them, a question is answered by a language
model from the chunks most similar to it, reviewers decide on the answers, and
administrators manage the accounts. This directory holds TLA+ modules that model the
parts of the program with behaviour over time, TLC configurations that check them on
small instances, and proofs, checked by TLAPS, of theorems about them for every
instance. `PROJECT.json` maps each definition to the lines it models and lists the
runs, the mutants, the hazards, the findings and the theorems.

How to run (TLC and TLAPS with the community modules on the path):

    tlc -workers 2 -config ReviewConcurrent.cfg MCReview
    tlapm ReviewProofs.tla

Paths below are relative to the repository; `app/` is `src/backend/app/`, `web/` is
`src/frontend/src/`.

## 1. The system

The backend is one asyncio process. Every request has a SQLAlchemy session of its own
(`app/core/db.py`), hence a PostgreSQL transaction of its own at READ COMMITTED, and
between two awaits of one request any other may run. So the interleaving that matters
is that of SQL statements and of calls to a provider, and two requests that touch one
row meet in PostgreSQL's row locks, foreign keys and unique indexes. Background
ingestion runs in the same process, has its own session and is kept in memory only.
The client keeps an access token in memory, a refresh token in a cookie, and a cache of
queries (TanStack Query) whose fetches overlap with the mutations that invalidate them.

| Part | State | Operations | Meets | What is hard |
|---|---|---|---|---|
| Review (`app/review`) | `answers.review_status`, `review_decisions` | `decide`, the transition map, the body's validator; the queue and the detail only read | audit, QA (creates answers), the review page | check-then-act across awaits, terminal statuses, three writes in one commit |
| Documents (`app/documents`) | `documents`, files in `upload_dir` | `upload_document`, `delete_document`, list, get | ingestion (schedules it, races with it), audit, QA (cascade) | a quota that is counted before the insert, a file beside a row, lost acknowledgements |
| Ingestion (`app/ingestion`) | `documents.status`, `chunks` | `ingest_document`, parsers, `chunk_text` | documents, LLM providers | two commits with slow work between them, crashes, errors outside the try block |
| Questions and answers (`app/qa`) | `questions`, `answers`, `citations` | `ask_question`, `retrieve_chunks`, `extract_citations`; conversations | documents (deletion while the model thinks), LLM providers, audit | a question that must survive, foreign keys and cascades, lock cycles |
| LLM providers (`app/llm`) | none between calls | `post_json` with retries, factory, OpenAI, Anthropic, fake | ingestion, QA | retry policy, timeouts per phase, replies of an unexpected shape |
| Accounts (`app/users`, `app/auth`) | `users` | register, `update_user`, role check, login, refresh, logout | every endpoint, audit | stale authority, mutual demotion, unique addresses |
| Audit (`app/audit`) | `audit_events`, append-only by trigger | `log_event`, paged listing | everything that writes | events must be committed with what they tell |
| Seed (`backend/scripts/seed.py`) | the rows it creates | `main` at container start | all services | several commits, restarts, two containers |
| Browser session (`web/lib/api/client.ts`, `web/providers/AuthProvider.tsx`) | token, user, status, cookie | `apiFetch`, silent refresh, retry, login, logout, mount | auth endpoints | answers that arrive in any order |
| Pages (`web/app/(app)`, `web/hooks`) | query cache, forms | ask, upload, delete, poll, decide | the API | a fetch under way when a mutation settles, polling that stops too early, stale forms |
| Migrations (`backend/alembic/versions`) | the schema, `alembic_version` | five revisions up and down, one transaction for all that are missing | the models, the container start | containers that migrate at once, or die while they do |
| Staff pages (`web/app/(app)/review`, `audit`, `admin/users`) | query cache, forms, filters | decide, list, page, change accounts | the API, other reviewers and administrators | lists fetched before a change settles, pages cut out of a log that grows |
| Usage, formatting, notices | none of their own | one aggregate query; presentation | | nothing over time |

What makes each part correct:

- Review: a decision is taken only along the transition map, is stored with its status
  and its audit event or not at all, and a terminal answer stays as it is.
- Documents and ingestion: files belong to rows and rows have files; chunks are stored
  only of documents that are ready, and go with them; every upload comes to an end.
- QA: citations lead to stored chunks of the asker's own live documents; the question
  is kept whatever fails; nobody waits for ever.
- Pipeline: chunks fit and lose nothing; retries follow the policy; retrieval never
  crosses users; citations are the markers of the answer.
- Accounts: one account per address; authority is current; an administrator remains.
- Migrations: whoever serves or seeds finds the schema that the models declare.
- Session and pages: the user shown is the one whose token is sent; the screen catches
  up with what the server has answered.

## 2. The modules

| Module | Models | State and actions against the code |
|---|---|---|
| `ReviewTransitions` | `app/review/transitions.py`, `schemas.py` | the transition map and the validator, as pure operators |
| `ReviewLifecycle` | the promise of the component | abstract: the atomic lifecycle of `docs/api.md` (`AtomicNext`), and the check-then-act lifecycle (`CheckThenActSpec`), where an admitted decision stays open before it is applied |
| `Review` | `decide` and the audit row it writes | one action per awaited statement: `Begin` (user SELECT), `ReadAnswer`/`Refuse`, `InsertDecision` (flush), `UpdateStatus` and `InsertAudit` (the flush inside commit, in either order), `Commit`, `Respond` (refresh); `Fail`, `Crash`, `PoolTimeout`; row locks and pool |
| `DocumentLifecycle` | the promise of documents and ingestion | abstract: a row is registered, goes one way through `uploaded -> processing -> ready \| failed` with its chunks all at once, and loses them with its deletion |
| `Documents` | `upload_document`, `delete_document`, `ingest_document` | count, file (whose write may fail halfway, outside the try), commit (failing, or taking effect unacknowledged, with an unlink that may fail), refresh; the background task with its two commits and its except branch; find, flush, DELETE of chunks, commit; crashes. `Lifecycle` is `DocumentLifecycle` by `INSTANCE` |
| `QA` | `ask_question` beside `delete_document` | question committed first, then one transaction of retrieval, model call, answer, citations; shared and exclusive chunk locks, foreign key, cascade, PostgreSQL's deadlock detector; an error before the question's commit (`unsaved`) and after it (`error`); the pool |
| `ChunkingInputs`, `Chunking` | `chunk_text` | one step per turn of its loops; texts are lengths of paragraphs |
| `Llm` | `post_json`, factory, the providers' reading of a reply | attempts, replies, elapsed seconds |
| `RetrievalInputs`, `Retrieval` | `retrieve_chunks` | the query by table scan or by the HNSW index, then the threshold loop |
| `CitationInputs`, `Citations` | `extract_citations` | one step per marker |
| `Pipeline` | how `ingest_document` and `ask_question` call these four, and what a fake provider replies | composes `Chunking`, `Llm`, `Retrieval` and `Citations` by `INSTANCE`, one call after another |
| `Users` | `register_user`, `update_user`, `require_role` | authorisation read, target read, flush, commit, refresh; the unique index |
| `Migrations` | `backend/alembic/versions`, the declarative models | pure operators: each revision as the statements it runs, what a statement needs and leaves, a transaction of revisions folded over a schema |
| `Seed` | the CMD of the Dockerfile: `alembic upgrade head`, `scripts/seed.py` | extends `Migrations`: an upgrade in one transaction, then one action per commit of `main`; a container is `down` before its first start and after a crash, `exited` when its CMD has failed |
| `Session` | `client.ts`, `AuthProvider.tsx`, shell layout, `app/auth/router.py` | requests in flight with what they carry, answers, continuations |
| `ChatPage`, `DocumentsPage`, `ReviewPage`, `ReviewQueue`, `UsersTable`, `AuditPage` | the pages | page state, query cache with its fetches, the services that answer |
| `Pages` | a browser tab | composes the six pages by `INSTANCE`; one of `Visits` is open, and each action is a step of the page it names |
| `MC*` | | instances for TLC |
| `ReviewProofs`, `DocumentsProofs`, `QAProofs`, `UsersProofs`, `PipelineProofs`, `SessionProofs`, `PagesProofs`, `SeedProofs` | | theorems |

Conventions. A transaction's writes are local to the request (`staged`, `removed`,
`inserted`) until its commit. A connection is held from the first statement of a
transaction to its end; `poolSize` counts connections. `"none"` and `NoAccount` stand
for NULL and for rows that do not exist. Texts, names, pages and vectors are model
values, small numbers or lengths. An operator whose name says how it errs
(`CommitWithoutAudit`, `UnderQuotaOffByOne`) is a mutant: a plausible bug that the
property listed with it in `PROJECT.json` detects when it replaces the real definition.

TanStack Query, PostgreSQL and httpx are outside the repository; what is modelled of
them is what the code relies on: row locks held to the end of a transaction, unique and
foreign keys, `ON DELETE CASCADE`, deadlock detection; that `invalidateQueries` cancels
and restarts a fetch of a mounted query that has data, joins the first load of one that
has none, and only marks an unmounted one; that alembic's upgrade is one transaction
(`transaction_per_migration` is not set in `backend/alembic/env.py`); that httpx's timeout bounds each wait of an exchange.

## 3. The runs

Each module, or group of modules that one composes, has one passing run, which carries
all of its properties; `Pages` has one for each role that uses the application. Two runs show disagreements between code and documentation.

### `review_concurrent` (`MCReview`, `ReviewConcurrent.cfg`)
Two answers and two requests, which may carry any decision and comment, over two
connections and over one. Two requests are enough for every overlap: a third could only
be a spectator of a pair, since a decision depends on one row. Holds however requests
interleave, fail or crash: decisions and audit events are one history
(`AuditMirrorsDecisions`), each recorded move starts at a status the answer has had and
is allowed (`AuditedMovesAreLegal`), the status is undecided exactly without decisions
(`StatusHasADecision`), the service implements check-then-act (`CheckThenAct`,
a refinement of `ReviewLifecycle`), and every request is answered
(`RequestsAreAnswered`). When requests take turns, the atomic lifecycle of the
documentation holds too (`AtomicLifecycle`), and history, audit trail and status tell
one story (`HistoryIsLinear`).

`poolSize = 1` is a device: the program uses SQLAlchemy's default pool, and one
connection is how the modules say "transactions do not overlap". The properties with
that premise separate what the code ensures by itself from what it leaves to chance.

### `review_terminal` (`ReviewTerminal.cfg`): violated
`docs/api.md` says that approved and rejected are terminal. Two decisions that both read
`pending_review` before either commits both pass `assert_transition`; the second commit
moves the answer out of a terminal status. No row lock is taken at the read
(`app/review/service.py:110-114`).

### `documents_faults` (`MCDocuments`, `DocumentsFaults.cfg`)
Two uploads, by the same or by different owners, one deletion, quota one, one chunk at
most, one or two connections, all four kinds of fault. Quota one with two uploads
is the smallest case of an overshoot; one chunk suffices because chunks of one document
are only ever written and removed together. Checked: the overshoot of the quota is
bounded by the connections (`QuotaOvershootBounded`); every upload, deletion and failure
has its event (`AuditMatchesDocuments`); chunks are stored only with status ready, and
completely (`ChunksOnlyWhenReady`); files and rows match but for a crash between the two,
a write or an unlink that failed, or a commit that took effect and raised
(`FilesMatchRows`); a document that is gone, with no task that
fetched it before, stays without vectors (`GoneIsForGood`); every accepted upload is
ingested to ready or failed, unless deleted or its task was lost or its bookkeeping
failed (`IngestionSettles`); and the whole implements the lifecycle of a document
(`FollowsLifecycle`, a refinement of `DocumentLifecycle`). Two deletions at once are too
many states for a run; the theorems cover any number of them.

### `documents_vectors` (`DocumentsVectors.cfg`): violated
`docs/architecture.md` promises "immediate vector removal". A deletion that commits
while the task is parsing removes no chunks, and the task, which does not look at
`deleted_at` again, stores them afterwards. They are never retrieved, since retrieval
filters on `deleted_at`, and never removed.

### `ask_and_erase` (`MCQA`, `AskAndErase.cfg`)
Two asks, two users, a document of two chunks, which is the smallest case in which an
ask and a deletion can hold one chunk each and want the other's; two connections, for
which two asks and a deletion compete, or three, so that all may overlap. Citations
resolve (`CitationsResolve`), answers keep the citations of their text
(`AnswersKeepCitations`), a question is there however its ask ends after the question's
commit, an error of the model, of the database or of a foreign key included, and the
audit agrees (`QuestionsSurvive`).

Everything ends (`NobodyHangs`). A ring of row locks is PostgreSQL's to break: an ask
locks the chunks of its citations in the order of its text, a deletion in the order of
the table, so rings do form, and `AbortVictim` ends one of them. What the program itself
owes is that no ring goes through the connection pool, where PostgreSQL does not look: no
request asks for a connection while it holds one or a lock. An answer whose audit event
were committed through a session of its own (`CommitAnswerInOwnSession`) would hang
together with a deletion that wants its chunk, or with a second ask. The model takes no
credit for the pool's timeout, nor for any other failure: they may happen and need not.
Two deletions are not in the run. They cannot wait for each other in a ring: of one
document, they take turns at its row (`Documents`), of two, they have no chunk in common.

### `users_admin` (`MCUsers`, `UsersAdmin.cfg`)
Three addresses of which two are active administrators, two updates and two
registrations, one or two connections, with symmetry (safety only). Roles asked for are
user and admin; the third role differs from user in nothing that is modelled. Checked:
every registration and every change of a column is told by an event of the same commit
and every event is such a change, so that an address is registered once and no request
writes the other's column (`AuditTellsAccounts`); and, when requests take turns,
`SomeAdminRemains` and `RevocationIsImmediate`.

### `session_tab` (`MCSession`, `SessionTab.cfg`)
Two accounts, one API call beside the mount's refresh, a login and a logout, all of
which may be in flight at once; another tab that changes the cookie; expiry and
deactivation; one login or reload. `ShownUserOwnsToken`, `OneRefreshPerCall`,
`VisitsSettle`.

### `pipeline_calls` (`MCPipeline`, `PipelineCalls.cfg`)
`chunk_text` with maximum 6 and overlap 2 over every text of up to three paragraphs of
lengths 1 to 16: every relation of a paragraph to the maximum, up to four slices, and
every join across the two-character separator. `post_json` with two retries against
every sequence of replies, waits of 1, 30 and 120 seconds. Three chunks in the table, by
either plan, any owners and similarities below, at and above the threshold, two returned.
Answers of four markers out of `[0]` to one past the last excerpt. Each call's promises:
`ChunksKeepText` (nothing lost, in order, full, within the limit), `RetriesKeepToPolicy`,
`RetrievesMyBest`, `CitesFirstMentions` (and an answer of the fake provider has a
citation), and that each returns (`EveryCallReturns`).

### `seed_restarts` (`MCSeed`, `SeedRestarts.cfg`)
Two containers, two crashes, any number of starts, the seed's own questions, a database at any of the six
revisions, migrated so far or migrated to the head and back. Whoever seeds or serves
does so on the schema that the models declare (`RunsOnDeclaredSchema`), and nothing is
seeded twice (`SeededOnce`). Every start ends (`StartsEnd`): it serves, or its CMD fails,
or it crashes; one that finds the head revision and the users serves or crashes, however
partial the seed it finds, and one that has seeded its users serves only when the seed is
complete. Nothing is said of a container that nobody starts again:
`docker-compose.yml` has no restart policy.

### `reviewer_pages` (`MCPages`, `ReviewerPages.cfg`)
A reviewer's tab on one of two pages. The detail: two submissions with comments that both
sides accept and one that only the form accepts; a decision on offer is refused only if
the answer has moved on or the lengths are counted differently (`RefusedOnlyIfOvertaken`).
The queue: one answer, one decision, two tabs, other reviewers; a decided answer leaves
the tab of pending ones (`DecidedLeavesQueue`).

### `admin_pages` (`MCPages`, `AdminPages.cfg`)
An administrator's tab on one of two pages. The users: two PATCHes beside one change by
another administrator; a list at rest shows every change that was acknowledged
(`ListShowsOwnChanges`). The audit log: one event before and two during the visit, pages
of one event, three turns; turning the pages in order misses nothing and "No events" is
true (`AuditHidesNothing`). Two PATCHes are what it takes for answers and refetches to
cross; three events on pages of one are what it takes for an event to be pushed over a
boundary twice.

### `member_pages` (`MCPages`, `MemberPages.cfg`)
A member's tab on one of two pages, under `FairSpec`. The chat: two asks of one text and
one visit elsewhere; a failed ask leaves the draft (`FailedAskKeepsDraft`) and the history
catches up with all that was asked (`HistoryCatchesUp`). The documents: two uploads and
one deletion, at most two of the three (`MaxCalls`), on pages of one document; the list at
rest shows what the user was told (`ToldIsShown`), and settled documents are not shown as
settling for good (`PollingCatchesUp`). Two mutations are what it takes for the answer of
one to meet the fetch that the other caused.

### Bounds, deadlock, type invariants
Every counter that the program does not bound is bounded by a constant in a guard:
`MaxSubmits`, `MaxDecisions`, `MaxAsks`, `MaxVisits`, `MaxDocs`, `MaxDeletes`,
`MaxCalls`, `MaxPatches`, `MaxOthers`, `MaxEvents`, `LastPage`, `LastOfList`, `MaxTurns`,
`MaxCrashes`; requests are used once. `EarlierEvents` is how long the audit log is when
the page opens. Configurations say `CHECK_DEADLOCK FALSE` where the model stops because
every request has been used, the call has returned or the last page has been turned; the
chat and documents pages can always go on and are checked for deadlock. Every module
with variables defines a `TypeOK`, which documents them. Each is proved, as a theorem
`TypeCorrect` or, in `SessionProofs`, as a part of the invariant.

## 4. Fairness

| Specification | Assumed | Why the code justifies it |
|---|---|---|
| `Review` | WF of each request's own steps | the event loop resumes every coroutine whose await is over; clients, failures and crashes owe nothing |
| `Documents` | WF of upload, task and deletion steps | the same; a crash ends the obligation |
| `QA` | WF of asks, deletions and the deadlock detector; none of failures | providers answer or time out; PostgreSQL looks for cycles after `deadlock_timeout` |
| `Pipeline` | WF of the next step | sequential code |
| `Session` | each request is answered or lost, its continuation runs, the layout's effect runs | browsers time requests out; promises settle; React runs effects |
| `Seed` | WF of each container's CMD; none of `Start` | alembic and `main` run on; a stopped container is started by someone or not at all |
| `Pages` (`FairSpec`) | chat: WF of service, settling, rendering, fetching; documents: WF of the poll timer and of the fetch of each page | as above; `refetchInterval` |
| `Pages` (`Spec`) | none | the reviewer's and the administrator's pages are checked for safety |

Weak fairness suffices everywhere: a step that waits for a lock or a connection is
enabled for good once the holder is done, or the instance has too few rivals to keep it
out for ever.

## 5. What is proved

All theorems hold for every value of the constants that satisfies the named
assumptions of the module, and TLC evaluates those assumptions in the runs.

`ReviewProofs` (any answers, requests and pool sizes). `TypeOK` is not inductive: what
`Commit` writes was put together over several steps. `Locals` says what a request
carries through them: past its check it names an existing answer, its `prev` is a status
that answer has held, and its decision is allowed from it. That `prev` has been held
needs in turn that a status is always a decided one, so
`IInv == TypeOK /\ Locals /\ StatusHasADecision` is the inductive invariant. `Rows`
(which requests own rows, and that identity values are not given out twice) is proved on
top of it. From these follow `TypeCorrect`, `StatusAgreesWithHistory`, `AuditMirrors`,
`AuditedMoves`, `TruthfulResponses`, `SettledAnswersStay` (an action property) and
`ImplementsCheckThenAct`: each step of `Review` is a step or a stutter of
`ReviewLifecycle` with `open` mapped to the requests past their check.

The second half of `ReviewProofs` is about requests that take turns. With one connection
no two transactions are open (`Turns`); then what a request has read is still so when it
commits, and the rows it will write are the latest (`Fresh`), and the latest event of an
answer tells its status (`Latest`). From these: `HistoryReadsInOrder` and
`LifecycleIsAtomic`, the refinement of the documented atomic lifecycle.

`DocumentsProofs` (any owners, documents, deletions, quota, pool and faults). Three
processes write one row: `Uploads`, `Tasks` and `Targets` say what each has done where it
is. The quota is an invariant only as a sum of an owner's documents and of the owner's
uploads under way, which is at most `Quota - 1 + poolSize`. From the invariant:
`TypeCorrect`, `QuotaHolds`, `AuditTellsDocuments`, `ReadyMeansComplete`,
`FilesFollowRows`, `GoneForGood` (an action property). For the refinement, `RowsAreLocked`
adds that the task between its flush and its commit and a deletion between its flush and
its commit exclude each other on one row; `LifecycleIsFollowed` then maps each step to a
step of `DocumentLifecycle` or a stutter.

`QAProofs` (any users, documents, chunks, requests and pool sizes). `Contexts` says that a request
cites only what it has retrieved and that this was the asker's; `Locks` that a citation
not yet committed holds a chunk that no deletion has; `Gone` that no chunk is left of a
deleted document. From the invariant: `TypeCorrect`, `CitationsAlwaysResolve`,
`AnswersStayCited`, `QuestionsAreKept`.

`UsersProofs` (any accounts, requests and pool sizes). `Locals`, `Inserted` and
`Unwritten` hold in any case: an update past its check has another's account, a
registration past its INSERT has the address to itself, and who has not committed has no
event. `Alone` and `Current` hold if transactions do not overlap: what an update has read
is still so. From the invariant: `TypeCorrect`, `TrailTellsAccounts`,
`AdminsNeverLockThemselvesOut`, `RevocationTakesEffect`.

`PipelineProofs` (any texts, sizes, retry policies, tables, limits and answers) has an
inductive invariant for each part that `Pipeline` composes.

- `chunk_text` (`ChunkInv`): what has been gathered is a run of whole paragraphs that ends
  before the current one (`CurrentIsRun`), the next slice starts inside its paragraph
  (`StartIsInside`), everything passed over is stored or gathered (`PassedIsKept`), and
  what has been gathered, or the slice at `start`, follows the last chunk
  (`LastIsFollowed`).
- `post_json` (`CallInv`): attempts, replies and the place in the loop agree
  (`AttemptsAreCounted`), and the time spent is at most the longest wait of each exchange
  and the back-offs so far (`TimeIsCounted`). The back-offs add up to
  `BACKOFF_BASE * (2^attempt - 1)`. That `2^(n + 1) = 2 * 2^n` would be an induction, were
  it not for the library's theorem on the cardinality of `SUBSET S` (`FS_SUBSET`): the
  subsets of `1..n + 1` are those of `1..n`, without and with `n + 1`.
- `retrieve_chunks` (`TableInv`): the rows still to be filtered are the asker's and no
  nearer than what is kept (`RowsAreMine`), and what neither holds is excused by `TOP_K`
  others (`NothingBetter`); that a sorted list of fewer than the limit is all there is
  rests on the cardinality theorems.
- `extract_citations` (`CiteInv`): `SeenIsCited` ties the set `seen` to the list.

The last section shows that each call starts where its part begins (`NotYetCalled`), that
nothing disturbs a part between its steps, and that the prompt of an answer has an excerpt
(`ReplyIsUsable`). From it: `TypeCorrect`, `ChunksKeepThePage`, `RetriesFollowPolicy`,
`PromptIsMine`, `AnswerIsCited`. The assumptions are those of the parts and
`HandedOnAssumption`: what one part hands on is among the inputs of the next.

`SessionProofs` (any accounts, any finite set of calls, any number of logins and reloads).
Answers come in any order, so the invariant says of each request in flight which steps its
kind may be at (`Kinds`), that a token granted is an account's (`GrantsAreOwned`), and, for
the count of tokens, that those issued and those that the mount and the login may still
obtain are paid for by a load, a login or a call that has had its refresh (`Budget`). From
it: `HeaderTellsTruth`, `NoRefreshLoop`.

`PagesProofs` (any bounds, sizes of pages and numbers of calls). A step is one of the page
that is open, so there is one invariant per page.

- Detail: what the page has read is a status from which the answer has not moved or from
  which its present one follows (`ReadIsPast`), and so is what a submission was offered
  for (`SentWasValid`).
- Queue: a decided answer is no longer pending (`DecidedHasMoved`), an open queue does not
  rest on a list that is marked stale (`QueueIsFresh`), and no list that counts as fresh,
  and no fetch that may still bring one, is older than what the reviewer was told
  (`ToldIsSeen`).
- Users: what was sent is a change that the table offers (`SentIsChange`), and the same
  two facts for the list of accounts (`TableIsFresh`, `ToldIsListed`).
- Audit log: the select of an answer has seen what its count has seen
  (`AnswersAreOrdered`), and no page is opened or fetched unless more events match than
  fit on the pages before it (`PagesExist`). That an event which is not on one page is on
  an earlier one counts the events newer than it; the induction this would be is carried
  out with least elements of sets of naturals.
- Chat: what the composer has lost is a question that was answered
  (`OnlyAnsweredIsCleared`), and an answer is given only to a saved one (`SavedFirst`).
- Documents: an upload has no row before it is accepted (`UploadedFirst`), what a
  deletion has removed stays so (`TargetsAreKnown`) and was listed (`DeletedFromList`), the
  open page is loaded, failed or being fetched (`OpenIsFetched`), and, as long as the page
  is not turned, neither the list at rest nor what a fetch has read and nothing has
  cancelled lacks anything that the user was told (`ToldIsRead`).

From these: `TypeCorrect`, `RefusalsAreExplained`, `DecidedIsGone`, `ChangesAreListed`,
`NothingIsHidden`, `DraftsAreKept`, `DocumentsAreListed`.

`SeedProofs` (any containers, crashes and questions). `UpgradeInv`: one container migrates,
and from the revision that the database is at (`MigratesAlone`), so that its schema is one
of those of its revision. `SeedInv`: one container seeds, and only after it has written
the users (`OneSeeder`), and what it has written is what comes before its place in `main`
(`WrittenSoFar`). From it: `TypeCorrect`, `SeededOnlyOnce`, `EverythingRunsOnDeclared`.
What the five revisions make of a schema is a fold over their statements, which the prover
cannot unfold. That upgrades from every revision end in the declared schema is therefore
`RevisionsAssumption` of `Migrations`: it has no parameter, and TLC computes it, for all
of the revisions, in the run `seed_restarts`.

Every invariant and every step property of the runs is a theorem. Only model-checked are
the liveness properties (`RequestsAreAnswered`, `IngestionSettles`, `NobodyHangs`,
`EveryCallReturns`, `VisitsSettle`, `StartsEnd`, `HistoryCatchesUp`,
`PollingCatchesUp`), which need fairness and ENABLED and are beyond the prover, and, as
said, `RevisionsAssumption`.

`SettledIsForGood` and `ResponsesAreTruthful` are proved and not among the properties of
a run.

## 6. Findings, and what the models show besides

The two violated runs are findings: `decide` takes no lock
(`app/review/service.py:113`), and ingestion does not look at `deleted_at` again
(`app/documents/service.py:154`).

The properties were stated as strongly as the code supports. Where the documentation
says more, the exception is in the property or its comment, and the model reaches it:

- Overlapping decisions: `created_at` is the transaction's start, so the newest row of
  the history may not be the status (`app/review/service.py:121`).
- Two uploads that count before either inserts exceed the quota of 25
  (`app/documents/service.py:51`), by as many as are under way at once.
- A crash between file and commit leaves an orphan file, and so does a write that fails
  halfway, since `mkdir` and `write_bytes` (`app/documents/service.py:85-86`) are outside
  the try whose handler unlinks; "never leave orphan files behind" (line 109) is true of
  a commit that raised, as long as the unlink works. An upload whose commit is not
  acknowledged leaves a row without a file.
- The first commit of `ingest_document` and the one of its except branch are outside any
  try; a task that dies with the process is not resumed. The document then stays
  uploaded or processing, and its page polls for ever.
- An answer that cites nothing is stored like any other
  (`docs/REQUIREMENTS.md:23` wants it marked).
- Two administrators who demote each other at once leave none
  (`app/users/service.py:32`); an update admitted before its caller's demotion commits
  after it (`app/auth/dependencies.py:36`).
- A refresh in flight during a logout signs the user in again; a retried call that is
  refused once more does not redirect; the mount's refresh may overwrite a login that
  overtook it (`web/lib/api/client.ts:76,112`, `web/providers/AuthProvider.tsx:58`).
- A reply of status 200 with an odd body ends in 500, not 502
  (`app/llm/http.py:37`); httpx's 30 seconds bound each wait, not the call.
- The HNSW index filters by owner after it has collected its candidates, so that chunks
  of others crowd out the asker's own (`app/qa/retrieval.py:36`): the second half of
  `RetrievesMyBest` holds for the table scan only.
- A seed that fails after its first commit is skipped at the next start
  (`scripts/seed.py:63`).
- Two containers that migrate a database of an earlier revision at once: the second one's
  upgrade fails on what the first has created, its container ends, and nothing starts it
  again (`docker-compose.yml:18`). The same becomes of a seed that a provider's error ends.
- Pages: the queue, the users table and the audit log count a list as fresh that was
  being fetched, on a page or tab no longer open, when a change was acknowledged; the
  audit page's total is of an earlier statement than its rows, so that the last page may
  not be offered.
- A successful answer clears whatever the composer holds by then, a question typed
  meanwhile included (`chat/[conversationId]/page.tsx:47`); `FailedAskKeepsDraft` is about
  failures.
- Pages: the chat says "No grounded answer" of a question still being answered; a
  history fetched before an ask, on a page the user had left, counts as fresh; deleting
  the only document of the last page shows the empty state of a user without documents;
  a chosen decision survives a refetch that no longer offers it; the form counts UTF-16
  units where the API counts code points; after a 409 nothing is fetched.

## 7. What is left out

- Read-only queries (`get_document`, `conversation_detail` with its masking of rejected
  answers, usage statistics) change no state and are read by no action that is modelled.
  The lists that a page shows are in the module of that page.
- The usage page: one query and a chart of its rows. The export of the audit page: a file
  of what is shown. The users page asks for 100 accounts; that there may be more is not
  modelled.
- Settings and start-up (`app/main.py`, `app/core/config.py`), the error envelope
  (`app/core/errors.py`) and the response models (`app/*/schemas.py`): no state over time.
  The status codes that the clients react to are the responses in the modules.
- Parsing of PDF and DOCX: any number of chunks up to the bound, or an exception.
- Password hashing and token signatures are taken as given; a token is its owner, its
  number and whether it has expired.
- Prompt wording, prices, latencies, logging, layout, notices.
- The fake provider's embeddings; which excerpts its answers cite is in `Pipeline`.
- Columns and indexes of the tables: they come and go with their table in `Migrations`.
- The garbage collection of cached queries (`gcTime`): a query that is collected is loaded
  anew, which the first visit of a page shows.

## 8. Plan

The order is that of the weight of the behaviour.

1. `Review` with `ReviewLifecycle`: decisions under concurrency. Done, proved.
2. `Documents` with `DocumentLifecycle`: uploads, ingestion, deletion, faults. Done, proved.
3. `QA`: asks beside deletions. Done, proved.
4. `Users`. Done, proved.
5. `Chunking`, `Llm`, `Retrieval`, `Citations`, composed in `Pipeline`. Done, proved.
6. `Session`. Done, proved.
7. `Migrations` and `Seed`. Done, proved.
8. `ChatPage`, `DocumentsPage`, `ReviewPage`, `ReviewQueue`, `UsersTable`, `AuditPage`,
   composed in `Pages`. Done, proved.
9. An abstract specification for `QA` (a question is open, answered, or without an
    answer) with its refinement, as `DocumentLifecycle` is for `Documents`.
10. The last page of the documents list after its only document is deleted
    (`web/app/(app)/documents/page.tsx:50`): a hazard that `DocumentsPage` reaches and no
    property covers, since the code does take an empty page for an empty list.

Theorems worth proving next: the refinement of 9; that an upload which ended as ready keeps
its chunks until it is deleted, as an action property of `Documents`; that a refused call
of `Session` is never retried with the token it was refused with.
