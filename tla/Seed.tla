-------------------------------- MODULE Seed --------------------------------
(***************************************************************************)
(* Container start (the CMD of backend/Dockerfile) and the demo seed of      *)
(* backend/scripts/seed.py: main() commits step by step, through the same    *)
(* services as the API, and whoever starts later skips it all as soon as one *)
(* user exists.  Containers may start together, crash and be started again.  *)
(***************************************************************************)
EXTENDS Migrations, FiniteSets

CONSTANTS Containers, MaxCrashes, QUESTIONS

ASSUME SeedAssumption ==
  /\ MaxCrashes \in Nat
  /\ QUESTIONS \in Seq({"approved", "flagged", "rejected", "pending_review"})

VARIABLES
  schema,     \* the objects in the database
  version,    \* alembic_version: the last revision that was applied
  users,      \* the three demo users are committed
  docs,       \* documents rows, by status
  conversations,
  questions,  \* questions rows: which of QUESTIONS, and its answer's status
  pc,         \* where each container is in its CMD and in main()
  found,      \* the revision its alembic has read
  mine,       \* the documents its seed has created and not yet ingested
  turn,       \* the question its seed is at
  crashes

rows == <<users, docs, conversations, questions>>
database == <<schema, version>>
vars == <<schema, version, users, docs, conversations, questions, pc, found, mine, turn,
          crashes>>

SAMPLE_DOCS == 2

\* The database is new, or someone has migrated it some way before.
Init ==
  /\ version \in 0..HEAD /\ schema \in SchemasAt(version)
  /\ found = [c \in Containers |-> 0]
  /\ users = FALSE /\ docs = <<>> /\ conversations = 0 /\ questions = <<>>
  /\ pc = [c \in Containers |-> "down"]
  /\ mine = [c \in Containers |-> {}]
  /\ turn = [c \in Containers |-> 1]
  /\ crashes = 0

\* Not started yet or crashed, or ended by a step of its CMD that returns an error.
Stopped(c) == pc[c] \in {"down", "exited"}

Goto(c, from, to) == pc[c] = from /\ pc' = [pc EXCEPT ![c] = to]

-----------------------------------------------------------------------------
(* alembic upgrade head: one transaction for all the revisions *)

StartUnmigrated(c) ==
  /\ Stopped(c)
  /\ pc' = [pc EXCEPT ![c] = "check"]
  /\ found' = [found EXCEPT ![c] = version]
  /\ mine' = [mine EXCEPT ![c] = {}]
  /\ turn' = [turn EXCEPT ![c] = 1]
  /\ UNCHANGED <<database, rows, crashes>>

\* Someone starts the container: docker-compose.yml has no restart policy.
Start(c) ==
  /\ Stopped(c)
  /\ pc' = [pc EXCEPT ![c] = "upgrade"]
  /\ found' = [found EXCEPT ![c] = version]
  /\ mine' = [mine EXCEPT ![c] = {}]
  /\ turn' = [turn EXCEPT ![c] = 1]
  /\ UNCHANGED <<database, rows, crashes>>

\* The process of alembic ends.
Forget(c) == found' = [found EXCEPT ![c] = 0]

AtHead(c) ==
  /\ found[c] = HEAD
  /\ Goto(c, "upgrade", "check")
  /\ Forget(c)
  /\ UNCHANGED <<database, rows, mine, turn, crashes>>

\* The first CREATE waits for another transaction that creates the same object.
BeginUpgrade(c) ==
  /\ found[c] = version /\ version < HEAD
  /\ \A d \in Containers : pc[d] # "migrating"
  /\ Goto(c, "upgrade", "migrating")
  /\ UNCHANGED <<database, rows, found, mine, turn, crashes>>

CommitUpgrade(c) ==
  /\ Goto(c, "migrating", "check")
  /\ schema' \in UpgradeFrom(found[c], schema)
  /\ version' = HEAD
  /\ Forget(c)
  /\ UNCHANGED <<rows, mine, turn, crashes>>

\* What the first statement creates is there by now, or a statement fails.
UpgradeFails(c) ==
  /\ \/ Goto(c, "upgrade", "exited") /\ found[c] # version /\ found[c] # HEAD
     \/ Goto(c, "migrating", "exited") /\ UpgradeFrom(found[c], schema) = {}
  /\ Forget(c)
  /\ UNCHANGED <<database, rows, mine, turn, crashes>>

-----------------------------------------------------------------------------
(* scripts.seed *)

SeededCompletely == Len(questions) = Len(QUESTIONS)

\* select(func.count()).select_from(User)
Seeded == users

Skip(c) ==
  /\ Seeded
  /\ Goto(c, "check", "serving")
  /\ UNCHANGED <<rows, mine, turn, crashes>>

BeginSeed(c) ==
  /\ ~Seeded
  /\ Goto(c, "check", "users")
  /\ UNCHANGED <<rows, mine, turn, crashes>>

EmailNotUnique == FALSE

\* The unique index on users.email: the second seed's commit fails.
EmailTaken == users

CommitUsers(c) ==
  /\ ~EmailTaken
  /\ Goto(c, "users", "documents")
  /\ users' = TRUE
  /\ UNCHANGED <<docs, conversations, questions, mine, turn, crashes>>

CommitUsersFails(c) ==
  /\ EmailTaken
  /\ Goto(c, "users", "exited")
  /\ UNCHANGED <<rows, mine, turn, crashes>>

\* Both files are written and both rows committed together.
CommitDocuments(c) ==
  /\ Goto(c, "documents", "ingest")
  /\ docs' = docs \o [k \in 1..SAMPLE_DOCS |-> "uploaded"]
  /\ mine' = [mine EXCEPT ![c] = Len(docs) + 1..Len(docs) + SAMPLE_DOCS]
  /\ UNCHANGED <<users, conversations, questions, turn, crashes>>

\* ingest_document, in order; it never raises.
Ingest(c) ==
  LET d == CHOOSE d \in mine[c] : \A e \in mine[c] : d <= e
  IN /\ pc[c] = "ingest" /\ mine[c] # {}
     /\ \E outcome \in {"ready", "failed"} : docs' = [docs EXCEPT ![d] = outcome]
     /\ mine' = [mine EXCEPT ![c] = @ \ {d}]
     /\ UNCHANGED <<users, conversations, questions, pc, turn, crashes>>

CreateConversation(c) ==
  /\ mine[c] = {}
  /\ Goto(c, "ingest", "ask")
  /\ conversations' = conversations + 1
  /\ UNCHANGED <<users, docs, questions, mine, turn, crashes>>

\* ask_question commits the question before the model is called.
SaveQuestion(c) ==
  /\ turn[c] <= Len(QUESTIONS)
  /\ Goto(c, "ask", "answer")
  /\ questions' = Append(questions, [seeds |-> turn[c], status |-> "unanswered"])
  /\ UNCHANGED <<users, docs, conversations, mine, turn, crashes>>

\* Without a retrievable chunk there is no answer, and no decision either.
NoGroundedAnswer(c) ==
  /\ Goto(c, "answer", "ask")
  /\ turn' = [turn EXCEPT ![c] = @ + 1]
  /\ UNCHANGED <<rows, mine, crashes>>

Grounded == \E d \in 1..Len(docs) : docs[d] = "ready"

QuestionOf(c) ==
  CHOOSE k \in 1..Len(questions) :
    questions[k].seeds = turn[c] /\ \A l \in k + 1..Len(questions) : questions[l].seeds # turn[c]

CommitAnswer(c) ==
  /\ pc[c] = "answer" /\ Grounded
  /\ questions' = [questions EXCEPT ![QuestionOf(c)].status = "pending_review"]
  /\ IF QUESTIONS[turn[c]] = "pending_review"
     THEN Goto(c, "answer", "ask") /\ turn' = [turn EXCEPT ![c] = @ + 1]
     ELSE Goto(c, "answer", "decide") /\ UNCHANGED turn
  /\ UNCHANGED <<users, docs, conversations, mine, crashes>>

\* LLMProviderError is not caught: the seed ends with an error, and with it the CMD.
ProviderFails(c) ==
  /\ Goto(c, "answer", "exited")
  /\ UNCHANGED <<rows, mine, turn, crashes>>

Decide(c) ==
  /\ Goto(c, "decide", "ask")
  /\ questions' = [questions EXCEPT ![QuestionOf(c)].status = QUESTIONS[turn[c]]]
  /\ turn' = [turn EXCEPT ![c] = @ + 1]
  /\ UNCHANGED <<users, docs, conversations, mine, crashes>>

\* main() returns and uvicorn starts.
Serve(c) ==
  /\ turn[c] > Len(QUESTIONS)
  /\ Goto(c, "ask", "serving")
  /\ UNCHANGED <<rows, mine, turn, crashes>>

\* The container is stopped, or a statement of the seed fails.
Crash(c) ==
  /\ crashes < MaxCrashes /\ ~Stopped(c)
  /\ pc' = [pc EXCEPT ![c] = "down"]
  /\ crashes' = crashes + 1
  /\ Forget(c)
  /\ UNCHANGED <<database, rows, mine, turn>>

Upgrade(c) == AtHead(c) \/ BeginUpgrade(c) \/ CommitUpgrade(c) \/ UpgradeFails(c)

Main(c) ==
  \/ Skip(c) \/ BeginSeed(c) \/ CommitUsers(c) \/ CommitUsersFails(c)
  \/ CommitDocuments(c) \/ Ingest(c) \/ CreateConversation(c) \/ SaveQuestion(c)
  \/ NoGroundedAnswer(c) \/ CommitAnswer(c) \/ ProviderFails(c) \/ Decide(c) \/ Serve(c)

RunCMD(c) == \/ Upgrade(c)
             \/ Main(c) /\ UNCHANGED <<database, found>>

Next == \E c \in Containers : Start(c) \/ RunCMD(c) \/ Crash(c)

Spec == Init /\ [][Next]_vars

\* What was started runs on; nobody has to start it again.
FairSpec == Spec /\ \A c \in Containers : WF_vars(RunCMD(c))

-----------------------------------------------------------------------------
TypeOK ==
  /\ version \in 0..HEAD /\ schema \in SchemasAt(version)
  /\ found \in [Containers -> 0..HEAD]
  /\ users \in BOOLEAN
  /\ docs \in Seq({"uploaded", "ready", "failed"})
  /\ conversations \in Nat
  /\ questions \in Seq([seeds : 1..Len(QUESTIONS),
                        status : {"unanswered", "pending_review", "approved", "flagged",
                                  "rejected"}])
  /\ pc \in [Containers -> {"down", "exited", "upgrade", "migrating", "check", "users",
                          "documents", "ingest", "ask", "answer", "decide", "serving"}]
  /\ mine \in [Containers -> SUBSET (1..Len(docs))]
  /\ turn \in [Containers -> 1..Len(QUESTIONS) + 1]
  /\ crashes \in 0..MaxCrashes

\* Whatever the database was when the containers started, and whichever of them
\* migrated it, none seeds or serves on a schema other than the one its models
\* declare, the append-only trigger of the audit log included.
RunsOnDeclaredSchema ==
  \A c \in Containers :
    pc[c] \notin {"down", "exited", "upgrade", "migrating"} =>
      schema = Declared /\ version = HEAD

\* "restarts never duplicate", nor do containers that start together; and an
\* answer of the seed is as the list has it or still pending, and grounded.
SeededOnce ==
  /\ Len(docs) <= SAMPLE_DOCS
  /\ conversations <= 1
  /\ \A k, l \in 1..Len(questions) : questions[k].seeds = questions[l].seeds => k = l
  /\ \A k \in 1..Len(questions) :
       /\ questions[k].status
            \in {"unanswered", "pending_review", QUESTIONS[questions[k].seeds]}
       /\ questions[k].status # "unanswered" => Grounded

\* Every start comes to an end.  One that finds the database migrated and the
\* users committed comes up unless it crashes, however little of the seed is
\* there: it must not take up a seed whose users it cannot create again.  And a
\* seed that has got past its users is complete before its container serves, so
\* that a partial one is always the work of a crash or an error, which nothing
\* repairs later.
StartsEnd ==
  \A c \in Containers :
    /\ pc[c] = "upgrade" ~> pc[c] = "serving" \/ Stopped(c)
    /\ pc[c] = "upgrade" /\ found[c] = HEAD /\ users ~> pc[c] \in {"serving", "down"}
    /\ pc[c] = "documents" ~> (pc[c] = "serving" /\ SeededCompletely) \/ Stopped(c)
=============================================================================
