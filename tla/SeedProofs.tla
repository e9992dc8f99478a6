----------------------------- MODULE SeedProofs -----------------------------
(***************************************************************************)
(* The container start and the seed, for any number of containers and        *)
(* crashes and any list of questions.  The invariant has two parts: one for  *)
(* the schema, which rests on there being one migration at a time and from   *)
(* the revision the database is at, and one for the rows, which rests on     *)
(* there being one seed that got past the users, and on its place in main(). *)
(***************************************************************************)
EXTENDS Seed, TLAPS

Writing == {"documents", "ingest", "ask", "answer", "decide"}
Seeding(c) == pc[c] \in Writing

\* One container seeds, in a database in which nobody has.
OneSeeder ==
  /\ \A c, d \in Containers : Seeding(c) /\ Seeding(d) => c = d
  /\ \A c \in Containers : Seeding(c) => users
  /\ ~users => docs = <<>> /\ conversations = 0 /\ questions = <<>>

\* What it has written is what comes before its turn.
WrittenSoFar ==
  \A c \in Containers :
    /\ pc[c] = "documents" => docs = <<>>
    /\ pc[c] \in {"documents", "ingest"} => conversations = 0 /\ questions = <<>>
    /\ pc[c] = "ask" => \A k \in 1..Len(questions) : questions[k].seeds < turn[c]
    /\ pc[c] \in {"answer", "decide"} =>
         /\ turn[c] <= Len(QUESTIONS)
         /\ \A k \in 1..Len(questions) : questions[k].seeds <= turn[c]
         /\ \E k \in 1..Len(questions) :
              /\ questions[k].seeds = turn[c]
              /\ questions[k].status = IF pc[c] = "answer" THEN "unanswered"
                                                           ELSE "pending_review"

\* One container migrates, from the revision it has read.
MigratesAlone ==
  /\ \A c \in Containers : found[c] <= version
  /\ \A c \in Containers : pc[c] = "migrating" => found[c] = version /\ version < HEAD
  /\ \A c, d \in Containers : pc[c] = "migrating" /\ pc[d] = "migrating" => c = d

\* TypeOK of what the seed writes and reads.
Statuses == {"unanswered", "pending_review", "approved", "flagged", "rejected"}
Question == [seeds : 1..Len(QUESTIONS), status : Statuses]
RowsTyped ==
  /\ users \in BOOLEAN /\ docs \in Seq({"uploaded", "ready", "failed"})
  /\ conversations \in Nat /\ questions \in Seq(Question)
Places == {"down", "exited", "upgrade", "migrating", "check", "users", "documents", "ingest",
           "ask", "answer", "decide", "serving"}
LocalsTyped ==
  /\ pc \in [Containers -> Places]
  /\ mine \in [Containers -> SUBSET (1..Len(docs))]
  /\ turn \in [Containers -> 1..Len(QUESTIONS) + 1]
SchemaTyped ==
  /\ version \in 0..HEAD /\ schema \in SchemasAt(version)
  /\ found \in [Containers -> 0..HEAD]

UpgradeInv == SchemaTyped /\ MigratesAlone /\ RunsOnDeclaredSchema
SeedInv == RowsTyped /\ LocalsTyped /\ OneSeeder /\ WrittenSoFar /\ SeededOnce

IInv == UpgradeInv /\ SeedInv /\ crashes \in 0..MaxCrashes

USE DEF Writing

-----------------------------------------------------------------------------
LEMMA InitIInv == Init => IInv
<1> SUFFICES ASSUME Init PROVE IInv
  OBVIOUS
<1> USE SeedAssumption DEF Init
<1>1. SchemaTyped /\ MigratesAlone /\ RunsOnDeclaredSchema
  BY DEF SchemaTyped, MigratesAlone, RunsOnDeclaredSchema, HEAD
<1>2. RowsTyped /\ LocalsTyped
  <2>1. RowsTyped
    <3>1. docs \in Seq({"uploaded", "ready", "failed"}) /\ questions \in Seq(Question)
      BY DEF Question
    <3> QED  BY <3>1 DEF RowsTyped
  <2>2. pc \in [Containers -> Places] /\ mine \in [Containers -> SUBSET (1..Len(docs))]
    BY DEF Places
  <2>3. turn \in [Containers -> 1..Len(QUESTIONS) + 1]
    <3>1. Len(QUESTIONS) \in Nat
      OBVIOUS
    <3> QED  BY <3>1
  <2> QED  BY <2>1, <2>2, <2>3 DEF LocalsTyped
<1>3. OneSeeder /\ WrittenSoFar
  BY DEF OneSeeder, WrittenSoFar, Seeding
<1>4. SeededOnce
  <2>1. Len(docs) = 0 /\ Len(questions) = 0 /\ conversations = 0
    OBVIOUS
  <2> QED  BY <2>1 DEF SeededOnce, SAMPLE_DOCS
<1> QED  BY <1>1, <1>2, <1>3, <1>4 DEF IInv, UpgradeInv, SeedInv

-----------------------------------------------------------------------------
(* alembic upgrade head *)

\* Steps of main() and crashes leave the schema alone, and do not start a migration.
LEMMA SchemaRests ==
  ASSUME UpgradeInv, LocalsTyped, NEW c \in Containers, NEW to \in Places,
         pc' = [pc EXCEPT ![c] = to], UNCHANGED database,
         to \in {"upgrade", "migrating"} => pc[c] = to,
         to \notin {"down", "exited"} => pc[c] \notin {"down", "exited", "upgrade", "migrating"},
         found' = found \/ found' = [found EXCEPT ![c] = 0]
  PROVE  UpgradeInv'
<1> USE DEF UpgradeInv, database
<1>1. SchemaTyped'
  BY DEF SchemaTyped, HEAD
<1>2. MigratesAlone'
  BY DEF MigratesAlone, LocalsTyped, SchemaTyped, HEAD
<1>3. RunsOnDeclaredSchema'
  BY DEF RunsOnDeclaredSchema, LocalsTyped
<1> QED  BY <1>1, <1>2, <1>3

LEMMA UpgradeSteps ==
  ASSUME UpgradeInv, LocalsTyped, NEW c \in Containers, Start(c) \/ Upgrade(c)
  PROVE  UpgradeInv'
<1> USE DEF UpgradeInv, database, Goto, Forget, Stopped
<1>0. /\ version \in 0..5 /\ HEAD = 5 /\ schema \in SchemasAt(version)
      /\ found \in [Containers -> 0..5] /\ pc \in [Containers -> Places]
  BY DEF SchemaTyped, LocalsTyped, HEAD
<1>1. CASE Start(c)
  <2>1. SchemaTyped'
    BY <1>0, <1>1 DEF SchemaTyped, Start
  <2>2. MigratesAlone'
    BY <1>0, <1>1 DEF MigratesAlone, Start
  <2>3. RunsOnDeclaredSchema'
    BY <1>0, <1>1 DEF RunsOnDeclaredSchema, Start
  <2> QED  BY <2>1, <2>2, <2>3
<1>2. CASE AtHead(c)
  <2>1. SchemaTyped'
    BY <1>0, <1>2 DEF SchemaTyped, AtHead
  <2>2. MigratesAlone'
    BY <1>0, <1>2 DEF MigratesAlone, AtHead
  <2>3. version = HEAD /\ schema = Declared
    <3>1. version = HEAD
      BY <1>0, <1>2 DEF MigratesAlone, AtHead
    <3> QED  BY <1>0, <3>1, RevisionsAssumption
  <2>4. RunsOnDeclaredSchema'
    BY <1>0, <1>2, <2>3 DEF RunsOnDeclaredSchema, AtHead
  <2> QED  BY <2>1, <2>2, <2>4
<1>3. CASE BeginUpgrade(c)
  <2>1. SchemaTyped'
    BY <1>0, <1>3 DEF SchemaTyped, BeginUpgrade
  <2>2. MigratesAlone'
    BY <1>0, <1>3 DEF MigratesAlone, BeginUpgrade
  <2>3. RunsOnDeclaredSchema'
    BY <1>0, <1>3 DEF RunsOnDeclaredSchema, BeginUpgrade
  <2> QED  BY <2>1, <2>2, <2>3
<1>4. CASE CommitUpgrade(c)
  <2>1. found[c] = version /\ version < HEAD /\ version' = HEAD
    BY <1>0, <1>4 DEF MigratesAlone, CommitUpgrade
  <2>2. schema' = Declared
    BY <1>0, <1>4, <2>1, RevisionsAssumption DEF CommitUpgrade
  <2>3. SchemaTyped'
    <3>1. schema' \in SchemasAt(HEAD)
      BY <2>2, RevisionsAssumption
    <3>2. found' \in [Containers -> 0..HEAD]
      BY <1>0, <1>4 DEF CommitUpgrade
    <3> QED  BY <1>0, <2>1, <3>1, <3>2 DEF SchemaTyped
  <2>4. MigratesAlone'
    <3>1. \A d \in Containers : d # c => pc[d] # "migrating"
      BY <1>4 DEF MigratesAlone, CommitUpgrade
    <3>2. \A d \in Containers : pc'[d] # "migrating"
      BY <1>0, <1>4, <3>1 DEF CommitUpgrade
    <3>3. \A d \in Containers : found'[d] \in 0..5
      BY <1>0, <1>4 DEF CommitUpgrade
    <3> QED  BY <1>0, <2>1, <3>2, <3>3 DEF MigratesAlone
  <2>5. RunsOnDeclaredSchema'
    BY <2>1, <2>2 DEF RunsOnDeclaredSchema
  <2> QED  BY <2>3, <2>4, <2>5
<1>5. CASE UpgradeFails(c)
  <2>1. SchemaTyped'
    BY <1>0, <1>5 DEF SchemaTyped, UpgradeFails
  <2>2. MigratesAlone'
    BY <1>0, <1>5 DEF MigratesAlone, UpgradeFails
  <2>3. RunsOnDeclaredSchema'
    BY <1>0, <1>5 DEF RunsOnDeclaredSchema, UpgradeFails
  <2> QED  BY <2>1, <2>2, <2>3
<1> QED  BY <1>1, <1>2, <1>3, <1>4, <1>5 DEF Upgrade

-----------------------------------------------------------------------------
(* scripts.seed *)

\* Nothing is written by a container that does not seed, or that stops.
LEMMA SeedRests ==
  ASSUME SeedInv, NEW c \in Containers, UNCHANGED rows,
         NEW to \in {"down", "exited", "upgrade", "migrating", "check", "users", "serving"},
         pc' = [pc EXCEPT ![c] = to],
         mine' = mine \/ mine' = [mine EXCEPT ![c] = {}],
         turn' = turn \/ turn' = [turn EXCEPT ![c] = 1]
  PROVE  SeedInv'
<1> USE DEF SeedInv, rows
<1>1. RowsTyped'
  BY DEF RowsTyped
<1>2. LocalsTyped'
  <2>1. pc' \in [Containers -> Places]
    BY DEF LocalsTyped, Places
  <2>2. mine' \in [Containers -> SUBSET (1..Len(docs'))]
    BY DEF LocalsTyped
  <2>3. turn' \in [Containers -> 1..Len(QUESTIONS) + 1]
    <3>1. 1 \in 1..Len(QUESTIONS) + 1
      BY SeedAssumption
    <3> QED  BY <3>1 DEF LocalsTyped
  <2> QED  BY <2>1, <2>2, <2>3 DEF LocalsTyped
<1>3. ~Seeding(c)' /\ \A d \in Containers : Seeding(d)' => Seeding(d) /\ d # c
  BY DEF Seeding, LocalsTyped
<1>4. OneSeeder'
  BY <1>3 DEF OneSeeder
<1>5. WrittenSoFar'
  <2>1. \A d \in Containers : Seeding(d)' => d # c /\ pc'[d] = pc[d] /\ turn'[d] = turn[d]
    BY <1>3 DEF LocalsTyped
  <2>2. \A d \in Containers : pc'[d] \in Writing =>
          pc'[d] = pc[d] /\ turn'[d] = turn[d]
    BY <2>1 DEF Seeding
  <2> QED  BY <2>2 DEF WrittenSoFar
<1>6. SeededOnce'
  BY DEF SeededOnce, Grounded
<1> QED  BY <1>1, <1>2, <1>4, <1>5, <1>6

\* A step of the seed that is being written: the others are not at it.
LEMMA SeedMoves ==
  ASSUME SeedInv, NEW c \in Containers, NEW to \in Writing,
         pc' = [pc EXCEPT ![c] = to], Seeding(c) \/ ~users, users',
         \A d \in Containers : d # c => turn'[d] = turn[d]
  PROVE  /\ pc' \in [Containers -> Places] /\ pc'[c] = to /\ OneSeeder'
         /\ \A d \in Containers : d # c => pc'[d] \notin Writing
<1> USE DEF SeedInv
<1>1. pc' \in [Containers -> Places] /\ pc'[c] = to
  BY DEF LocalsTyped, Places
<1>2. \A d \in Containers : d # c => ~Seeding(d) /\ pc'[d] = pc[d]
  BY DEF OneSeeder, LocalsTyped
<1>3. OneSeeder'
  BY <1>1, <1>2 DEF OneSeeder, Seeding
<1> QED  BY <1>1, <1>2, <1>3 DEF Seeding

LEMMA CommitUsersKeeps ==
  ASSUME SeedInv, NEW c \in Containers, CommitUsers(c)
  PROVE  SeedInv'
<1> USE DEF SeedInv, CommitUsers, Goto, EmailTaken
<1>1. /\ pc' \in [Containers -> Places] /\ pc'[c] = "documents" /\ OneSeeder'
      /\ \A d \in Containers : d # c => pc'[d] \notin Writing
  BY SeedMoves
<1>2. docs = <<>> /\ conversations = 0 /\ questions = <<>>
  BY DEF OneSeeder
<1>3. RowsTyped' /\ LocalsTyped'
  BY <1>1 DEF RowsTyped, LocalsTyped
<1>4. WrittenSoFar'
  BY <1>1, <1>2 DEF WrittenSoFar
<1>5. SeededOnce'
  BY DEF SeededOnce, Grounded
<1> QED  BY <1>1, <1>3, <1>4, <1>5

LEMMA CommitDocumentsKeeps ==
  ASSUME SeedInv, NEW c \in Containers, CommitDocuments(c)
  PROVE  SeedInv'
<1> USE DEF SeedInv, CommitDocuments, Goto
<1>1. /\ pc' \in [Containers -> Places] /\ pc'[c] = "ingest" /\ OneSeeder'
      /\ \A d \in Containers : d # c => pc'[d] \notin Writing
  BY SeedMoves DEF Seeding, OneSeeder
<1>2. docs = <<>> /\ conversations = 0 /\ questions = <<>> /\ Len(docs) = 0 /\ Len(questions) = 0
  BY DEF WrittenSoFar
<1>3. docs' \in Seq({"uploaded", "ready", "failed"}) /\ Len(docs') = 2
  <2> DEFINE two == [k \in 1..2 |-> "uploaded"]
  <2>1. two \in Seq({"uploaded", "ready", "failed"}) /\ Len(two) = 2
    OBVIOUS
  <2>2. docs' = docs \o two /\ docs \in Seq({"uploaded", "ready", "failed"})
    BY DEF SAMPLE_DOCS, RowsTyped
  <2> HIDE DEF two
  <2>3. <<>> \o two = two
    BY <2>1
  <2> QED  BY <1>2, <2>1, <2>2, <2>3
<1>4. mine' \in [Containers -> SUBSET (1..Len(docs'))]
  BY <1>2, <1>3 DEF LocalsTyped, SAMPLE_DOCS
<1>5. RowsTyped' /\ LocalsTyped'
  BY <1>1, <1>3, <1>4 DEF RowsTyped, LocalsTyped
<1>6. WrittenSoFar'
  BY <1>1, <1>2 DEF WrittenSoFar
<1>7. SeededOnce'
  BY <1>2, <1>3 DEF SeededOnce, SAMPLE_DOCS
<1> QED  BY <1>1, <1>5, <1>6, <1>7

LEMMA IngestKeeps ==
  ASSUME SeedInv, NEW c \in Containers, Ingest(c)
  PROVE  SeedInv'
<1> DEFINE d == CHOOSE d \in mine[c] : \A e \in mine[c] : d <= e
<1>0. /\ pc[c] = "ingest" /\ mine[c] # {}
      /\ \E outcome \in {"ready", "failed"} : docs' = [docs EXCEPT ![d] = outcome]
      /\ mine' = [mine EXCEPT ![c] = @ \ {d}]
      /\ UNCHANGED <<users, conversations, questions, pc, turn>>
  BY DEF Ingest
<1> HIDE DEF d
<1> USE DEF SeedInv
<1>1. /\ docs \in Seq({"uploaded", "ready", "failed"}) /\ Len(docs') = Len(docs)
      /\ docs' \in Seq({"uploaded", "ready", "failed"})
  <2>1. PICK outcome \in {"ready", "failed"} : docs' = [docs EXCEPT ![d] = outcome]
    BY <1>0
  <2>2. docs \in Seq({"uploaded", "ready", "failed"})
    BY DEF RowsTyped
  <2>3. /\ Len(docs) \in Nat /\ DOMAIN docs = 1..Len(docs)
        /\ \A k \in 1..Len(docs) : docs[k] \in {"uploaded", "ready", "failed"}
    BY <2>2
  <2>4. docs' \in [1..Len(docs) -> {"uploaded", "ready", "failed"}]
    BY <2>1, <2>2, <2>3
  <2>5. docs' \in Seq({"uploaded", "ready", "failed"}) /\ Len(docs') = Len(docs)
    BY <2>3, <2>4
  <2> QED  BY <2>2, <2>5
<1>2. mine' \in [Containers -> SUBSET (1..Len(docs'))]
  BY <1>0, <1>1 DEF LocalsTyped
<1>3. RowsTyped' /\ LocalsTyped'
  BY <1>0, <1>1, <1>2 DEF RowsTyped, LocalsTyped
<1>4. OneSeeder'
  BY <1>0 DEF OneSeeder, Seeding
<1>5. questions = <<>> /\ Len(questions) = 0
  BY <1>0 DEF WrittenSoFar
<1>6. WrittenSoFar'
  <2>1. \A e \in Containers : pc[e] # "documents"
    BY <1>0 DEF OneSeeder, Seeding
  <2> QED  BY <1>0, <2>1 DEF WrittenSoFar
<1>7. SeededOnce'
  BY <1>0, <1>1, <1>5 DEF SeededOnce
<1> QED  BY <1>3, <1>4, <1>6, <1>7

LEMMA CreateConversationKeeps ==
  ASSUME SeedInv, NEW c \in Containers, CreateConversation(c)
  PROVE  SeedInv'
<1> USE DEF SeedInv, CreateConversation, Goto
<1>1. /\ pc' \in [Containers -> Places] /\ pc'[c] = "ask" /\ OneSeeder'
      /\ \A d \in Containers : d # c => pc'[d] \notin Writing
  BY SeedMoves DEF Seeding, OneSeeder
<1>2. conversations = 0 /\ questions = <<>> /\ Len(questions) = 0
  BY DEF WrittenSoFar
<1>3. RowsTyped' /\ LocalsTyped'
  BY <1>1, <1>2 DEF RowsTyped, LocalsTyped
<1>4. WrittenSoFar'
  BY <1>1, <1>2 DEF WrittenSoFar
<1>5. SeededOnce'
  BY <1>2 DEF SeededOnce, Grounded
<1> QED  BY <1>1, <1>3, <1>4, <1>5

LEMMA QuestionsOfTheList ==
  ASSUME RowsTyped
  PROVE  \A k \in 1..Len(questions) : questions[k].seeds \in 1..Len(QUESTIONS)
<1>1. questions \in Seq(Question)
  BY DEF RowsTyped
<1>2. \A k \in 1..Len(questions) : questions[k] \in Question
  BY <1>1
<1> QED  BY <1>2 DEF Question

\* The question that the seed is at is in the table once, and waits for its next step.
LEMMA AtItsTurn ==
  ASSUME SeedInv, NEW c \in Containers, pc[c] \in {"answer", "decide"}
  PROVE  /\ turn[c] \in 1..Len(QUESTIONS) /\ QuestionOf(c) \in 1..Len(questions)
         /\ questions[QuestionOf(c)].seeds = turn[c]
         /\ questions[QuestionOf(c)].status = IF pc[c] = "answer" THEN "unanswered"
                                                                 ELSE "pending_review"
<1> USE DEF SeedInv
<1>0. Len(questions) \in Nat /\ Len(QUESTIONS) \in Nat
  BY SeedAssumption DEF RowsTyped
<1>1. turn[c] \in 1..Len(QUESTIONS)
  BY <1>0 DEF WrittenSoFar, LocalsTyped
<1>2. PICK k \in 1..Len(questions) :
        /\ questions[k].seeds = turn[c]
        /\ questions[k].status = IF pc[c] = "answer" THEN "unanswered" ELSE "pending_review"
  BY DEF WrittenSoFar
<1>3. \A l \in 1..Len(questions) : questions[l].seeds = turn[c] => l = k
  BY <1>2 DEF SeededOnce
<1>4. \A l \in k + 1..Len(questions) : questions[l].seeds # turn[c]
  BY <1>0, <1>3
<1>5. /\ QuestionOf(c) \in 1..Len(questions)
      /\ questions[QuestionOf(c)].seeds = turn[c]
  BY <1>2, <1>4 DEF QuestionOf
<1>6. QuestionOf(c) = k
  BY <1>3, <1>5
<1> QED  BY <1>1, <1>2, <1>6

\* A status is written into one row of the questions.
LEMMA StatusIsSet ==
  ASSUME RowsTyped, NEW q \in 1..Len(questions), NEW s \in Statuses,
         questions' = [questions EXCEPT ![q].status = s]
  PROVE  /\ questions' \in Seq(Question) /\ Len(questions') = Len(questions)
         /\ \A k \in 1..Len(questions) :
              /\ questions'[k].seeds = questions[k].seeds
              /\ questions'[k].status = IF k = q THEN s ELSE questions[k].status
<1>1. /\ Len(questions) \in Nat /\ DOMAIN questions = 1..Len(questions)
      /\ questions \in Seq(Question) /\ questions \in [1..Len(questions) -> Question]
  BY DEF RowsTyped
<1>2. [questions[q] EXCEPT !.status = s] \in Question
  BY <1>1 DEF Question
<1>3. \A k \in 1..Len(questions) :
        questions'[k] = IF k = q THEN [questions[q] EXCEPT !.status = s] ELSE questions[k]
  BY <1>1
<1>4. questions' \in [1..Len(questions) -> Question]
  BY <1>1, <1>2, <1>3
<1>5. questions' \in Seq(Question) /\ Len(questions') = Len(questions)
  BY <1>1, <1>4
<1>6. \A k \in 1..Len(questions) : questions[k] \in Question
  BY <1>1
<1>7. ASSUME NEW k \in 1..Len(questions)
      PROVE  /\ questions'[k].seeds = questions[k].seeds
             /\ questions'[k].status = IF k = q THEN s ELSE questions[k].status
  BY <1>3, <1>6 DEF Question
<1> QED  BY <1>5, <1>7

LEMMA SaveQuestionKeeps ==
  ASSUME SeedInv, NEW c \in Containers, SaveQuestion(c)
  PROVE  SeedInv'
<1> USE DEF SeedInv, SaveQuestion, Goto
<1> DEFINE new == [seeds |-> turn[c], status |-> "unanswered"]
<1>0. /\ pc' \in [Containers -> Places] /\ pc'[c] = "answer" /\ OneSeeder'
      /\ \A d \in Containers : d # c => pc'[d] \notin Writing
  BY SeedMoves DEF Seeding, OneSeeder
<1>1. /\ Len(questions) \in Nat /\ questions \in Seq(Question) /\ Len(QUESTIONS) \in Nat
      /\ turn[c] \in 1..Len(QUESTIONS) /\ turn'[c] = turn[c]
  <2>1. Len(QUESTIONS) \in Nat /\ turn[c] \in 1..Len(QUESTIONS) + 1 /\ turn[c] <= Len(QUESTIONS)
    BY SeedAssumption DEF LocalsTyped
  <2> QED  BY <2>1 DEF RowsTyped
<1>2. new \in Question
  BY <1>1 DEF Question, Statuses
<1>3. /\ questions' \in Seq(Question) /\ Len(questions') = Len(questions) + 1
      /\ \A k \in 1..Len(questions) : questions'[k] = questions[k]
      /\ questions'[Len(questions) + 1] = new
  BY <1>1, <1>2
<1>4. \A k \in 1..Len(questions') : k \in 1..Len(questions) \/ k = Len(questions) + 1
  BY <1>1, <1>3
<1>5. RowsTyped' /\ LocalsTyped'
  BY <1>0, <1>3 DEF RowsTyped, LocalsTyped
<1>6. /\ \A k \in 1..Len(questions) : questions[k].seeds \in 1..Len(QUESTIONS)
      /\ \A k \in 1..Len(questions) : questions[k].seeds < turn[c]
  BY QuestionsOfTheList DEF WrittenSoFar
<1>7. WrittenSoFar'
  <2>1. \A k \in 1..Len(questions') : questions'[k].seeds <= turn'[c]
    BY <1>1, <1>3, <1>4, <1>6
  <2>2. Len(questions) + 1 \in 1..Len(questions')
    BY <1>1, <1>3
  <2>3. \E k \in 1..Len(questions') :
          questions'[k].seeds = turn'[c] /\ questions'[k].status = "unanswered"
    BY <1>1, <1>3, <2>2
  <2> QED  BY <1>0, <1>1, <2>1, <2>3 DEF WrittenSoFar
<1>8. SeededOnce'
  <2>1. \A k, l \in 1..Len(questions') : questions'[k].seeds = questions'[l].seeds => k = l
    <3>1. \A k, l \in 1..Len(questions) : questions[k].seeds = questions[l].seeds => k = l
      BY DEF SeededOnce
    <3>2. \A k \in 1..Len(questions) : questions[k].seeds # turn[c]
      BY <1>1, <1>6
    <3> QED  BY <1>3, <1>4, <3>1, <3>2
  <2>2. \A k \in 1..Len(questions') :
          /\ questions'[k].status
               \in {"unanswered", "pending_review", QUESTIONS[questions'[k].seeds]}
          /\ questions'[k].status # "unanswered" => Grounded
    BY <1>3, <1>4 DEF SeededOnce
  <2>3. Grounded' <=> Grounded
    BY DEF Grounded
  <2>4. Len(docs') <= SAMPLE_DOCS /\ conversations' <= 1
    BY DEF SeededOnce
  <2> QED  BY <2>1, <2>2, <2>3, <2>4 DEF SeededOnce
<1> QED  BY <1>0, <1>5, <1>7, <1>8

LEMMA NoGroundedAnswerKeeps ==
  ASSUME SeedInv, NEW c \in Containers, NoGroundedAnswer(c)
  PROVE  SeedInv'
<1> USE DEF SeedInv, NoGroundedAnswer, Goto, rows
<1>0. /\ pc' \in [Containers -> Places] /\ pc'[c] = "ask" /\ OneSeeder'
      /\ \A d \in Containers : d # c => pc'[d] \notin Writing
  BY SeedMoves DEF Seeding, OneSeeder, LocalsTyped
<1>1. /\ turn' \in [Containers -> 1..Len(QUESTIONS) + 1] /\ turn'[c] = turn[c] + 1
      /\ turn[c] \in Nat
  <2>1. Len(QUESTIONS) \in Nat /\ turn[c] \in 1..Len(QUESTIONS)
    BY AtItsTurn, SeedAssumption
  <2>2. turn[c] + 1 \in 1..Len(QUESTIONS) + 1
    BY <2>1
  <2> QED  BY <2>1, <2>2 DEF LocalsTyped
<1>2. RowsTyped' /\ LocalsTyped'
  BY <1>0, <1>1 DEF RowsTyped, LocalsTyped
<1>3. WrittenSoFar'
  <2>1. \A k \in 1..Len(questions) : questions[k].seeds \in Nat /\ questions[k].seeds <= turn[c]
    <3>1. \A k \in 1..Len(questions) : questions[k].seeds \in 1..Len(QUESTIONS)
      BY QuestionsOfTheList
    <3>2. Len(QUESTIONS) \in Nat
      BY SeedAssumption
    <3> QED  BY <3>1, <3>2 DEF WrittenSoFar
  <2>2. \A k \in 1..Len(questions') : questions'[k].seeds < turn'[c]
    BY <1>1, <2>1
  <2> QED  BY <1>0, <2>2 DEF WrittenSoFar
<1>4. SeededOnce'
  BY DEF SeededOnce, Grounded
<1> QED  BY <1>0, <1>2, <1>3, <1>4

\* An answer is written, and then decided, in the row of its question.
LEMMA AnswerMoves ==
  ASSUME SeedInv, NEW c \in Containers, pc[c] \in {"answer", "decide"}, Grounded,
         NEW s \in {"pending_review", QUESTIONS[turn[c]]},
         questions' = [questions EXCEPT ![QuestionOf(c)].status = s],
         UNCHANGED <<users, docs, conversations, mine>>,
         \/ Goto(c, pc[c], "ask") /\ turn' = [turn EXCEPT ![c] = @ + 1]
         \/ Goto(c, "answer", "decide") /\ UNCHANGED turn /\ s = "pending_review"
  PROVE  SeedInv'
<1> USE DEF SeedInv, Goto
<1> DEFINE q == QuestionOf(c)
<1>0. PICK to \in {"ask", "decide"} :
        /\ pc' = [pc EXCEPT ![c] = to]
        /\ to = "ask" => turn' = [turn EXCEPT ![c] = @ + 1]
        /\ to = "decide" => UNCHANGED turn /\ s = "pending_review"
  OBVIOUS
<1>1. /\ pc' \in [Containers -> Places] /\ pc'[c] = to /\ OneSeeder'
      /\ \A d \in Containers : d # c => pc'[d] \notin Writing
  <2>1. users' /\ Seeding(c)
    BY DEF Seeding, OneSeeder
  <2>2. \A d \in Containers : d # c => turn'[d] = turn[d]
    BY <1>0 DEF LocalsTyped
  <2> QED  BY <1>0, <2>1, <2>2, SeedMoves
<1>2. /\ Len(QUESTIONS) \in Nat /\ turn[c] \in 1..Len(QUESTIONS) /\ q \in 1..Len(questions)
      /\ questions[q].seeds = turn[c]
  BY AtItsTurn, SeedAssumption
<1>3. s \in Statuses
  BY <1>2, SeedAssumption DEF Statuses
<1>4. /\ questions' \in Seq(Question) /\ Len(questions') = Len(questions)
      /\ \A k \in 1..Len(questions) :
           /\ questions'[k].seeds = questions[k].seeds
           /\ questions'[k].status = IF k = q THEN s ELSE questions[k].status
  BY <1>2, <1>3, StatusIsSet
<1> HIDE DEF q
<1>5. /\ turn' \in [Containers -> 1..Len(QUESTIONS) + 1]
      /\ turn'[c] = IF to = "ask" THEN turn[c] + 1 ELSE turn[c]
  <2>1. turn[c] + 1 \in 1..Len(QUESTIONS) + 1
    BY <1>2
  <2> QED  BY <1>0, <2>1 DEF LocalsTyped
<1>6. RowsTyped' /\ LocalsTyped'
  BY <1>1, <1>4, <1>5 DEF RowsTyped, LocalsTyped
<1>7. WrittenSoFar'
  <2>1. \A k \in 1..Len(questions) : questions[k].seeds \in Nat /\ questions[k].seeds <= turn[c]
    <3>1. \A k \in 1..Len(questions) : questions[k].seeds \in 1..Len(QUESTIONS)
      BY QuestionsOfTheList
    <3> QED  BY <1>2, <3>1 DEF WrittenSoFar
  <2>2. CASE to = "ask"
    <3>1. \A k \in 1..Len(questions') : questions'[k].seeds < turn'[c]
      BY <1>2, <1>4, <1>5, <2>1, <2>2
    <3> QED  BY <1>1, <2>2, <3>1 DEF WrittenSoFar
  <2>3. CASE to = "decide"
    <3>1. \A k \in 1..Len(questions') : questions'[k].seeds <= turn'[c]
      BY <1>4, <1>5, <2>1, <2>3
    <3>2. \E k \in 1..Len(questions') :
            questions'[k].seeds = turn'[c] /\ questions'[k].status = "pending_review"
      BY <1>0, <1>2, <1>4, <1>5, <2>3
    <3>3. turn'[c] <= Len(QUESTIONS)
      BY <1>2, <1>5, <2>3
    <3> QED  BY <1>1, <2>3, <3>1, <3>2, <3>3 DEF WrittenSoFar
  <2> QED  BY <2>2, <2>3
<1>8. SeededOnce'
  <2>1. \A k, l \in 1..Len(questions') : questions'[k].seeds = questions'[l].seeds => k = l
    BY <1>4 DEF SeededOnce
  <2>2. \A k \in 1..Len(questions') :
          questions'[k].status
            \in {"unanswered", "pending_review", QUESTIONS[questions'[k].seeds]}
    BY <1>2, <1>4 DEF SeededOnce
  <2>3. Grounded'
    BY DEF Grounded
  <2>4. Len(docs') <= SAMPLE_DOCS /\ conversations' <= 1
    BY DEF SeededOnce
  <2> QED  BY <2>1, <2>2, <2>3, <2>4 DEF SeededOnce
<1> QED  BY <1>1, <1>6, <1>7, <1>8

LEMMA CommitAnswerKeeps ==
  ASSUME SeedInv, NEW c \in Containers, CommitAnswer(c)
  PROVE  SeedInv'
<1> DEFINE s == "pending_review"
<1>1. /\ pc[c] = "answer" /\ Grounded
      /\ questions' = [questions EXCEPT ![QuestionOf(c)].status = s]
      /\ UNCHANGED <<users, docs, conversations, mine>>
  BY DEF CommitAnswer
<1>2. \/ Goto(c, pc[c], "ask") /\ turn' = [turn EXCEPT ![c] = @ + 1]
      \/ Goto(c, "answer", "decide") /\ UNCHANGED turn /\ s = "pending_review"
  BY DEF CommitAnswer
<1> QED  BY <1>1, <1>2, AnswerMoves

LEMMA DecideKeeps ==
  ASSUME SeedInv, NEW c \in Containers, Decide(c)
  PROVE  SeedInv'
<1>1. pc[c] = "decide"
  BY DEF Decide, Goto
<1>2. Grounded
  <2>1. QuestionOf(c) \in 1..Len(questions) /\ questions[QuestionOf(c)].status = "pending_review"
    BY <1>1, AtItsTurn
  <2> QED  BY <2>1 DEF SeedInv, SeededOnce
<1>3. /\ questions' = [questions EXCEPT ![QuestionOf(c)].status = QUESTIONS[turn[c]]]
      /\ UNCHANGED <<users, docs, conversations, mine>>
      /\ Goto(c, pc[c], "ask") /\ turn' = [turn EXCEPT ![c] = @ + 1]
  BY <1>1 DEF Decide
<1> QED  BY <1>1, <1>2, <1>3, AnswerMoves

-----------------------------------------------------------------------------
LEMMA MainKeepsSeed ==
  ASSUME SeedInv, NEW c \in Containers, Main(c)
  PROVE  SeedInv'
<1>1. CASE Skip(c) \/ BeginSeed(c) \/ CommitUsersFails(c) \/ ProviderFails(c) \/ Serve(c)
  <2>1. UNCHANGED rows /\ UNCHANGED mine /\ UNCHANGED turn
    BY <1>1 DEF Skip, BeginSeed, CommitUsersFails, ProviderFails, Serve
  <2>2. PICK to \in {"down", "exited", "upgrade", "migrating", "check", "users", "serving"} :
          pc' = [pc EXCEPT ![c] = to]
    BY <1>1 DEF Skip, BeginSeed, CommitUsersFails, ProviderFails, Serve, Goto
  <2> QED  BY <2>1, <2>2, SeedRests
<1> QED  BY <1>1, CommitUsersKeeps, CommitDocumentsKeeps, IngestKeeps, CreateConversationKeeps,
            SaveQuestionKeeps, NoGroundedAnswerKeeps, CommitAnswerKeeps, DecideKeeps DEF Main

LEMMA UpgradeKeepsSeed ==
  ASSUME SeedInv, NEW c \in Containers, Start(c) \/ Upgrade(c)
  PROVE  SeedInv'
<1>1. /\ UNCHANGED rows
      /\ mine' = mine \/ mine' = [mine EXCEPT ![c] = {}]
      /\ turn' = turn \/ turn' = [turn EXCEPT ![c] = 1]
  BY DEF Upgrade, Start, AtHead, BeginUpgrade, CommitUpgrade, UpgradeFails
<1>2. PICK to \in {"down", "exited", "upgrade", "migrating", "check", "users", "serving"} :
        pc' = [pc EXCEPT ![c] = to]
  BY DEF Upgrade, Start, AtHead, BeginUpgrade, CommitUpgrade, UpgradeFails, Goto
<1> QED  BY <1>1, <1>2, SeedRests

\* main() runs in a container that is past the upgrade.
LEMMA MainKeepsSchema ==
  ASSUME UpgradeInv, LocalsTyped, NEW c \in Containers, Main(c), UNCHANGED <<database, found>>
  PROVE  UpgradeInv'
<1>1. PICK to \in Places :
        /\ pc' = [pc EXCEPT ![c] = to] /\ to \notin {"upgrade", "migrating"}
        /\ pc[c] \notin {"down", "exited", "upgrade", "migrating"}
  <2> USE DEF Goto, Places
  <2>1. CASE Ingest(c)
    <3>1. pc' = [pc EXCEPT ![c] = "ingest"] /\ pc[c] = "ingest"
      BY <2>1 DEF Ingest, LocalsTyped
    <3> QED  BY <3>1
  <2>2. CASE CommitAnswer(c)
    BY <2>2 DEF CommitAnswer
  <2>3. CASE Skip(c) \/ BeginSeed(c) \/ CommitUsers(c) \/ CommitUsersFails(c)
             \/ CommitDocuments(c)
    BY <2>3 DEF Skip, BeginSeed, CommitUsers, CommitUsersFails, CommitDocuments
  <2>4. CASE CreateConversation(c) \/ SaveQuestion(c) \/ NoGroundedAnswer(c)
             \/ ProviderFails(c) \/ Decide(c) \/ Serve(c)
    BY <2>4 DEF CreateConversation, SaveQuestion, NoGroundedAnswer, ProviderFails, Decide, Serve
  <2> QED  BY <2>1, <2>2, <2>3, <2>4 DEF Main
<1> QED  BY <1>1, SchemaRests

LEMMA CrashKeeps ==
  ASSUME IInv, NEW c \in Containers, Crash(c)
  PROVE  IInv'
<1> USE DEF IInv, Crash, Forget, Stopped
<1>1. UpgradeInv'
  BY SchemaRests DEF Places, SeedInv
<1>2. SeedInv'
  BY SeedRests
<1>3. crashes' \in 0..MaxCrashes
  BY SeedAssumption
<1> QED  BY <1>1, <1>2, <1>3

LEMMA NextIInv == IInv /\ [Next]_vars => IInv'
<1> SUFFICES ASSUME IInv, [Next]_vars PROVE IInv'
  OBVIOUS
<1>1. CASE UNCHANGED vars
  <2>1. UpgradeInv'
    BY <1>1 DEF IInv, UpgradeInv, SchemaTyped, MigratesAlone, RunsOnDeclaredSchema, vars
  <2>2. RowsTyped' /\ LocalsTyped'
    BY <1>1 DEF IInv, SeedInv, RowsTyped, LocalsTyped, vars
  <2>3. OneSeeder' /\ WrittenSoFar'
    BY <1>1 DEF IInv, SeedInv, OneSeeder, WrittenSoFar, Seeding, vars
  <2>4. SeededOnce'
    BY <1>1 DEF IInv, SeedInv, SeededOnce, Grounded, vars
  <2> QED  BY <1>1, <2>1, <2>2, <2>3, <2>4 DEF IInv, SeedInv, vars
<1>2. ASSUME NEW c \in Containers, Start(c) \/ Upgrade(c) PROVE IInv'
  <2>1. UpgradeInv'
    BY <1>2, UpgradeSteps DEF IInv, SeedInv
  <2>2. SeedInv'
    BY <1>2, UpgradeKeepsSeed DEF IInv
  <2>3. crashes' = crashes
    BY <1>2 DEF Upgrade, Start, AtHead, BeginUpgrade, CommitUpgrade, UpgradeFails
  <2> QED  BY <2>1, <2>2, <2>3 DEF IInv
<1>3. ASSUME NEW c \in Containers, Main(c), UNCHANGED <<database, found>> PROVE IInv'
  <2>1. UpgradeInv'
    BY <1>3, MainKeepsSchema DEF IInv, SeedInv
  <2>2. SeedInv'
    BY <1>3, MainKeepsSeed DEF IInv
  <2>3. crashes' = crashes
    BY <1>3 DEF Main, Skip, BeginSeed, CommitUsers, CommitUsersFails, CommitDocuments, Ingest,
                CreateConversation, SaveQuestion, NoGroundedAnswer, CommitAnswer, ProviderFails,
                Decide, Serve
  <2> QED  BY <2>1, <2>2, <2>3 DEF IInv
<1> QED  BY <1>1, <1>2, <1>3, CrashKeeps DEF Next, RunCMD

-----------------------------------------------------------------------------
(* Theorems *)

\* The invariant they all rest on holds of every reachable state.
THEOREM Invariance == Spec => []IInv
<1> QED  BY InitIInv, NextIInv, PTL DEF Spec

\* Every value is of its type: in particular the seed never writes a question that is
\* not one of its list, and indexes no document but its own.
THEOREM TypeCorrect == Spec => []TypeOK
<1>1. IInv => TypeOK
  BY DEF IInv, UpgradeInv, SeedInv, SchemaTyped, RowsTyped, LocalsTyped, TypeOK, Places, Question,
         Statuses
<1> QED  BY <1>1, Invariance, PTL

\* However many containers start, crash and start again, and whatever list of questions
\* they seed: nothing is seeded twice, and every answer is as listed or still pending,
\* and grounded.
THEOREM SeededOnlyOnce == Spec => []SeededOnce
<1>1. IInv => SeededOnce
  BY DEF IInv, SeedInv
<1> QED  BY <1>1, Invariance, PTL

\* No container seeds or serves on a schema other than the one the models declare,
\* whichever of them migrated the database and from whatever revision.
THEOREM EverythingRunsOnDeclared == Spec => []RunsOnDeclaredSchema
<1>1. IInv => RunsOnDeclaredSchema
  BY DEF IInv, UpgradeInv
<1> QED  BY <1>1, Invariance, PTL
=============================================================================
