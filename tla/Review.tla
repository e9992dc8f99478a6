------------------------------- MODULE Review -------------------------------
(***************************************************************************)
(* The decision endpoint of backend/app/review at the granularity of the   *)
(* SQL statements it awaits.  Every request runs in a session (and a       *)
(* PostgreSQL transaction, READ COMMITTED) of its own; between two awaits  *)
(* any other request may run.  A transaction's writes are staged with the  *)
(* request and become visible together at COMMIT, or are lost together.    *)
(***************************************************************************)
EXTENDS ReviewTransitions, Naturals, FiniteSets

CONSTANTS Answers,    \* the answers that can come to exist
          Requests,   \* the HTTP requests: each is used at most once
          PoolSizes   \* the sizes the SQLAlchemy pool may be given

ASSUME PoolSizesAssumption == PoolSizes \subseteq Nat \ {0}

VARIABLES
  status,      \* answers.review_status, "none" while the row does not exist
  decisions,   \* rows of review_decisions
  audit,       \* rows of audit_events written by decide
  pc,          \* where each request stands
  input,       \* the path and body of each request
  prev,        \* previous_status, the local variable of decide
  startedAt,   \* the transaction's now(): the created_at its rows will carry
  staged,      \* the writes a transaction has flushed
  eventId,     \* the identity value its audit row drew when it was inserted
  clock,       \* the latest transaction time given out
  lastEventId, \* the latest identity value of audit_events given out
  poolSize     \* the pool's connections: with one, requests take turns

dbVars == <<status, decisions, audit>>
reqVars == <<pc, input, prev, startedAt, staged, eventId>>
shared == <<clock, lastEventId, poolSize>>
vars == <<dbVars, reqVars, shared>>

Writes == {"decision", "status", "audit"}
OpenPcs == {"begun", "checked", "flushing"}
FinalPcs == {"refused", "error", "ok"}
Inputs == [answer : Answers, decision : AnswerStatus, comment : Comments]
NoInput == [answer |-> "none", decision |-> "none", comment |-> "none"]

InTransaction == {r \in Requests : pc[r] \in OpenPcs}
ConnectionFree == Cardinality(InTransaction) < poolSize

PastCheck(r) == pc[r] \in {"checked", "flushing"}

\* If the read of the answer took a share lock, as SELECT ... FOR SHARE does.
LockSharedByReaders(r) ==
  \E q \in InTransaction \ {r} : PastCheck(q) /\ input[q].answer = input[r].answer

\* UPDATE answers keeps the row locked until its transaction ends.
RowLockedForOther(r) ==
  \E q \in InTransaction \ {r} :
    "status" \in staged[q] /\ input[q].answer = input[r].answer

Init ==
  /\ status = [a \in Answers |-> "none"]
  /\ decisions = {}
  /\ audit = {}
  /\ pc = [r \in Requests |-> "new"]
  /\ input = [r \in Requests |-> NoInput]
  /\ prev = [r \in Requests |-> "none"]
  /\ startedAt = [r \in Requests |-> 0]
  /\ staged = [r \in Requests |-> {}]
  /\ eventId = [r \in Requests |-> 0]
  /\ clock = 0
  /\ lastEventId = 0
  /\ poolSize \in PoolSizes

Goto(r, from, to) == pc[r] = from /\ pc' = [pc EXCEPT ![r] = to]

\* The session is closed: what the request held in memory is gone.
Forget(r) ==
  /\ input' = [input EXCEPT ![r] = NoInput]
  /\ prev' = [prev EXCEPT ![r] = "none"]
  /\ startedAt' = [startedAt EXCEPT ![r] = 0]
  /\ staged' = [staged EXCEPT ![r] = {}]
  /\ eventId' = [eventId EXCEPT ![r] = 0]

-----------------------------------------------------------------------------
\* ask_question commits a new answer; the column's default is pending_review.
GenerateAnswer(a) ==
  /\ status[a] = "none"
  /\ status' = [status EXCEPT ![a] = "pending_review"]
  /\ UNCHANGED <<decisions, audit, reqVars, shared>>

\* The request arrives: the user SELECT of get_current_user opens the
\* transaction; the body passed DecisionCreate's validator.
Begin(r, a, d, c) ==
  /\ ConnectionFree
  /\ ValidDecision(d, c)
  /\ Goto(r, "new", "begun")
  /\ input' = [input EXCEPT ![r] = [answer |-> a, decision |-> d, comment |-> c]]
  /\ clock' = clock + 1
  /\ startedAt' = [startedAt EXCEPT ![r] = clock']
  /\ UNCHANGED <<dbVars, prev, staged, eventId, lastEventId, poolSize>>

\* The body did not pass: 422, and decide is never called.
RejectBody(r, d, c) ==
  /\ ConnectionFree
  /\ ~ValidDecision(d, c)
  /\ Goto(r, "new", "refused")
  /\ UNCHANGED <<dbVars, input, prev, startedAt, staged, eventId, shared>>

\* No connection within pool_timeout: 500 before anything was read.
PoolTimeout(r) ==
  /\ ~ConnectionFree
  /\ Goto(r, "new", "error")
  /\ UNCHANGED <<dbVars, input, prev, startedAt, staged, eventId, shared>>

AcceptableIfExists(r) == status[input[r].answer] # "none"

\* The answer exists and assert_transition lets the decision pass.
Acceptable(r) == /\ status[input[r].answer] # "none"
                 /\ input[r].decision \in AllowedDecisions(status[input[r].answer])

\* session.get(Answer): a committed snapshot of the row ...
ReadAnswer(r) ==
  /\ Goto(r, "begun", "checked")
  /\ Acceptable(r)
  /\ prev' = [prev EXCEPT ![r] = status[input[r].answer]]
  /\ UNCHANGED <<dbVars, input, startedAt, staged, eventId, shared>>

\* ... or 404 when there is none, or 409 from assert_transition.
Refuse(r) ==
  /\ Goto(r, "begun", "refused")
  /\ ~Acceptable(r)
  /\ Forget(r)
  /\ UNCHANGED <<dbVars, shared>>

\* session.flush(): INSERT INTO review_decisions.
InsertDecision(r) ==
  /\ Goto(r, "checked", "flushing")
  /\ staged' = [staged EXCEPT ![r] = {"decision"}]
  /\ UNCHANGED <<dbVars, input, prev, startedAt, eventId, shared>>

\* The two writes of the flush inside commit(): no relationship orders them.
UpdateStatus(r) ==
  /\ pc[r] = "flushing"
  /\ "status" \notin staged[r]
  /\ ~RowLockedForOther(r)
  /\ staged' = [staged EXCEPT ![r] = @ \cup {"status"}]
  /\ UNCHANGED <<dbVars, pc, input, prev, startedAt, eventId, shared>>

InsertAudit(r) ==
  /\ pc[r] = "flushing"
  /\ "audit" \notin staged[r]
  /\ staged' = [staged EXCEPT ![r] = @ \cup {"audit"}]
  /\ lastEventId' = lastEventId + 1
  /\ eventId' = [eventId EXCEPT ![r] = lastEventId']
  /\ UNCHANGED <<dbVars, pc, input, prev, startedAt, clock, poolSize>>

DecisionRow(r) == [request |-> r, answer |-> input[r].answer,
                   decision |-> input[r].decision, comment |-> input[r].comment,
                   createdAt |-> startedAt[r]]

AuditRowAfterAssignment(r) ==
  [id |-> eventId[r], decisionId |-> r, answer |-> input[r].answer,
   fromStatus |-> input[r].decision, toStatus |-> input[r].decision,
   hasComment |-> input[r].comment # "absent"]

AuditRow(r) == [id |-> eventId[r], decisionId |-> r, answer |-> input[r].answer,
                fromStatus |-> prev[r], toStatus |-> input[r].decision,
                hasComment |-> input[r].comment # "absent"]

CommitWithoutAudit(r) ==
  /\ Goto(r, "flushing", "committed")
  /\ {"decision", "status"} \subseteq staged[r]
  /\ decisions' = decisions \cup {DecisionRow(r)}
  /\ audit' = IF "audit" \in staged[r] THEN audit \cup {AuditRow(r)} ELSE audit
  /\ status' = [status EXCEPT ![input[r].answer] = input[r].decision]
  /\ Forget(r)
  /\ UNCHANGED shared

CommitWithoutStatus(r) ==
  /\ Goto(r, "flushing", "committed")
  /\ {"decision", "audit"} \subseteq staged[r]
  /\ decisions' = decisions \cup {DecisionRow(r)}
  /\ audit' = audit \cup {AuditRow(r)}
  /\ status' = IF "status" \in staged[r]
               THEN [status EXCEPT ![input[r].answer] = input[r].decision] ELSE status
  /\ Forget(r)
  /\ UNCHANGED shared

\* COMMIT makes the three writes visible at once and releases the row.
Commit(r) ==
  /\ Goto(r, "flushing", "committed")
  /\ staged[r] = Writes
  /\ decisions' = decisions \cup {DecisionRow(r)}
  /\ audit' = audit \cup {AuditRow(r)}
  /\ status' = [status EXCEPT ![input[r].answer] = input[r].decision]
  /\ Forget(r)
  /\ UNCHANGED shared

\* session.refresh(row) takes a connection again; the response is 201.
Respond(r) ==
  /\ ConnectionFree
  /\ Goto(r, "committed", "ok")
  /\ UNCHANGED <<dbVars, input, prev, startedAt, staged, eventId, shared>>

\* An error in any statement rolls back; one in the refresh comes too late to.
Fail(r) ==
  /\ pc[r] \in OpenPcs \cup {"committed"}
  /\ pc' = [pc EXCEPT ![r] = "error"]
  /\ Forget(r)
  /\ UNCHANGED <<dbVars, shared>>

\* The process dies: the server rolls every open transaction back, and no
\* request that was being served gets its answer.
Crash ==
  /\ \E r \in Requests : pc[r] \in OpenPcs \cup {"committed"}
  /\ pc' = [r \in Requests |-> IF pc[r] \in OpenPcs \cup {"committed"}
                                THEN "error" ELSE pc[r]]
  /\ input' = [r \in Requests |-> NoInput]
  /\ prev' = [r \in Requests |-> "none"]
  /\ startedAt' = [r \in Requests |-> 0]
  /\ staged' = [r \in Requests |-> {}]
  /\ eventId' = [r \in Requests |-> 0]
  /\ UNCHANGED <<dbVars, shared>>

-----------------------------------------------------------------------------
\* What the server does for a request once it has begun.
Serve(r) == \/ ReadAnswer(r) \/ Refuse(r) \/ InsertDecision(r)
            \/ UpdateStatus(r) \/ InsertAudit(r) \/ Commit(r) \/ Respond(r)

Arrive(r) == \/ PoolTimeout(r)
             \/ \E d \in AnswerStatus, c \in Comments :
                  RejectBody(r, d, c) \/ \E a \in Answers : Begin(r, a, d, c)

Next == \/ \E a \in Answers : GenerateAnswer(a)
        \/ \E r \in Requests : Arrive(r) \/ Serve(r) \/ Fail(r)
        \/ Crash

Spec == Init /\ [][Next]_vars

\* The event loop keeps running a request that can run; clients, failures
\* and crashes are under no obligation.
FairSpec == Spec /\ \A r \in Requests : WF_vars(Serve(r))

-----------------------------------------------------------------------------
TypeOK ==
  /\ status \in [Answers -> AnswerStatus \cup {"none"}]
  /\ decisions \in SUBSET [request : Requests, answer : Answers,
                           decision : AnswerStatus, comment : Comments, createdAt : Nat]
  /\ audit \in SUBSET [id : Nat, decisionId : Requests, answer : Answers,
                       fromStatus : AnswerStatus, toStatus : AnswerStatus,
                       hasComment : BOOLEAN]
  /\ pc \in [Requests -> {"new", "committed"} \cup OpenPcs \cup FinalPcs]
  /\ input \in [Requests -> Inputs \cup {NoInput}]
  /\ prev \in [Requests -> AnswerStatus \cup {"none"}]
  /\ startedAt \in [Requests -> Nat]
  /\ staged \in [Requests -> SUBSET Writes]
  /\ eventId \in [Requests -> Nat]
  /\ clock \in Nat
  /\ lastEventId \in Nat
  /\ poolSize \in PoolSizes

DecisionsOn(a) == {d \in decisions : d.answer = a}
EventsOn(a) == {e \in audit : e.answer = a}

\* Every status an answer has had: the default, then the decided ones.
Held(a) == IF status[a] = "none" THEN {}
           ELSE {"pending_review"} \cup {d.decision : d \in DecisionsOn(a)}

(***************************************************************************)
(* Properties that hold however requests interleave, fail or crash.        *)
(***************************************************************************)

\* The audit trail and the decision history are the same history: decide
\* stages its audit row in the transaction of its decision row, so each
\* decision has exactly one event, which says what the row says.
AuditMirrorsDecisions ==
  /\ \A d \in decisions : \E e \in audit :
       /\ e.decisionId = d.request
       /\ e.answer = d.answer
       /\ e.toStatus = d.decision
       /\ e.hasComment = (d.comment # "absent")
  /\ \A e \in audit : \E d \in decisions : d.request = e.decisionId
  /\ \A e, f \in audit : e.decisionId = f.decisionId \/ e.id = f.id => e = f

\* Whatever decide read before its awaits, the from_status it writes to the
\* audit trail is one the answer has really had, and the recorded move is one
\* the transition map allows.
AuditedMovesAreLegal ==
  \A e \in audit : /\ e.fromStatus \in Held(e.answer)
                   /\ e.toStatus \in AllowedDecisions(e.fromStatus)

\* answers.review_status and the decision history never disagree on whether
\* an answer was decided, and the status is always a decided one: the UPDATE
\* and the INSERT of decide are committed or lost together.
StatusHasADecision ==
  \A a \in Answers :
    /\ status[a] \in {"none", "pending_review"} <=> DecisionsOn(a) = {}
    /\ status[a] \notin {"none", "pending_review"} =>
         \E d \in DecisionsOn(a) : d.decision = status[a]

\* A 201 is only sent for a decision that is in the database, and a refusal
\* (404, 409, 422) leaves no trace of the request there.
ResponsesAreTruthful ==
  \A r \in Requests :
    /\ pc[r] = "ok" => \E d \in decisions : d.request = r
    /\ pc[r] = "refused" => \A d \in decisions : d.request # r

\* Seen from outside, decide is check-then-act: it applies only decisions
\* that were legal when it read the answer, each at most once, and a request
\* that fails or is refused changes no status at all.
OpenDecisions == {[request |-> r, answer |-> input[r].answer,
                   from |-> prev[r], to |-> input[r].decision] :
                  r \in {q \in Requests : PastCheck(q)}}
Lifecycle == INSTANCE ReviewLifecycle WITH open <- OpenDecisions
CheckThenAct == Lifecycle!CheckThenActSpec

\* What is left of "terminal" under concurrency: once an answer is terminal
\* and no request that passed its check is still running, it is settled for
\* good; whatever arrives from then on is refused.
Settled(a) == /\ status[a] \in Terminal
              /\ \A r \in Requests : PastCheck(r) => input[r].answer # a
SettledIsForGood ==
  [][\A a \in Answers : Settled(a) => status'[a] = status[a] /\ Settled(a)']_vars

\* decide cannot hang: a request that was let in is answered, whoever holds
\* the row lock or the connections it waits for.
RequestsAreAnswered ==
  \A r \in Requests : pc[r] = "begun" ~> pc[r] \in FinalPcs

(***************************************************************************)
(* Properties that hold only while requests take turns (poolSize = 1).     *)
(***************************************************************************)

\* The documented lifecycle: one request at a time, each decision moves the
\* answer along the transition map from the status it has at that moment.
AtomicLifecycle == [][poolSize = 1 => Lifecycle!AtomicNext]_status

\* "answers.review_status always reflects the latest decision": the one with
\* the greatest created_at in the full history.
StatusMatchesLatestDecision ==
  \A d \in decisions :
    (\A o \in DecisionsOn(d.answer) : o.createdAt <= d.createdAt)
      => status[d.answer] = d.decision

\* Read in id order, as the audit page shows them, the events of one answer
\* form a chain: each from_status is the to_status of the event before it.
AuditTrailChains ==
  \A e \in audit :
    LET earlier == {f \in EventsOn(e.answer) : f.id < e.id}
    IN  IF earlier = {} THEN e.fromStatus = "pending_review"
        ELSE \E f \in earlier : /\ \A g \in earlier : g.id <= f.id
                                /\ f.toStatus = e.fromStatus

\* The history of an answer can be read from either table: its decisions by
\* created_at and its events by id tell how it came to its status.
HistoryIsLinear == poolSize = 1 => StatusMatchesLatestDecision /\ AuditTrailChains

\* "approved / rejected are terminal": a status that decide has made terminal
\* never changes again.  This is documented of every deployment, and does not
\* hold once two requests can overlap.
TerminalIsFinal ==
  [][\A a \in Answers : status[a] \in Terminal => status'[a] = status[a]]_vars
==============================================================================
