---------------------------- MODULE ReviewProofs ----------------------------
(***************************************************************************)
(* Proofs about Review for every set of answers, every set of requests and *)
(* every pool size.                                                        *)
(*                                                                         *)
(* The invariants are not inductive on their own: what COMMIT writes was   *)
(* put together over several steps.  Locals says what a request carries    *)
(* through those steps.                                                    *)
(***************************************************************************)
EXTENDS Review, FiniteSetTheorems, TLAPS

\* What a request holds in memory at each point of decide.
Locals ==
  \A r \in Requests :
    /\ pc[r] \in OpenPcs => input[r] \in Inputs
    /\ PastCheck(r) => /\ prev[r] \in AnswerStatus
                       /\ status[input[r].answer] # "none"
                       /\ input[r].decision \in AllowedDecisions(prev[r])
                       /\ prev[r] \in Held(input[r].answer)
    /\ staged[r] # {} => pc[r] = "flushing"

\* One step of one request, or of the environment, by name.
LEMMA TypeInit == Init => TypeOK /\ Locals
BY DEF Init, TypeOK, Locals, OpenPcs, PastCheck, NoInput

LEMMA TypeStep == TypeOK /\ Locals /\ [Next]_vars => TypeOK'
<1> SUFFICES ASSUME TypeOK, Locals, [Next]_vars PROVE TypeOK'
  OBVIOUS
<1> USE DEF TypeOK, OpenPcs, FinalPcs, Inputs, dbVars, reqVars, shared, Goto, Forget
<1>1. CASE UNCHANGED vars
  BY <1>1 DEF vars
<1>2. ASSUME NEW a \in Answers, GenerateAnswer(a) PROVE TypeOK'
  BY <1>2 DEF GenerateAnswer, AnswerStatus
<1>3. ASSUME NEW r \in Requests, PoolTimeout(r) PROVE TypeOK'
  BY <1>3 DEF PoolTimeout
<1>4. ASSUME NEW r \in Requests, NEW d \in AnswerStatus, NEW c \in Comments, RejectBody(r, d, c)
      PROVE TypeOK'
  BY <1>4 DEF RejectBody
<1>5. ASSUME NEW r \in Requests, NEW a \in Answers, NEW d \in AnswerStatus,
             NEW c \in Comments, Begin(r, a, d, c)
      PROVE TypeOK'
  BY <1>5 DEF Begin
<1>6. ASSUME NEW r \in Requests, ReadAnswer(r) PROVE TypeOK'
  BY <1>6 DEF ReadAnswer, Locals
<1>7. ASSUME NEW r \in Requests, Refuse(r) PROVE TypeOK'
  BY <1>7 DEF Refuse
<1>8. ASSUME NEW r \in Requests, InsertDecision(r) PROVE TypeOK'
  BY <1>8 DEF InsertDecision, Writes
<1>9. ASSUME NEW r \in Requests, UpdateStatus(r) PROVE TypeOK'
  BY <1>9 DEF UpdateStatus, Writes
<1>10. ASSUME NEW r \in Requests, InsertAudit(r) PROVE TypeOK'
  BY <1>10 DEF InsertAudit, Writes
<1>11. ASSUME NEW r \in Requests, Commit(r) PROVE TypeOK'
  <2>1. input[r] \in Inputs /\ prev[r] \in AnswerStatus
    BY <1>11 DEF Commit, Locals, PastCheck
  <2>2. DecisionRow(r) \in [request : Requests, answer : Answers, decision : AnswerStatus,
                            comment : Comments, createdAt : Nat]
    BY <2>1 DEF DecisionRow
  <2>3. AuditRow(r) \in [id : Nat, decisionId : Requests, answer : Answers,
                         fromStatus : AnswerStatus, toStatus : AnswerStatus,
                         hasComment : BOOLEAN]
    BY <2>1 DEF AuditRow
  <2>. QED BY <1>11, <2>1, <2>2, <2>3 DEF Commit
<1>12. ASSUME NEW r \in Requests, Respond(r) PROVE TypeOK'
  BY <1>12 DEF Respond
<1>13. ASSUME NEW r \in Requests, Fail(r) PROVE TypeOK'
  BY <1>13 DEF Fail
<1>14. CASE Crash
  BY <1>14 DEF Crash
<1>. QED BY <1>1, <1>2, <1>3, <1>4, <1>5, <1>6, <1>7, <1>8, <1>9, <1>10, <1>11, <1>12,
            <1>13, <1>14 DEF Next, Arrive, Serve

\* Only two actions write to the database.
LEMMA DatabaseSteps ==
  [Next]_vars => \/ UNCHANGED dbVars
                 \/ \E a \in Answers : GenerateAnswer(a)
                 \/ \E r \in Requests : Commit(r)
BY DEF Next, Arrive, Serve, vars, PoolTimeout, RejectBody, Begin, ReadAnswer, Refuse,
       InsertDecision, UpdateStatus, InsertAudit, Respond, Fail, Crash

\* An answer stays in existence and keeps the statuses it has had.
LEMMA HeldGrows ==
  ASSUME TypeOK, Locals, [Next]_vars, NEW a \in Answers
  PROVE  /\ status[a] # "none" => status'[a] # "none"
         /\ Held(a) \subseteq Held(a)'
<1>1. CASE UNCHANGED dbVars
  BY <1>1 DEF dbVars, Held, DecisionsOn
<1>2. ASSUME NEW b \in Answers, GenerateAnswer(b)
      PROVE  /\ status[a] # "none" => status'[a] # "none"
             /\ Held(a) \subseteq Held(a)'
  BY <1>2 DEF GenerateAnswer, TypeOK, Held, DecisionsOn
<1>3. ASSUME NEW r \in Requests, Commit(r)
      PROVE  /\ status[a] # "none" => status'[a] # "none"
             /\ Held(a) \subseteq Held(a)'
  <2>1. input[r] \in Inputs
    BY <1>3 DEF Commit, Goto, Locals, OpenPcs
  <2>2. status'[a] \in {status[a], input[r].decision}
    BY <1>3 DEF Commit, TypeOK
  <2>3. status[a] # "none" => status'[a] # "none"
    BY <2>1, <2>2 DEF Inputs, AnswerStatus
  <2>4. status[input[r].answer] # "none"
    BY <1>3 DEF Commit, Goto, Locals, PastCheck
  <2>5. status[a] = "none" => status'[a] = "none"
    BY <1>3, <2>1, <2>4 DEF Commit, TypeOK, Inputs
  <2>6. DecisionsOn(a) \subseteq DecisionsOn(a)'
    BY <1>3 DEF Commit, DecisionsOn
  <2>. QED BY <2>3, <2>5, <2>6 DEF Held
<1>. QED BY <1>1, <1>2, <1>3, DatabaseSteps

\* The status of an existing answer is one it has had.
LEMMA StatusIsHeld ==
  ASSUME TypeOK, StatusHasADecision, NEW a \in Answers, status[a] # "none"
  PROVE  status[a] \in Held(a)
BY DEF StatusHasADecision, Held

LEMMA LocalsStep == TypeOK /\ Locals /\ StatusHasADecision /\ [Next]_vars => Locals'
<1> DEFINE LocalsOf(q) ==
      /\ pc[q] \in OpenPcs => input[q] \in Inputs
      /\ PastCheck(q) => /\ prev[q] \in AnswerStatus
                         /\ status[input[q].answer] # "none"
                         /\ input[q].decision \in AllowedDecisions(prev[q])
                         /\ prev[q] \in Held(input[q].answer)
      /\ staged[q] # {} => pc[q] = "flushing"
<1> SUFFICES ASSUME TypeOK, Locals, StatusHasADecision, [Next]_vars, NEW q \in Requests
             PROVE  LocalsOf(q)'
  BY DEF Locals
<1>0. LocalsOf(q)
  BY DEF Locals
<1>a. ASSUME pc'[q] = pc[q], input'[q] = input[q], prev'[q] = prev[q], staged'[q] = staged[q]
      PROVE  LocalsOf(q)'
  <2>1. PastCheck(q)' = PastCheck(q)
    BY <1>a DEF PastCheck
  <2>2. PastCheck(q) => input[q].answer \in Answers
    BY <1>0 DEF PastCheck, OpenPcs, Inputs
  <2>. QED BY <1>a, <1>0, <2>1, <2>2, HeldGrows
<1>b. ASSUME pc'[q] \notin OpenPcs, staged'[q] = {}
      PROVE  LocalsOf(q)'
  BY <1>b DEF PastCheck, OpenPcs
<1> USE DEF TypeOK, Goto, Forget, reqVars, shared
<1>1. CASE UNCHANGED vars
  BY <1>1, <1>a DEF vars
<1>2. ASSUME NEW a \in Answers, GenerateAnswer(a) PROVE LocalsOf(q)'
  BY <1>2, <1>a DEF GenerateAnswer
<1>3. ASSUME NEW r \in Requests, PoolTimeout(r) PROVE LocalsOf(q)'
  <2>1. CASE q = r
    BY <1>3, <1>0, <1>b, <2>1 DEF PoolTimeout, OpenPcs
  <2>. QED BY <1>3, <1>a, <2>1 DEF PoolTimeout
<1>4. ASSUME NEW r \in Requests, NEW d \in AnswerStatus, NEW c \in Comments, RejectBody(r, d, c)
      PROVE LocalsOf(q)'
  <2>1. CASE q = r
    BY <1>4, <1>0, <1>b, <2>1 DEF RejectBody, OpenPcs
  <2>. QED BY <1>4, <1>a, <2>1 DEF RejectBody
<1>5. ASSUME NEW r \in Requests, NEW a \in Answers, NEW d \in AnswerStatus,
             NEW c \in Comments, Begin(r, a, d, c)
      PROVE LocalsOf(q)'
  <2>1. CASE q = r
    BY <1>5, <1>0, <2>1 DEF Begin, OpenPcs, PastCheck, Inputs
  <2>. QED BY <1>5, <1>a, <2>1 DEF Begin
<1>6. ASSUME NEW r \in Requests, ReadAnswer(r) PROVE LocalsOf(q)'
  <2>1. CASE q = r
    <3>1. /\ input[r] \in Inputs
          /\ input' = input /\ staged' = staged /\ pc'[r] = "checked" /\ pc[r] = "begun"
          /\ prev'[r] = status[input[r].answer]
          /\ Acceptable(r)
      BY <1>6, <1>0, <2>1 DEF ReadAnswer, OpenPcs
    <3>2. status[input[r].answer] \in Held(input[r].answer)
      BY <3>1, StatusIsHeld DEF Acceptable, Inputs
    <3>3. /\ Held(input[r].answer) = Held(input[r].answer)'
          /\ status' = status
      BY <1>6 DEF ReadAnswer, Held, DecisionsOn, dbVars
    <3>4. status[input[r].answer] \in AnswerStatus
      BY <3>1 DEF Acceptable, Inputs
    <3>. QED BY <2>1, <3>1, <3>2, <3>3, <3>4, <1>0 DEF Acceptable, PastCheck
  <2>. QED BY <1>6, <1>a, <2>1 DEF ReadAnswer
<1>7. ASSUME NEW r \in Requests, Refuse(r) PROVE LocalsOf(q)'
  <2>1. CASE q = r
    BY <1>7, <1>b, <2>1 DEF Refuse, OpenPcs
  <2>. QED BY <1>7, <1>a, <2>1 DEF Refuse
<1>8. ASSUME NEW r \in Requests, InsertDecision(r) PROVE LocalsOf(q)'
  <2>1. CASE q = r
    <3>1. /\ pc[q] = "checked" /\ pc'[q] = "flushing"
          /\ input' = input /\ prev' = prev
      BY <1>8, <2>1 DEF InsertDecision
    <3>2. Held(input[q].answer) \subseteq Held(input[q].answer)' /\ status' = status
      BY <1>8 DEF InsertDecision, Held, DecisionsOn, dbVars
    <3>. QED BY <1>0, <3>1, <3>2 DEF PastCheck, OpenPcs
  <2>. QED BY <1>8, <1>a, <2>1 DEF InsertDecision
<1>9. ASSUME NEW r \in Requests, UpdateStatus(r) \/ InsertAudit(r) PROVE LocalsOf(q)'
  <2>1. CASE q = r
    <3>1. /\ pc[q] = "flushing" /\ pc' = pc /\ input' = input /\ prev' = prev
      BY <1>9, <2>1 DEF UpdateStatus, InsertAudit
    <3>2. Held(input[q].answer) \subseteq Held(input[q].answer)' /\ status' = status
      BY <1>9 DEF UpdateStatus, InsertAudit, Held, DecisionsOn, dbVars
    <3>. QED BY <1>0, <3>1, <3>2 DEF PastCheck, OpenPcs
  <2>. QED BY <1>9, <1>a, <2>1 DEF UpdateStatus, InsertAudit
<1>11. ASSUME NEW r \in Requests, Commit(r) PROVE LocalsOf(q)'
  <2>1. CASE q = r
    BY <1>11, <1>b, <2>1 DEF Commit, OpenPcs
  <2>. QED BY <1>11, <1>a, <2>1 DEF Commit
<1>12. ASSUME NEW r \in Requests, Respond(r) PROVE LocalsOf(q)'
  <2>1. CASE q = r
    BY <1>12, <1>0, <1>b, <2>1 DEF Respond, OpenPcs
  <2>. QED BY <1>12, <1>a, <2>1 DEF Respond
<1>13. ASSUME NEW r \in Requests, Fail(r) PROVE LocalsOf(q)'
  <2>1. CASE q = r
    BY <1>13, <1>b, <2>1 DEF Fail, OpenPcs
  <2>. QED BY <1>13, <1>a, <2>1 DEF Fail
<1>14. CASE Crash
  BY <1>14, <1>b DEF Crash, OpenPcs
<1>. QED BY <1>1, <1>2, <1>3, <1>4, <1>5, <1>6, <1>7, <1>8, <1>9, <1>11, <1>12,
            <1>13, <1>14 DEF Next, Arrive, Serve

LEMMA StatusHasADecisionStep ==
  TypeOK /\ Locals /\ StatusHasADecision /\ [Next]_vars => StatusHasADecision'
<1> SUFFICES ASSUME TypeOK, Locals, StatusHasADecision, [Next]_vars
             PROVE  StatusHasADecision'
  OBVIOUS
<1>1. CASE UNCHANGED dbVars
  BY <1>1 DEF dbVars, StatusHasADecision, DecisionsOn
<1>2. ASSUME NEW b \in Answers, GenerateAnswer(b) PROVE StatusHasADecision'
  BY <1>2 DEF GenerateAnswer, TypeOK, StatusHasADecision, DecisionsOn
<1>3. ASSUME NEW r \in Requests, Commit(r) PROVE StatusHasADecision'
  <2>0. PICK b, d : b = input[r].answer /\ d = input[r].decision
    OBVIOUS
  <2>1. input[r] \in Inputs /\ d \in AllowedDecisions(prev[r]) /\ prev[r] \in AnswerStatus
    BY <1>3, <2>0 DEF Commit, Goto, Locals, OpenPcs, PastCheck
  <2>2. b \in Answers /\ d \notin {"none", "pending_review"}
    BY <2>0, <2>1 DEF Inputs, AllowedDecisions, ALLOWED_TRANSITIONS, AnswerStatus
  <2>3. /\ status' = [status EXCEPT ![b] = d]
        /\ decisions' = decisions \cup {DecisionRow(r)}
    BY <1>3, <2>0 DEF Commit
  <2>4. DecisionRow(r).answer = b /\ DecisionRow(r).decision = d
    BY <2>0 DEF DecisionRow
  <2>5. ASSUME NEW a \in Answers, a # b
        PROVE  status'[a] = status[a] /\ DecisionsOn(a)' = DecisionsOn(a)
    BY <2>3, <2>4, <2>5 DEF TypeOK, DecisionsOn
  <2>6. status'[b] = d /\ DecisionRow(r) \in DecisionsOn(b)'
    BY <2>2, <2>3, <2>4 DEF TypeOK, DecisionsOn
  <2>7. ASSUME NEW a \in Answers
        PROVE  /\ status'[a] \in {"none", "pending_review"} <=> DecisionsOn(a)' = {}
               /\ status'[a] \notin {"none", "pending_review"} =>
                    \E o \in DecisionsOn(a)' : o.decision = status'[a]
    <3>1. CASE a = b
      BY <3>1, <2>6, <2>2, <2>4
    <3>2. CASE a # b
      BY <3>2, <2>5 DEF StatusHasADecision
    <3>. QED BY <3>1, <3>2
  <2>. QED BY <2>7 DEF StatusHasADecision
<1>. QED BY <1>1, <1>2, <1>3, DatabaseSteps

-----------------------------------------------------------------------------
IInv == TypeOK /\ Locals /\ StatusHasADecision

LEMMA IInvInvariant == Spec => []IInv
<1>1. Init => IInv
  BY TypeInit DEF IInv, Init, StatusHasADecision, DecisionsOn
<1>2. IInv /\ [Next]_vars => IInv'
  BY TypeStep, LocalsStep, StatusHasADecisionStep DEF IInv
<1>. QED BY <1>1, <1>2, PTL DEF Spec

\* Every variable of the endpoint keeps its type in every behaviour.
THEOREM TypeCorrect == Spec => []TypeOK
BY IInvInvariant, PTL DEF IInv

\* The status column and the decision history agree on whether, and how, an
\* answer was decided.
THEOREM StatusAgreesWithHistory == Spec => []StatusHasADecision
BY IInvInvariant, PTL DEF IInv

-----------------------------------------------------------------------------
(***************************************************************************)
(* The audit trail.  Rows says which requests can own rows, and that an     *)
(* identity value is never given out twice.                                *)
(***************************************************************************)
Written == {"committed", "ok", "error"}

Rows ==
  /\ \A d \in decisions : pc[d.request] \in Written
  /\ \A e \in audit : pc[e.decisionId] \in Written /\ e.id <= lastEventId
  /\ \A r \in Requests :
       pc[r] \in {"committed", "ok"} => \E d \in decisions : d.request = r
  /\ \A r \in Requests : "audit" \in staged[r] =>
       /\ eventId[r] <= lastEventId
       /\ \A e \in audit : e.id # eventId[r]
       /\ \A q \in Requests \ {r} : "audit" \in staged[q] => eventId[q] # eventId[r]

\* Steps that write no row and draw no identity value.
LEMMA RowsQuiet ==
  ASSUME TypeOK, Rows, UNCHANGED dbVars, lastEventId' = lastEventId,
         \A r \in Requests : /\ pc[r] \in Written => pc'[r] \in Written
                             /\ pc'[r] \in {"committed", "ok"} =>
                                  pc[r] \in {"committed", "ok"}
                             /\ "audit" \in staged'[r] =>
                                  "audit" \in staged[r] /\ eventId'[r] = eventId[r]
  PROVE  Rows'
BY DEF Rows, TypeOK, dbVars

LEMMA RowsStep == TypeOK /\ Locals /\ Rows /\ [Next]_vars => Rows'
<1> SUFFICES ASSUME TypeOK, Locals, Rows, [Next]_vars PROVE Rows'
  OBVIOUS
<1> USE DEF TypeOK, Goto, Forget, reqVars, shared, Written
<1>1. CASE UNCHANGED vars
  BY <1>1, RowsQuiet DEF vars, dbVars
<1>2. ASSUME NEW a \in Answers, GenerateAnswer(a) PROVE Rows'
  BY <1>2 DEF GenerateAnswer, Rows
<1>3. ASSUME NEW r \in Requests, PoolTimeout(r) PROVE Rows'
  BY <1>3, RowsQuiet DEF PoolTimeout, dbVars
<1>4. ASSUME NEW r \in Requests, NEW d \in AnswerStatus, NEW c \in Comments, RejectBody(r, d, c)
      PROVE Rows'
  BY <1>4, RowsQuiet DEF RejectBody, dbVars
<1>5. ASSUME NEW r \in Requests, NEW a \in Answers, NEW d \in AnswerStatus,
             NEW c \in Comments, Begin(r, a, d, c)
      PROVE Rows'
  BY <1>5, RowsQuiet DEF Begin, dbVars
<1>6. ASSUME NEW r \in Requests, ReadAnswer(r) PROVE Rows'
  BY <1>6, RowsQuiet DEF ReadAnswer, dbVars
<1>7. ASSUME NEW r \in Requests, Refuse(r) PROVE Rows'
  BY <1>7, RowsQuiet DEF Refuse, dbVars
<1>8. ASSUME NEW r \in Requests, InsertDecision(r) PROVE Rows'
  BY <1>8, RowsQuiet DEF InsertDecision, dbVars
<1>9. ASSUME NEW r \in Requests, UpdateStatus(r) PROVE Rows'
  BY <1>9, RowsQuiet DEF UpdateStatus, dbVars
<1>10. ASSUME NEW r \in Requests, InsertAudit(r) PROVE Rows'
  BY <1>10 DEF InsertAudit, dbVars, Rows
<1>11. ASSUME NEW r \in Requests, Commit(r) PROVE Rows'
  <2>1. /\ decisions' = decisions \cup {DecisionRow(r)}
        /\ audit' = audit \cup {AuditRow(r)}
        /\ pc' = [pc EXCEPT ![r] = "committed"]
        /\ staged' = [staged EXCEPT ![r] = {}]
        /\ eventId' = [eventId EXCEPT ![r] = 0]
        /\ lastEventId' = lastEventId
        /\ "audit" \in staged[r]
    BY <1>11 DEF Commit, Writes
  <2>2. /\ DecisionRow(r).request = r
        /\ AuditRow(r).decisionId = r /\ AuditRow(r).id = eventId[r]
    BY DEF DecisionRow, AuditRow
  <2>. QED BY <2>1, <2>2 DEF Rows
<1>12. ASSUME NEW r \in Requests, Respond(r) PROVE Rows'
  BY <1>12, RowsQuiet DEF Respond, dbVars
<1>13. ASSUME NEW r \in Requests, Fail(r) PROVE Rows'
  BY <1>13, RowsQuiet DEF Fail, dbVars, OpenPcs
<1>14. CASE Crash
  BY <1>14, RowsQuiet DEF Crash, dbVars, OpenPcs
<1>. QED BY <1>1, <1>2, <1>3, <1>4, <1>5, <1>6, <1>7, <1>8, <1>9, <1>10, <1>11, <1>12,
            <1>13, <1>14 DEF Next, Arrive, Serve

LEMMA MirrorStep ==
  TypeOK /\ Locals /\ Rows /\ AuditMirrorsDecisions /\ [Next]_vars => AuditMirrorsDecisions'
<1> SUFFICES ASSUME TypeOK, Locals, Rows, AuditMirrorsDecisions, [Next]_vars
             PROVE  AuditMirrorsDecisions'
  OBVIOUS
<1>1. CASE UNCHANGED <<decisions, audit>>
  BY <1>1 DEF AuditMirrorsDecisions
<1>2. ASSUME NEW r \in Requests, Commit(r) PROVE AuditMirrorsDecisions'
  <2>1. /\ decisions' = decisions \cup {DecisionRow(r)}
        /\ audit' = audit \cup {AuditRow(r)}
        /\ "audit" \in staged[r]
    BY <1>2 DEF Commit, Writes
  <2>2. \A e \in audit : e.decisionId # r /\ e.id # eventId[r]
    BY <1>2, <2>1 DEF Commit, Goto, Rows, Written, TypeOK
  <2>3. /\ DecisionRow(r).request = r
        /\ AuditRow(r).decisionId = r /\ AuditRow(r).id = eventId[r]
        /\ AuditRow(r).answer = DecisionRow(r).answer
        /\ AuditRow(r).toStatus = DecisionRow(r).decision
        /\ AuditRow(r).hasComment = (DecisionRow(r).comment # "absent")
    BY DEF DecisionRow, AuditRow
  <2>4. \A d \in decisions' : \E e \in audit' :
          /\ e.decisionId = d.request
          /\ e.answer = d.answer
          /\ e.toStatus = d.decision
          /\ e.hasComment = (d.comment # "absent")
    BY <2>1, <2>3 DEF AuditMirrorsDecisions
  <2>5. \A e \in audit' : \E d \in decisions' : d.request = e.decisionId
    BY <2>1, <2>3 DEF AuditMirrorsDecisions
  <2>6. \A e, f \in audit' : e.decisionId = f.decisionId \/ e.id = f.id => e = f
    BY <2>1, <2>2, <2>3 DEF AuditMirrorsDecisions
  <2>. QED BY <2>4, <2>5, <2>6 DEF AuditMirrorsDecisions
<1>. QED BY <1>1, <1>2, DatabaseSteps DEF dbVars, GenerateAnswer

LEMMA AuditedMovesStep ==
  IInv /\ AuditedMovesAreLegal /\ [Next]_vars => AuditedMovesAreLegal'
<1> SUFFICES ASSUME IInv, AuditedMovesAreLegal, [Next]_vars, NEW e \in audit'
             PROVE  /\ e.fromStatus \in Held(e.answer)'
                    /\ e.toStatus \in AllowedDecisions(e.fromStatus)
  BY DEF AuditedMovesAreLegal
<1>1. CASE e \in audit
  BY <1>1, HeldGrows DEF AuditedMovesAreLegal, IInv, TypeOK
<1>2. CASE e \notin audit
  <2>1. PICK r \in Requests : Commit(r) /\ e = AuditRow(r)
    BY <1>2, DatabaseSteps DEF dbVars, GenerateAnswer, Commit
  <2>2. /\ input[r] \in Inputs
        /\ prev[r] \in Held(input[r].answer)
        /\ input[r].decision \in AllowedDecisions(prev[r])
    BY <2>1 DEF Commit, Goto, IInv, Locals, PastCheck, OpenPcs
  <2>3. e.fromStatus = prev[r] /\ e.toStatus = input[r].decision /\ e.answer = input[r].answer
    BY <2>1 DEF AuditRow
  <2>4. PICK a \in Answers : a = e.answer
    BY <2>2, <2>3 DEF Inputs
  <2>5. Held(a) \subseteq Held(a)'
    BY HeldGrows DEF IInv
  <2>. QED BY <2>2, <2>3, <2>4, <2>5
<1>. QED BY <1>1, <1>2

LEMMA AuditInvariant == Spec => [](Rows /\ AuditMirrorsDecisions /\ AuditedMovesAreLegal)
<1>1. Init => Rows /\ AuditMirrorsDecisions /\ AuditedMovesAreLegal
  BY DEF Init, Rows, AuditMirrorsDecisions, AuditedMovesAreLegal
<1>2. IInv /\ Rows /\ AuditMirrorsDecisions /\ AuditedMovesAreLegal /\ [Next]_vars
        => (Rows /\ AuditMirrorsDecisions /\ AuditedMovesAreLegal)'
  BY RowsStep, MirrorStep, AuditedMovesStep DEF IInv
<1>. QED BY <1>1, <1>2, IInvInvariant, PTL DEF Spec

\* Each decision has exactly one audit event and each event its decision, with
\* the same answer, verdict and comment flag, in every behaviour.
THEOREM AuditMirrors == Spec => []AuditMirrorsDecisions
BY AuditInvariant, PTL

\* Each audited move starts from a status the answer has had and is allowed by
\* the transition map.
THEOREM AuditedMoves == Spec => []AuditedMovesAreLegal
BY AuditInvariant, PTL

\* 201 means committed; 404, 409 and 422 mean nothing was written.
THEOREM TruthfulResponses == Spec => []ResponsesAreTruthful
<1>1. TypeOK /\ Rows => ResponsesAreTruthful
  BY DEF Rows, ResponsesAreTruthful, Written, TypeOK
<1>. QED BY <1>1, TypeCorrect, AuditInvariant, PTL

-----------------------------------------------------------------------------
(***************************************************************************)
(* Which requests are past their check, before and after a step.           *)
(***************************************************************************)
SameRequest(q) == PastCheck(q) /\ input'[q] = input[q] /\ prev'[q] = prev[q]
Admitted(q) == /\ Acceptable(q) /\ input[q] \in Inputs /\ ~PastCheck(q)
               /\ input'[q] = input[q] /\ prev'[q] = status[input[q].answer]

\* ReadAnswer is the only way past the check.
LEMMA OnlyReadAnswerAdmits ==
  ASSUME TypeOK, Locals, [Next]_vars, NEW q \in Requests, PastCheck(q)'
  PROVE  \/ SameRequest(q)
         \/ ReadAnswer(q) /\ Admitted(q)
<1> USE DEF TypeOK, Goto, Forget, reqVars, PastCheck, SameRequest
<1>1. CASE UNCHANGED vars
  BY <1>1 DEF vars
<1>2. ASSUME NEW a \in Answers, GenerateAnswer(a) PROVE SameRequest(q)
  BY <1>2 DEF GenerateAnswer
<1>3. ASSUME NEW r \in Requests, Arrive(r) PROVE SameRequest(q)
  BY <1>3 DEF Arrive, PoolTimeout, RejectBody, Begin
<1>4. ASSUME NEW r \in Requests, ReadAnswer(r)
      PROVE  SameRequest(q) \/ (ReadAnswer(q) /\ Admitted(q))
  <2>1. CASE q = r
    BY <1>4, <2>1 DEF ReadAnswer, Admitted, Locals, OpenPcs
  <2>2. ASSUME q # r PROVE SameRequest(q)
    <3>1. pc'[q] = pc[q] /\ prev'[q] = prev[q] /\ input' = input
      BY <1>4, <2>2 DEF ReadAnswer
    <3>. QED BY <3>1
  <2>. QED BY <2>1, <2>2
<1>5. ASSUME NEW r \in Requests, Refuse(r) \/ Commit(r) \/ Respond(r) \/ Fail(r)
      PROVE  SameRequest(q)
  BY <1>5 DEF Refuse, Commit, Respond, Fail
<1>6. ASSUME NEW r \in Requests, InsertDecision(r) \/ UpdateStatus(r) \/ InsertAudit(r)
      PROVE  SameRequest(q)
  BY <1>6 DEF InsertDecision, UpdateStatus, InsertAudit
<1>7. CASE Crash
  BY <1>7 DEF Crash, OpenPcs
<1>. QED BY <1>1, <1>2, <1>3, <1>4, <1>5, <1>6, <1>7 DEF Next, Serve

LEMMA SettledStep ==
  ASSUME IInv, [Next]_vars, NEW a \in Answers, Settled(a)
  PROVE  status'[a] = status[a] /\ Settled(a)'
<1>1. status'[a] = status[a]
  <2>1. CASE UNCHANGED dbVars
    BY <2>1 DEF dbVars
  <2>2. ASSUME NEW b \in Answers, GenerateAnswer(b) PROVE status'[a] = status[a]
    BY <2>2 DEF GenerateAnswer, Settled, Terminal, AnswerStatus, IInv, TypeOK
  <2>3. ASSUME NEW r \in Requests, Commit(r) PROVE status'[a] = status[a]
    BY <2>3 DEF Commit, Goto, Settled, PastCheck, IInv, TypeOK
  <2>. QED BY <2>1, <2>2, <2>3, DatabaseSteps
<1>2. ASSUME NEW q \in Requests, PastCheck(q)' PROVE input'[q].answer # a
  <2>1. CASE SameRequest(q)
    BY <2>1 DEF SameRequest, Settled
  <2>2. CASE Admitted(q)
    BY <2>2 DEF Admitted, Acceptable, Settled, Terminal, AllowedDecisions
  <2>. QED BY <1>2, <2>1, <2>2, OnlyReadAnswerAdmits DEF IInv
<1>. QED BY <1>1, <1>2 DEF Settled

\* A terminal answer that no running request has already passed its check on
\* never changes again, however many requests arrive.
THEOREM SettledAnswersStay == Spec => SettledIsForGood
<1>1. IInv /\ [Next]_vars =>
        [\A a \in Answers : Settled(a) => status'[a] = status[a] /\ Settled(a)']_vars
  BY SettledStep
<1>. QED BY <1>1, IInvInvariant, PTL DEF Spec, SettledIsForGood

-----------------------------------------------------------------------------
(***************************************************************************)
(* Review implements the check-then-act lifecycle.                         *)
(***************************************************************************)
OpenOf(r) == [request |-> r, answer |-> input[r].answer,
              from |-> prev[r], to |-> input[r].decision]

LEMMA OpenMembers ==
  \A o : o \in OpenDecisions <=> \E r \in Requests : PastCheck(r) /\ o = OpenOf(r)
BY DEF OpenDecisions, OpenOf

LEMMA OpenMembersPrimed ==
  \A o : o \in OpenDecisions' <=> \E r \in Requests : PastCheck(r)' /\ o = OpenOf(r)'
BY DEF OpenDecisions, OpenOf

LEMMA OpenStays ==
  ASSUME UNCHANGED <<input, prev>>, \A r \in Requests : PastCheck(r)' = PastCheck(r)
  PROVE  OpenDecisions' = OpenDecisions
BY OpenMembers, OpenMembersPrimed DEF OpenOf

LEMMA OpenShrinks ==
  ASSUME \A r \in Requests : PastCheck(r)' => SameRequest(r)
  PROVE  OpenDecisions' \subseteq OpenDecisions
BY OpenMembers, OpenMembersPrimed DEF OpenOf, SameRequest

LEMMA ImplementsInit == Init => Lifecycle!NoAnswerYet /\ OpenDecisions = {}
<1> SUFFICES ASSUME Init PROVE Lifecycle!NoAnswerYet /\ OpenDecisions = {}
  OBVIOUS
<1>1. \A r \in Requests : ~PastCheck(r)
  BY DEF Init, PastCheck
<1>. QED BY <1>1, OpenMembers DEF Init, Lifecycle!NoAnswerYet

LEMMA ImplementsAdmit ==
  ASSUME IInv, [Next]_vars, NEW r \in Requests, ReadAnswer(r)
  PROVE  Lifecycle!CheckThenActNext
<1> DEFINE s == status[input[r].answer]
<1>0. PICK o : o = [request |-> r, answer |-> input[r].answer, from |-> s,
                    to |-> input[r].decision]
  OBVIOUS
<1>1. /\ Acceptable(r) /\ input[r] \in Inputs /\ ~PastCheck(r)
      /\ status' = status /\ input' = input
      /\ prev'[r] = s /\ pc' = [pc EXCEPT ![r] = "checked"]
      /\ \A q \in Requests \ {r} : prev'[q] = prev[q]
  BY DEF ReadAnswer, Goto, IInv, TypeOK, Locals, OpenPcs, PastCheck, dbVars
<1>2. s \in AnswerStatus
  BY <1>1 DEF Acceptable, Inputs, IInv, TypeOK
<1>3. o \in Lifecycle!OpenDecision
  BY <1>0, <1>1, <1>2 DEF Lifecycle!OpenDecision, Inputs, Lifecycle!AnswerStatus, AnswerStatus
<1>4. o = OpenOf(r)'
  BY <1>0, <1>1 DEF OpenOf
<1>5. /\ PastCheck(r)'
      /\ \A q \in Requests \ {r} : PastCheck(q)' = PastCheck(q) /\ OpenOf(q)' = OpenOf(q)
  BY <1>1 DEF PastCheck, OpenOf, IInv, TypeOK
<1>6. OpenDecisions' = OpenDecisions \cup {o}
  BY <1>1, <1>4, <1>5, OpenMembers, OpenMembersPrimed
<1>7. \A p \in OpenDecisions : p.request # o.request
  BY <1>0, <1>1, OpenMembers DEF OpenOf
<1>8. Lifecycle!AllowedDecisions(s) = AllowedDecisions(s)
  BY DEF Lifecycle!AllowedDecisions, AllowedDecisions, Lifecycle!ALLOWED_TRANSITIONS,
         ALLOWED_TRANSITIONS, Lifecycle!AnswerStatus, AnswerStatus
<1>9. Lifecycle!Admit(o)
  BY <1>0, <1>1, <1>6, <1>7, <1>8 DEF Lifecycle!Admit, Acceptable
<1>. QED BY <1>3, <1>9 DEF Lifecycle!CheckThenActNext

LEMMA ImplementsApply ==
  ASSUME IInv, [Next]_vars, NEW r \in Requests, Commit(r)
  PROVE  Lifecycle!CheckThenActNext
<1>0. PICK o : o = OpenOf(r)
  OBVIOUS
<1>1. /\ PastCheck(r) /\ input[r] \in Inputs /\ prev[r] \in AnswerStatus
      /\ status' = [status EXCEPT ![input[r].answer] = input[r].decision]
      /\ pc' = [pc EXCEPT ![r] = "committed"]
      /\ \A q \in Requests \ {r} : prev'[q] = prev[q] /\ input'[q] = input[q]
  BY DEF Commit, Goto, Forget, IInv, TypeOK, Locals, OpenPcs, PastCheck
<1>2. o \in Lifecycle!OpenDecision
  BY <1>0, <1>1 DEF OpenOf, Lifecycle!OpenDecision, Inputs, Lifecycle!AnswerStatus, AnswerStatus
<1>3. o \in OpenDecisions
  BY <1>0, <1>1, OpenMembers
<1>4. /\ ~PastCheck(r)'
      /\ \A q \in Requests \ {r} : PastCheck(q)' = PastCheck(q) /\ OpenOf(q)' = OpenOf(q)
  BY <1>1 DEF PastCheck, OpenOf, IInv, TypeOK
<1>5. \A q \in Requests \ {r} : OpenOf(q) # o
  BY <1>0 DEF OpenOf
<1>6. OpenDecisions' = OpenDecisions \ {o}
  BY <1>0, <1>4, <1>5, OpenMembers, OpenMembersPrimed
<1>7. Lifecycle!Apply(o)
  BY <1>0, <1>1, <1>3, <1>6 DEF Lifecycle!Apply, OpenOf
<1>. QED BY <1>2, <1>7 DEF Lifecycle!CheckThenActNext

LEMMA ImplementsStep ==
  ASSUME IInv, [Next]_vars
  PROVE  [Lifecycle!CheckThenActNext]_<<status, OpenDecisions>>
<1>1. CASE \E r \in Requests : ReadAnswer(r)
  BY <1>1, ImplementsAdmit
<1>2. CASE \E r \in Requests : Commit(r)
  BY <1>2, ImplementsApply
<1>3. CASE \A r \in Requests : ~ReadAnswer(r) /\ ~Commit(r)
  <2>1. OpenDecisions' \subseteq OpenDecisions
    BY <1>3, OnlyReadAnswerAdmits, OpenShrinks DEF IInv
  <2>2. CASE UNCHANGED dbVars
    BY <2>1, <2>2 DEF dbVars, Lifecycle!CheckThenActNext, Lifecycle!Drop
  <2>3. ASSUME NEW a \in Answers, GenerateAnswer(a)
        PROVE  Lifecycle!CheckThenActNext
    <3>1. OpenDecisions' = OpenDecisions
      BY <2>3, OpenStays DEF GenerateAnswer, reqVars, PastCheck
    <3>. QED BY <2>3, <3>1 DEF GenerateAnswer, Lifecycle!Generated, Lifecycle!CheckThenActNext
  <2>. QED BY <1>3, <2>2, <2>3, DatabaseSteps
<1>. QED BY <1>1, <1>2, <1>3

\* Seen from outside, the endpoint is the check-then-act lifecycle: only
\* decisions that were legal when the answer was read are applied, each at
\* most once, and failures drop them without a trace.
THEOREM ImplementsCheckThenAct == Spec => CheckThenAct
<1>1. Init => Lifecycle!NoAnswerYet /\ OpenDecisions = {}
  BY ImplementsInit
<1>2. IInv /\ [Next]_vars => [Lifecycle!CheckThenActNext]_<<status, OpenDecisions>>
  BY ImplementsStep
<1>. QED BY <1>1, <1>2, IInvInvariant, PTL
         DEF Spec, CheckThenAct, Lifecycle!CheckThenActSpec, Lifecycle!lifecycleVars

-----------------------------------------------------------------------------
(* While requests take turns: with one connection in the pool no transaction  *)
(* begins before the last one has ended.  Then what decide has read is still  *)
(* so when it commits (Fresh), and both tables tell the same linear history   *)
(* (Latest).                                                                  *)

\* No two transactions are open.
Turns == \A r, q \in InTransaction : r = q

\* An open transaction has read the current status, and its rows will be the
\* latest of both tables.
Fresh ==
  /\ \A r \in Requests : PastCheck(r) => prev[r] = status[input[r].answer]
  /\ \A r \in InTransaction : /\ startedAt[r] <= clock
                              /\ \A d \in decisions : d.createdAt < startedAt[r]
  /\ \A r \in Requests : "audit" \in staged[r] => \A e \in audit : e.id < eventId[r]
  /\ \A d \in decisions : d.createdAt <= clock

\* The latest event of an answer tells its status.
Latest ==
  \A a \in Answers :
    IF EventsOn(a) = {} THEN status[a] \in {"none", "pending_review"}
    ELSE \E f \in EventsOn(a) : /\ \A g \in EventsOn(a) : g.id <= f.id
                                /\ f.toStatus = status[a]

Serial == Turns /\ Fresh /\ Latest /\ StatusMatchesLatestDecision /\ AuditTrailChains
SInv == IInv /\ Rows /\ (poolSize = 1 => Serial)

-----------------------------------------------------------------------------
\* A free pool of one connection has no open transaction.
LEMMA FreeMeansNobody ==
  ASSUME poolSize = 1, Turns, ConnectionFree
  PROVE  InTransaction = {}
<1> SUFFICES ASSUME NEW r \in InTransaction PROVE FALSE
  OBVIOUS
<1>1. InTransaction = {r}
  BY DEF Turns
<1>2. Cardinality(InTransaction) = 1
  BY <1>1, FS_Singleton
<1> QED  BY <1>2 DEF ConnectionFree

\* A step that opens no transaction and writes no row.
LEMMA QuietKeepsSerial ==
  ASSUME TypeOK, Serial, UNCHANGED <<dbVars, clock>>,
         \A r \in Requests :
           /\ pc'[r] \in OpenPcs => pc[r] \in OpenPcs /\ startedAt'[r] = startedAt[r]
           /\ PastCheck(r)' => /\ input'[r] = input[r]
                               /\ \/ PastCheck(r) /\ prev'[r] = prev[r]
                                  \/ prev'[r] = status[input[r].answer]
           /\ "audit" \in staged'[r] => \/ "audit" \in staged[r] /\ eventId'[r] = eventId[r]
                                        \/ \A e \in audit : e.id < eventId'[r]
  PROVE  Serial'
<1> USE DEF Serial, dbVars
<1>1. Turns'
  BY DEF Turns, InTransaction
<1>2. Fresh'
  BY DEF Fresh, InTransaction, PastCheck
<1>3. Latest'
  BY DEF Latest, EventsOn
<1>4. StatusMatchesLatestDecision'
  BY DEF StatusMatchesLatestDecision, DecisionsOn
<1>5. AuditTrailChains'
  BY DEF AuditTrailChains, EventsOn
<1> QED  BY <1>1, <1>2, <1>3, <1>4, <1>5

\* The transaction that begins is the only one, and the latest.
LEMMA BeginKeepsSerial ==
  ASSUME IInv, Serial, poolSize = 1, NEW r \in Requests, NEW a \in Answers,
         NEW d \in AnswerStatus, NEW c \in Comments, Begin(r, a, d, c)
  PROVE  Serial'
<1> USE DEF Serial, IInv, TypeOK, Begin, Goto, dbVars
<1>1. InTransaction = {}
  BY FreeMeansNobody
<1>2. \A q \in Requests : pc[q] \notin OpenPcs
  BY <1>1 DEF InTransaction
<1>3. \A q \in Requests : pc'[q] \in OpenPcs => q = r
  BY <1>2
<1>4. ~PastCheck(r)' /\ \A q \in Requests \ {r} : PastCheck(q)' <=> PastCheck(q)
  BY DEF PastCheck
<1>5. Turns'
  BY <1>3 DEF Turns, InTransaction
<1>6. Fresh'
  <2>1. \A q \in Requests : ~PastCheck(q)'
    BY <1>2, <1>4 DEF PastCheck, OpenPcs
  <2>2. \A q \in Requests : staged[q] = {}
    BY <1>2 DEF Locals, OpenPcs
  <2>3. startedAt'[r] = clock + 1 /\ clock' = clock + 1
    OBVIOUS
  <2>4. \A e \in decisions : e.createdAt \in Nat /\ e.createdAt <= clock
    BY DEF Fresh
  <2>5. \A q \in InTransaction' : q = r
    BY <1>3 DEF InTransaction
  <2> QED  BY <2>1, <2>2, <2>3, <2>4, <2>5 DEF Fresh
<1>7. Latest' /\ StatusMatchesLatestDecision' /\ AuditTrailChains'
  BY DEF Latest, StatusMatchesLatestDecision, AuditTrailChains, EventsOn, DecisionsOn
<1> QED  BY <1>5, <1>6, <1>7

\* A new answer has no history.
LEMMA GenerateKeepsSerial ==
  ASSUME IInv, Serial, NEW a \in Answers, GenerateAnswer(a)
  PROVE  Serial'
<1> USE DEF Serial, IInv, TypeOK, GenerateAnswer, reqVars, shared
<1>1. DecisionsOn(a) = {} /\ \A q \in Requests : PastCheck(q) => input[q].answer # a
  BY DEF StatusHasADecision, Locals
<1>2. Turns'
  BY DEF Turns, InTransaction
<1>3. Fresh'
  BY <1>1 DEF Fresh, InTransaction, PastCheck, Locals, Inputs, OpenPcs
<1>4. Latest'
  <2>1. EventsOn(a) = {}
    BY DEF Latest, EventsOn, AnswerStatus
  <2> QED  BY <2>1 DEF Latest, EventsOn
<1>5. StatusMatchesLatestDecision'
  BY <1>1 DEF StatusMatchesLatestDecision, DecisionsOn
<1>6. AuditTrailChains'
  BY DEF AuditTrailChains, EventsOn
<1> QED  BY <1>2, <1>3, <1>4, <1>5, <1>6

\* The commit appends to both tables what its transaction was alone to see.
LEMMA CommitKeepsSerial ==
  ASSUME IInv, Rows, Serial, NEW r \in Requests, Commit(r)
  PROVE  Serial'
<1> DEFINE a == input[r].answer
           d == DecisionRow(r)
           e == AuditRow(r)
<1> USE DEF Serial, IInv
<1>1. /\ pc[r] = "flushing" /\ r \in InTransaction /\ PastCheck(r) /\ "audit" \in staged[r]
      /\ decisions' = decisions \cup {d} /\ audit' = audit \cup {e}
      /\ status' = [status EXCEPT ![a] = input[r].decision]
      /\ clock' = clock
  BY DEF Commit, Goto, InTransaction, PastCheck, OpenPcs, Writes, shared
<1>2. /\ input[r] \in Inputs /\ a \in Answers /\ input[r].decision \in AnswerStatus
      /\ status[a] # "none" /\ prev[r] = status[a]
  BY <1>1 DEF Locals, OpenPcs, Inputs, Fresh
<1>3. /\ d.answer = a /\ d.decision = input[r].decision /\ d.createdAt = startedAt[r]
      /\ e.answer = a /\ e.fromStatus = status[a] /\ e.toStatus = input[r].decision
      /\ e.id = eventId[r]
  BY <1>2 DEF DecisionRow, AuditRow
<1>4. /\ startedAt[r] \in Nat /\ clock \in Nat /\ startedAt[r] <= clock
      /\ \A o \in decisions : o.createdAt \in Nat /\ o.createdAt < startedAt[r]
  BY <1>1 DEF TypeOK, Fresh
<1>5. eventId[r] \in Nat /\ \A f \in audit : f.id \in Nat /\ f.id < eventId[r]
  BY <1>1 DEF TypeOK, Fresh
<1>6. \A b \in Answers : IF b = a THEN EventsOn(b)' = EventsOn(b) \cup {e}
                                  ELSE EventsOn(b)' = EventsOn(b) /\ status'[b] = status[b]
  BY <1>1, <1>2, <1>3 DEF EventsOn, TypeOK
<1>7. status'[a] = input[r].decision
  BY <1>1, <1>2 DEF TypeOK
<1>8. \A q \in Requests : pc'[q] \in OpenPcs => q # r /\ pc[q] \in OpenPcs
  BY DEF Commit, Goto, TypeOK, OpenPcs
<1>9. \A q \in Requests : pc'[q] \notin OpenPcs
  BY <1>1, <1>8 DEF Turns, InTransaction
<1>10. Turns'
  BY <1>9 DEF Turns, InTransaction
<1>11. Fresh'
  <2>1. \A q \in Requests : ~PastCheck(q)'
    BY <1>9 DEF PastCheck, OpenPcs
  <2>2. \A q \in Requests : staged'[q] = {}
    <3>1. staged'[r] = {}
      BY DEF Commit, Forget, TypeOK
    <3>2. ASSUME NEW q \in Requests \ {r} PROVE staged'[q] = {}
      <4>1. pc[q] \notin OpenPcs /\ staged'[q] = staged[q]
        BY <1>1 DEF Turns, InTransaction, Commit, Forget, TypeOK
      <4> QED  BY <4>1 DEF Locals, OpenPcs
    <3> QED  BY <3>1, <3>2
  <2> QED  BY <1>1, <1>3, <1>4, <1>9, <2>1, <2>2 DEF Fresh, InTransaction
<1>12. Latest'
  <2>1. ASSUME NEW b \in Answers
        PROVE  IF EventsOn(b)' = {} THEN status'[b] \in {"none", "pending_review"}
               ELSE \E f \in EventsOn(b)' : /\ \A g \in EventsOn(b)' : g.id <= f.id
                                            /\ f.toStatus = status'[b]
    <3>1. CASE b = a
      <4>1. e \in EventsOn(b)' /\ \A g \in EventsOn(b)' : g.id <= e.id
        BY <1>3, <1>5, <1>6, <3>1 DEF EventsOn
      <4> QED  BY <1>3, <1>7, <3>1, <4>1
    <3>2. CASE b # a
      BY <1>6, <3>2 DEF Latest
    <3> QED  BY <3>1, <3>2
  <2> QED  BY <2>1 DEF Latest
<1>13. StatusMatchesLatestDecision'
  <2>1. ASSUME NEW o \in decisions',
         \A p \in DecisionsOn(o.answer)' : p.createdAt <= o.createdAt
        PROVE  status'[o.answer] = o.decision
    <3>1. CASE o = d
      BY <1>3, <1>7, <3>1
    <3>2. CASE o # d
      <4>1. o \in decisions /\ o.answer \in Answers
        BY <1>1, <3>2 DEF TypeOK
      <4>2. o.answer # a
        <5>1. SUFFICES ASSUME o.answer = a PROVE FALSE
          OBVIOUS
        <5>2. d \in DecisionsOn(o.answer)'
          BY <1>1, <1>3, <5>1 DEF DecisionsOn
        <5>3. startedAt[r] <= o.createdAt
          BY <1>3, <2>1, <5>2
        <5> QED  BY <1>4, <4>1, <5>3
      <4>3. DecisionsOn(o.answer) = DecisionsOn(o.answer)'
        BY <1>1, <1>3, <4>2 DEF DecisionsOn
      <4>4. status[o.answer] = o.decision
        BY <2>1, <4>1, <4>3 DEF StatusMatchesLatestDecision
      <4> QED  BY <1>6, <4>1, <4>2, <4>4
    <3> QED  BY <3>1, <3>2
  <2> QED  BY <2>1 DEF StatusMatchesLatestDecision
<1>14. AuditTrailChains'
  <2>1. ASSUME NEW f \in audit'
        PROVE  LET earlier == {g \in EventsOn(f.answer)' : g.id < f.id}
               IN  IF earlier = {} THEN f.fromStatus = "pending_review"
                   ELSE \E h \in earlier : /\ \A g \in earlier : g.id <= h.id
                                           /\ h.toStatus = f.fromStatus
    <3>1. CASE f = e
      <4>1. {g \in EventsOn(f.answer)' : g.id < f.id} = EventsOn(a)
        BY <1>2, <1>3, <1>5, <1>6, <3>1 DEF EventsOn
      <4>2. IF EventsOn(a) = {} THEN status[a] = "pending_review"
            ELSE \E h \in EventsOn(a) : /\ \A g \in EventsOn(a) : g.id <= h.id
                                        /\ h.toStatus = status[a]
        BY <1>2 DEF Latest
      <4> QED  BY <1>3, <3>1, <4>1, <4>2
    <3>2. CASE f # e
      <4>1. f \in audit /\ f.answer \in Answers /\ f.id \in Nat /\ f.id < e.id /\ e.id \in Nat
        BY <1>1, <1>3, <1>5, <3>2 DEF TypeOK
      <4>2. {g \in EventsOn(f.answer)' : g.id < f.id} = {g \in EventsOn(f.answer) : g.id < f.id}
        BY <1>6, <4>1
      <4> QED  BY <4>1, <4>2 DEF AuditTrailChains
    <3> QED  BY <3>1, <3>2
  <2> QED  BY <2>1 DEF AuditTrailChains
<1> QED  BY <1>10, <1>11, <1>12, <1>13, <1>14

-----------------------------------------------------------------------------
\* Step by step.
LEMMA SerialStep == SInv /\ [Next]_vars => (poolSize = 1 => Serial)'
<1> SUFFICES ASSUME SInv, [Next]_vars, poolSize = 1, Serial PROVE Serial'
  BY DEF SInv, Next, vars, shared, GenerateAnswer, Arrive, PoolTimeout, RejectBody, Begin,
         Serve,
         ReadAnswer, Refuse, InsertDecision, UpdateStatus, InsertAudit, Commit, Respond, Fail,
         Crash
<1> USE DEF SInv
<1>0. TypeOK
  BY DEF IInv
<1>1. CASE UNCHANGED vars
  BY <1>0, <1>1, QuietKeepsSerial DEF vars, reqVars, shared, PastCheck
<1>2. ASSUME NEW a \in Answers, GenerateAnswer(a) PROVE Serial'
  BY <1>2, GenerateKeepsSerial
<1>3. ASSUME NEW r \in Requests, NEW a \in Answers, NEW d \in AnswerStatus, NEW c \in Comments,
             Begin(r, a, d, c)
      PROVE  Serial'
  BY <1>3, BeginKeepsSerial
<1>4. ASSUME NEW r \in Requests,
             PoolTimeout(r) \/ \E d \in AnswerStatus, c \in Comments : RejectBody(r, d, c)
      PROVE  Serial'
  BY <1>0, <1>4, QuietKeepsSerial
     DEF PoolTimeout, RejectBody, Goto, TypeOK, OpenPcs, PastCheck, shared
<1>5. ASSUME NEW r \in Requests, ReadAnswer(r) PROVE Serial'
  BY <1>0, <1>5, QuietKeepsSerial DEF ReadAnswer, Goto, TypeOK, OpenPcs, PastCheck, shared
<1>6. ASSUME NEW r \in Requests, Refuse(r) \/ Fail(r) PROVE Serial'
  BY <1>0, <1>6, QuietKeepsSerial
     DEF Refuse, Fail, Goto, Forget, TypeOK, OpenPcs, PastCheck, shared
<1>7. ASSUME NEW r \in Requests, InsertDecision(r) \/ UpdateStatus(r) PROVE Serial'
  BY <1>0, <1>7, QuietKeepsSerial
     DEF InsertDecision, UpdateStatus, Goto, TypeOK, OpenPcs, PastCheck, shared
<1>8. ASSUME NEW r \in Requests, InsertAudit(r) PROVE Serial'
  <2>1. \A e \in audit : e.id \in Nat /\ e.id < eventId'[r]
    BY <1>0, <1>8 DEF InsertAudit, Rows, TypeOK
  <2> QED  BY <1>0, <1>8, <2>1, QuietKeepsSerial DEF InsertAudit, TypeOK, OpenPcs, PastCheck
<1>9. ASSUME NEW r \in Requests, Commit(r) PROVE Serial'
  BY <1>9, CommitKeepsSerial
<1>10. ASSUME NEW r \in Requests, Respond(r) PROVE Serial'
  BY <1>0, <1>10, QuietKeepsSerial DEF Respond, Goto, TypeOK, OpenPcs, PastCheck, shared
<1>11. CASE Crash
  BY <1>0, <1>11, QuietKeepsSerial DEF Crash, TypeOK, OpenPcs, PastCheck, shared
<1> QED  BY <1>1, <1>2, <1>3, <1>4, <1>5, <1>6, <1>7, <1>8, <1>9, <1>10, <1>11
         DEF Next, Arrive, Serve

\* At the start both tables are empty.
LEMMA SerialInit == Init => Serial
BY DEF Init, Serial, Turns, Fresh, Latest, StatusMatchesLatestDecision, AuditTrailChains,
       InTransaction, PastCheck, OpenPcs, EventsOn, DecisionsOn

\* The invariant holds in every reachable state.
LEMMA SInvInvariant == Spec => []SInv
<1>1. Init => SInv
  BY SerialInit, TypeInit
     DEF SInv, IInv, Init, Rows, StatusHasADecision, DecisionsOn
<1>2. SInv /\ [Next]_vars => SInv'
  BY SerialStep, RowsStep, TypeStep, LocalsStep, StatusHasADecisionStep DEF SInv, IInv
<1> QED  BY <1>1, <1>2, PTL DEF Spec

\* While requests take turns, the decisions by created_at and the audit events by
\* id are the same linear history, and it ends in the status of the answer.
THEOREM HistoryReadsInOrder == Spec => []HistoryIsLinear
<1>1. SInv => HistoryIsLinear
  BY DEF SInv, Serial, HistoryIsLinear
<1> QED  BY <1>1, SInvInvariant, PTL

\* While requests take turns, a decision moves an answer along the transition map
\* from the status that it has at that moment: terminal is terminal.
THEOREM LifecycleIsAtomic == Spec => AtomicLifecycle
<1>1. SInv /\ [Next]_vars => [poolSize = 1 => Lifecycle!AtomicNext]_status
  <2> SUFFICES ASSUME SInv, [Next]_vars, poolSize = 1, status' # status
               PROVE  Lifecycle!AtomicNext
    OBVIOUS
  <2>1. ASSUME NEW a \in Answers, GenerateAnswer(a) PROVE Lifecycle!AtomicNext
    BY <2>1 DEF GenerateAnswer, Lifecycle!AtomicNext, Lifecycle!Generated
  <2>2. ASSUME NEW r \in Requests, Commit(r) PROVE Lifecycle!AtomicNext
    <3>1. /\ input[r] \in Inputs /\ prev[r] = status[input[r].answer]
          /\ status[input[r].answer] # "none"
          /\ input[r].decision \in AllowedDecisions(prev[r])
      BY <2>2 DEF Commit, Goto, SInv, Serial, Fresh, IInv, Locals, PastCheck, OpenPcs
    <3>2. PICK a \in Answers, d \in AnswerStatus : a = input[r].answer /\ d = input[r].decision
      BY <3>1 DEF Inputs
    <3>3. Lifecycle!Decided(a, d)
      <4>1. Lifecycle!AllowedDecisions(status[a]) = AllowedDecisions(status[a])
        BY DEF Lifecycle!AllowedDecisions, AllowedDecisions, Lifecycle!ALLOWED_TRANSITIONS,
               ALLOWED_TRANSITIONS, Lifecycle!AnswerStatus, AnswerStatus
      <4> QED  BY <2>2, <3>1, <3>2, <4>1 DEF Commit, Lifecycle!Decided
    <3> QED  BY <3>2, <3>3 DEF Lifecycle!AtomicNext, AnswerStatus, Lifecycle!AnswerStatus
  <2> QED  BY <2>1, <2>2, DatabaseSteps DEF dbVars
<1> QED  BY <1>1, SInvInvariant, PTL DEF Spec, AtomicLifecycle
=============================================================================
