--------------------------- MODULE ReviewLifecycle ---------------------------
(***************************************************************************)
(* What the review component promises about answers.review_status, with    *)
(* no transactions, locks or failures in sight.                            *)
(*                                                                         *)
(* AtomicNext is the lifecycle of docs/api.md: a decision moves an answer   *)
(* along ALLOWED_TRANSITIONS from the status it has at that moment.        *)
(* CheckThenActSpec is the promise that survives concurrent requests: a    *)
(* decision is admitted when it is legal, stays open for a while, and is    *)
(* then applied to whatever status the answer has by then, or dropped.     *)
(***************************************************************************)
EXTENDS ReviewTransitions

CONSTANTS Answers, Requests

VARIABLES status,   \* the status of every answer, "none" before it exists
          open      \* the admitted decisions that are not yet applied

lifecycleVars == <<status, open>>

OpenDecision == [request : Requests, answer : Answers,
                 from : AnswerStatus, to : AnswerStatus]

NoAnswerYet == status = [a \in Answers |-> "none"]

Generated(a) == /\ status[a] = "none"
                /\ status' = [status EXCEPT ![a] = "pending_review"]

Decided(a, d) == /\ status[a] # "none"
                 /\ d \in AllowedDecisions(status[a])
                 /\ status' = [status EXCEPT ![a] = d]

AtomicNext == \E a \in Answers : \/ Generated(a)
                                 \/ \E d \in AnswerStatus : Decided(a, d)

Admit(o) == /\ \A p \in open : p.request # o.request
            /\ status[o.answer] = o.from
            /\ o.to \in AllowedDecisions(o.from)
            /\ open' = open \cup {o}
            /\ UNCHANGED status

Apply(o) == /\ o \in open
            /\ open' = open \ {o}
            /\ status' = [status EXCEPT ![o.answer] = o.to]

\* A crash drops many at once.
Drop == /\ open' \subseteq open
        /\ UNCHANGED status

CheckThenActNext ==
  \/ \E a \in Answers : Generated(a) /\ UNCHANGED open
  \/ \E o \in OpenDecision : Admit(o) \/ Apply(o)
  \/ Drop

CheckThenActSpec == /\ NoAnswerYet /\ open = {}
                    /\ [][CheckThenActNext]_lifecycleVars
==============================================================================
