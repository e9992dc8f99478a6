----------------------------- MODULE ReviewPage -----------------------------
(***************************************************************************)
(* The page of one answer under review: ReviewDecisionForm over the cached  *)
(* detail of useReviewDetail, and the mutation of useSubmitDecision, while  *)
(* other reviewers decide about the same answer.  A decision takes effect   *)
(* at once here; what happens between its read and its commit is Review's.  *)
(***************************************************************************)
EXTENDS ReviewTransitions, Naturals

CONSTANTS Texts,      \* comments: their lengths in UTF-16 units and in code points
          MaxSubmits

VARIABLES
  status,             \* the answer's, at the server
  data, failed, fetch, read, invalid,  \* the query of the detail: its status, its fetch
  mounted, latest,    \* the page; the call that its mutation observer follows, or 0
  choice, comment,    \* the form
  call, reply, sent   \* the calls of the mutation

query == <<data, failed, fetch, read, invalid>>
form == <<choice, comment>>
calls == <<call, reply, sent>>
vars == <<status, data, failed, fetch, read, invalid, mounted, latest,
          choice, comment, call, reply, sent>>

Submits == 1..MaxSubmits
Decisions == AnswerStatus \ {"pending_review"}
NoText == [units |-> 0, points |-> 0]
NoInput == [decision |-> "none", comment |-> NoText, shown |-> "none", offered |-> {}]

Init ==
  /\ status = "pending_review"
  /\ data = "none" /\ failed = FALSE /\ fetch = "sent" /\ read = "none" /\ invalid = FALSE
  /\ mounted = TRUE /\ latest = 0
  /\ choice = "none" /\ comment = NoText
  /\ call = [s \in Submits |-> "unused"] /\ reply = [s \in Submits |-> "none"]
  /\ sent = [s \in Submits |-> NoInput]

-----------------------------------------------------------------------------
(* The detail *)

StartFetch ==
  /\ fetch' = "sent" /\ read' = "none"
  /\ failed' = (failed /\ data # "none")

\* review_detail
ReadDetail ==
  /\ fetch = "sent"
  /\ fetch' = "read" /\ read' = status
  /\ UNCHANGED <<status, data, failed, invalid, mounted, latest, form, calls>>

ShowDetail ==
  /\ fetch = "read"
  /\ data' = read /\ fetch' = "idle" /\ read' = "none"
  /\ failed' = FALSE /\ invalid' = FALSE
  /\ UNCHANGED <<status, mounted, latest, form, calls>>

\* Two retries later; the error page has no form, and the form its state no home.
FetchFails ==
  /\ fetch # "idle"
  /\ fetch' = "idle" /\ read' = "none" /\ failed' = TRUE /\ invalid' = TRUE
  /\ choice' = "none" /\ comment' = NoText
  /\ UNCHANGED <<status, data, mounted, latest, calls>>

\* The browser is online again and the data is stale.
Reconnect ==
  /\ mounted /\ fetch = "idle"
  /\ StartFetch
  /\ UNCHANGED <<status, data, invalid, mounted, latest, form, calls>>

Leave ==
  /\ mounted /\ mounted' = FALSE /\ latest' = 0
  /\ choice' = "none" /\ comment' = NoText
  /\ UNCHANGED <<status, query, calls>>

\* Mounting fetches what is missing, invalid or stale.
Return(stale) ==
  /\ ~mounted /\ mounted' = TRUE
  /\ IF fetch = "idle" /\ (data = "none" \/ invalid \/ stale)
       THEN StartFetch ELSE UNCHANGED <<fetch, read, failed>>
  /\ UNCHANGED <<status, data, invalid, latest, form, calls>>

-----------------------------------------------------------------------------
(* The form *)

OfferedAlways == IF data = "none" THEN {} ELSE Decisions

\* allowedDecisions of the detail
Offered == IF data = "none" THEN {} ELSE AllowedDecisions(data) \cap Decisions

FormShown == mounted /\ ~failed /\ Offered # {}

Choose(d) ==
  /\ FormShown /\ d \in Offered /\ choice # d
  /\ choice' = d
  /\ UNCHANGED <<status, query, mounted, latest, comment, calls>>

Write(t) ==
  /\ FormShown /\ comment # t
  /\ comment' = t
  /\ UNCHANGED <<status, query, mounted, latest, choice, calls>>

\* commentError is null: JavaScript's length counts UTF-16 units.
CommentOk ==
  /\ choice \notin {"none", "approved"} => comment.units > 0
  /\ comment.units > 0 => comment.units \in 10..1000

Valid == choice # "none" /\ CommentOk

Pending == latest # 0 /\ call[latest] = "flying"

Submit(s) ==
  /\ FormShown /\ Valid /\ ~Pending
  /\ call[s] = "unused" /\ \A r \in 1..s - 1 : call[r] # "unused"
  /\ call' = [call EXCEPT ![s] = "flying"]
  /\ sent' = [sent EXCEPT ![s] = [decision |-> choice, comment |-> comment,
                                  shown |-> data, offered |-> Offered]]
  /\ latest' = s
  /\ UNCHANGED <<status, query, mounted, form, reply>>

\* decision_rules: Python's len counts code points.
BodyOk(b) ==
  /\ b.decision # "approved" => b.comment.points > 0
  /\ b.comment.points > 0 => b.comment.points \in 10..1000

\* decide, or the refusal of its body
Decide(s) ==
  /\ call[s] = "flying" /\ reply[s] = "none"
  /\ LET b == sent[s] IN
     \/ ~BodyOk(b) /\ reply' = [reply EXCEPT ![s] = "422"] /\ UNCHANGED status
     \/ /\ BodyOk(b) /\ b.decision \notin ALLOWED_TRANSITIONS[status]
        /\ reply' = [reply EXCEPT ![s] = "409"] /\ UNCHANGED status
     \/ /\ BodyOk(b) /\ b.decision \in ALLOWED_TRANSITIONS[status]
        /\ reply' = [reply EXCEPT ![s] = "201"] /\ status' = b.decision
  /\ UNCHANGED <<query, mounted, latest, form, call, sent>>

\* onSuccess of the hook invalidates the detail, that of the page goes back to
\* the queue; it only runs for the latest call, while the page is there.
Accepted(s) ==
  /\ call[s] = "flying" /\ reply[s] = "201"
  /\ call' = [call EXCEPT ![s] = "settled"]
  /\ invalid' = TRUE
  /\ IF mounted THEN StartFetch ELSE UNCHANGED <<fetch, read, failed>>
  /\ IF mounted /\ latest = s
       THEN mounted' = FALSE /\ latest' = 0 /\ choice' = "none" /\ comment' = NoText
       ELSE UNCHANGED <<mounted, latest, form>>
  /\ UNCHANGED <<status, data, reply, sent>>

\* A toast; nothing is fetched.
Refused(s) ==
  /\ call[s] = "flying" /\ reply[s] \in {"409", "422"}
  /\ call' = [call EXCEPT ![s] = "settled"]
  /\ UNCHANGED <<status, query, mounted, latest, form, reply, sent>>

\* The connection breaks, before or after the decision.
Lost(s) ==
  /\ call[s] = "flying"
  /\ call' = [call EXCEPT ![s] = "lost"]
  /\ UNCHANGED <<status, query, mounted, latest, form, reply, sent>>

OtherReviewer ==
  /\ \E d \in ALLOWED_TRANSITIONS[status] : status' = d
  /\ UNCHANGED <<query, mounted, latest, form, calls>>

Fetching == ReadDetail \/ ShowDetail \/ FetchFails
Answering(s) == Decide(s) \/ Accepted(s) \/ Refused(s)

Next ==
  \/ Fetching \/ Reconnect \/ Leave \/ OtherReviewer
  \/ \E stale \in BOOLEAN : Return(stale)
  \/ \E d \in Decisions : Choose(d)
  \/ \E t \in Texts : Write(t)
  \/ \E s \in Submits : Submit(s) \/ Answering(s) \/ Lost(s)

Spec == Init /\ [][Next]_vars

-----------------------------------------------------------------------------
Body == [decision : Decisions, comment : Texts \cup {NoText},
         shown : AnswerStatus, offered : SUBSET Decisions]

TypeOK ==
  /\ status \in AnswerStatus /\ data \in AnswerStatus \cup {"none"}
  /\ {failed, invalid, mounted} \subseteq BOOLEAN /\ latest \in 0..MaxSubmits
  /\ fetch \in {"idle", "sent", "read"} /\ read \in AnswerStatus \cup {"none"}
  /\ choice \in Decisions \cup {"none"} /\ comment \in Texts \cup {NoText}
  /\ call \in [Submits -> {"unused", "flying", "settled", "lost"}]
  /\ reply \in [Submits -> {"none", "201", "409", "422"}]
  /\ sent \in [Submits -> Body \cup {NoInput}]
  /\ \A s \in Submits : call[s] # "unused" => sent[s] \in Body

WasOffered(s) == sent[s].decision \in sent[s].offered

\* "the UI only renders what the API allows": a decision that the page offered
\* when it was submitted is only refused because the answer has moved on from
\* the status the page showed (409 INVALID_TRANSITION), or because the form and
\* the API count the characters of its comment differently (422).
RefusedOnlyIfOvertaken ==
  \A s \in Submits :
    /\ reply[s] = "409" /\ WasOffered(s) => status # sent[s].shown
    /\ reply[s] = "422" => sent[s].comment.units # sent[s].comment.points
=============================================================================
