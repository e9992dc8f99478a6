----------------------------- MODULE ReviewQueue -----------------------------
(***************************************************************************)
(* The page /review: one cached list for each filter, fetched by             *)
(* useReviewQueue, and the way to an answer's own page and back.  Of that    *)
(* page only the decision it sends matters here; the rest is in ReviewPage,  *)
(* and what happens inside of decide in Review.                              *)
(***************************************************************************)
EXTENDS ReviewTransitions, Naturals

CONSTANTS
  Answers,
  Filters,     \* the tabs
  MaxDecisions

VARIABLES
  status,     \* of each answer, at the server
  open,       \* the page: the queue, or an answer
  filter,     \* the queue's tab
  loaded, failed, invalid, listed,  \* each filter's query: its data is the statuses it has read
  fetch, read,
  latest, call, sent   \* the decisions: of the page's mutation observer, and all of them

cache == <<loaded, failed, invalid, listed>>
queries == <<loaded, failed, invalid, listed, fetch, read>>
calls == <<latest, call, sent>>
vars == <<status, open, filter, loaded, failed, invalid, listed, fetch, read,
          latest, call, sent>>

Decisions == 1..MaxDecisions
Unread == [a \in Answers |-> "pending_review"]
NoDecision == [answer |-> "none", decision |-> "none"]

Init ==
  /\ status \in [Answers -> AnswerStatus]
  /\ open = "queue" /\ filter = "pending_review"
  /\ loaded = {} /\ failed = {} /\ invalid = {} /\ listed = [f \in Filters |-> Unread]
  /\ fetch = [f \in Filters |-> IF f = filter THEN "sent" ELSE "idle"]
  /\ read = [f \in Filters |-> Unread]
  /\ latest = 0 /\ call = [s \in Decisions |-> "unused"] /\ sent = [s \in Decisions |-> NoDecision]

-----------------------------------------------------------------------------
(* The lists *)

StartFetch(f) ==
  /\ fetch' = [fetch EXCEPT ![f] = "sent"] /\ read' = [read EXCEPT ![f] = Unread]
  /\ failed' = IF f \in loaded THEN failed ELSE failed \ {f}

\* review_queue
ReadQueue(f) ==
  /\ fetch[f] = "sent"
  /\ fetch' = [fetch EXCEPT ![f] = "read"] /\ read' = [read EXCEPT ![f] = status]
  /\ UNCHANGED <<status, open, filter, cache, calls>>

EndFetch(f) == fetch' = [fetch EXCEPT ![f] = "idle"] /\ read' = [read EXCEPT ![f] = Unread]

ShowQueue(f) ==
  /\ fetch[f] = "read" /\ EndFetch(f)
  /\ listed' = [listed EXCEPT ![f] = read[f]]
  /\ loaded' = loaded \cup {f} /\ failed' = failed \ {f} /\ invalid' = invalid \ {f}
  /\ UNCHANGED <<status, open, filter, calls>>

\* Two retries later.
FetchFails(f) ==
  /\ fetch[f] # "idle" /\ EndFetch(f)
  /\ failed' = failed \cup {f} /\ invalid' = invalid \cup {f}
  /\ UNCHANGED <<status, open, filter, loaded, listed, calls>>

Items(f) == {a \in Answers : f = "all" \/ listed[f][a] = f}
Shown(f) == open = "queue" /\ filter = f /\ f \in loaded \ failed

\* A tab that is opened is fetched when its data is missing, invalid or stale.
Visit(f, stale) ==
  /\ open' = "queue" /\ filter' = f
  /\ IF fetch[f] = "idle" /\ (f \notin loaded \/ f \in invalid \/ stale)
       THEN StartFetch(f) ELSE UNCHANGED <<fetch, read, failed>>
  /\ UNCHANGED <<loaded, invalid, listed>>

ChooseFilter(f, stale) ==
  /\ open = "queue" /\ f # filter /\ Visit(f, stale)
  /\ UNCHANGED <<status, calls>>

\* "Try again", or the browser is online again and the data is stale.
Refetch ==
  /\ open = "queue" /\ fetch[filter] = "idle" /\ StartFetch(filter)
  /\ UNCHANGED <<status, open, filter, loaded, invalid, listed, calls>>

Review(a) ==
  /\ Shown(filter) /\ a \in Items(filter)
  /\ open' = a
  /\ UNCHANGED <<status, filter, queries, calls>>

\* The link back; the tab is the first one again.
BackToQueue(stale) ==
  /\ open # "queue" /\ latest' = 0
  /\ Visit("pending_review", stale)
  /\ UNCHANGED <<status, call, sent>>

-----------------------------------------------------------------------------
(* Decisions *)

\* The form offers what the status allowed that the answer's page has read.
Submit(s, d) ==
  /\ open # "queue" /\ (latest # 0 => call[latest] \notin {"flying", "decided"})
  /\ d \in AnswerStatus \ {"pending_review"}
  /\ call[s] = "unused" /\ \A r \in 1..s - 1 : call[r] # "unused"
  /\ call' = [call EXCEPT ![s] = "flying"]
  /\ sent' = [sent EXCEPT ![s] = [answer |-> open, decision |-> d]]
  /\ latest' = s
  /\ UNCHANGED <<status, open, filter, queries>>

Decide(s) ==
  /\ call[s] = "flying" /\ sent[s].decision \in ALLOWED_TRANSITIONS[status[sent[s].answer]]
  /\ status' = [status EXCEPT ![sent[s].answer] = sent[s].decision]
  /\ call' = [call EXCEPT ![s] = "decided"]
  /\ UNCHANGED <<open, filter, queries, latest, sent>>

\* Refused with 409, or the answer is lost: a toast.
SubmitFails(s) ==
  /\ call[s] \in {"flying", "decided"}
  /\ call' = [call EXCEPT ![s] = "failed"]
  /\ UNCHANGED <<status, open, filter, queries, latest, sent>>

Joined(f) == f \notin loaded /\ fetch[f] # "idle"

InvalidateDetailOnly(back) ==
  /\ invalid' = invalid
  /\ IF back THEN open' = "queue" /\ filter' = "pending_review" ELSE UNCHANGED <<open, filter>>
  /\ IF back /\ "pending_review" \notin loaded /\ fetch["pending_review"] = "idle"
       THEN StartFetch("pending_review") ELSE UNCHANGED <<fetch, read, failed>>

\* invalidateQueries(["review"]) marks every list and fetches the open one anew,
\* unless that is being loaded for the first time; then the page that sent the
\* decision, if it is still there, goes back to the queue, which fetches its list
\* if no fetch is under way.
Invalidate(back) ==
  /\ invalid' = Filters
  /\ IF back THEN open' = "queue" /\ filter' = "pending_review" ELSE UNCHANGED <<open, filter>>
  /\ IF \/ open = "queue" /\ ~Joined(filter)
        \/ back /\ fetch["pending_review"] = "idle"
       THEN StartFetch(filter') ELSE UNCHANGED <<fetch, read, failed>>

\* A list is told of the decision unless an older fetch of it goes on.
Told(f) == fetch[f] = "idle" \/ (open = "queue" /\ filter = f /\ ~Joined(f))

Accepted(s) ==
  /\ call[s] = "decided"
  /\ call' = [call EXCEPT ![s] = IF Told("pending_review") THEN "told" ELSE "overtaken"]
  /\ Invalidate(latest = s)
  /\ latest' = IF latest = s THEN 0 ELSE latest
  /\ UNCHANGED <<status, loaded, listed, sent>>

OtherReviewer ==
  /\ \E a \in Answers : \E d \in ALLOWED_TRANSITIONS[status[a]] :
       status' = [status EXCEPT ![a] = d]
  /\ UNCHANGED <<open, filter, queries, calls>>

Next ==
  \/ \E f \in Filters : ReadQueue(f) \/ ShowQueue(f) \/ FetchFails(f)
  \/ \E stale \in BOOLEAN : BackToQueue(stale) \/ \E f \in Filters : ChooseFilter(f, stale)
  \/ Refetch \/ OtherReviewer
  \/ \E a \in Answers : Review(a)
  \/ \E s \in Decisions :
       \/ \E d \in AnswerStatus : Submit(s, d)
       \/ Decide(s) \/ SubmitFails(s) \/ Accepted(s)

Spec == Init /\ [][Next]_vars

-----------------------------------------------------------------------------
TypeOK ==
  /\ status \in [Answers -> AnswerStatus]
  /\ open \in Answers \cup {"queue"} /\ filter \in Filters
  /\ {loaded, failed, invalid} \subseteq SUBSET Filters
  /\ {listed, read} \subseteq [Filters -> [Answers -> AnswerStatus]]
  /\ fetch \in [Filters -> {"idle", "sent", "read"}] /\ latest \in 0..MaxDecisions
  /\ call \in [Decisions -> {"unused", "flying", "decided", "told", "overtaken", "failed"}]
  /\ sent \in [Decisions -> [answer : Answers, decision : AnswerStatus] \cup {NoDecision}]

\* Once a reviewer has been told "Answer approved.", and the tab of pending
\* answers is at rest, it does not list that answer any more, wherever the
\* reviewer was when the reply came.  (Except that a fetch of the tab that was
\* under way while another page or tab was open, or was its first, goes on, and
\* its older list counts as fresh.)
DecidedLeavesQueue ==
  Shown("pending_review") /\ fetch["pending_review"] = "idle" =>
    \A s \in Decisions : call[s] = "told" => sent[s].answer \notin Items("pending_review")
=============================================================================
