------------------------------ MODULE AuditPage ------------------------------
(***************************************************************************)
(* The page /audit over query_audit_log of backend/app/audit/router.py.  An  *)
(* event draws its id with its INSERT and can be read once its transaction   *)
(* has committed, so ids may appear out of order; none is ever removed.  The *)
(* endpoint counts in one statement and selects in another.  A query of the  *)
(* client is a filter and a page number, and keeps what it has read: here    *)
(* the whole log as it was then, of which the page shows its part.           *)
(***************************************************************************)
EXTENDS Naturals, FiniteSets

CONSTANTS
  EarlierEvents,   \* events in the log when the page is opened
  MaxEvents, AUDIT_PAGE_SIZE, LastPage, MaxTurns

VARIABLES
  drawn,       \* the last id drawn
  writing,     \* ids of events whose transaction is open
  log,         \* ids of events that are committed
  matching,    \* ids of the events that the narrow filter lets through
  filter, page, turns,
  data, failed, fetch   \* of each query: what it shows, its last outcome, its fetch

table == <<drawn, writing, log, matching>>
view == <<filter, page, turns>>
queries == <<data, failed, fetch>>
vars == <<drawn, writing, log, matching, filter, page, turns, data, failed, fetch>>

AuditFilters == {"none", "narrow"}
Pages == 0..LastPage
Events == 1..MaxEvents
Keys == AuditFilters \X Pages
Open == <<filter, page>>

\* The log as the count and as the select have seen it.
Answer(counted, listed) == [counted |-> counted, listed |-> listed]
NoAnswer == Answer({}, {})
NoData == [loaded |-> FALSE, answer |-> NoAnswer]
Idle == [at |-> "idle", answer |-> NoAnswer]
Sent == [at |-> "sent", answer |-> NoAnswer]

Init ==
  /\ drawn = EarlierEvents /\ writing = {} /\ log = 1..EarlierEvents
  /\ matching \in SUBSET log
  /\ filter = "none" /\ page = 0 /\ turns = 0
  /\ data = [k \in Keys |-> NoData] /\ failed = [k \in Keys |-> FALSE]
  /\ fetch = [k \in Keys |-> IF k = Open THEN Sent ELSE Idle]

-----------------------------------------------------------------------------
(* log_event, in the transaction of whoever calls it *)

InsertEvent ==
  /\ drawn < MaxEvents
  /\ drawn' = drawn + 1
  /\ writing' = writing \cup {drawn'}
  /\ matching' \in {matching, matching \cup {drawn'}}
  /\ UNCHANGED <<log, view, queries>>

CommitEvent(e) ==
  /\ e \in writing
  /\ writing' = writing \ {e} /\ log' = log \cup {e}
  /\ UNCHANGED <<drawn, matching, view, queries>>

RollBackEvent(e) ==
  /\ e \in writing
  /\ writing' = writing \ {e}
  /\ UNCHANGED <<drawn, log, matching, view, queries>>

-----------------------------------------------------------------------------
(* query_audit_log *)

Base(f, events) == IF f = "narrow" THEN events \cap matching ELSE events

CountEvents(k) ==
  /\ fetch[k].at = "sent"
  /\ fetch' = [fetch EXCEPT ![k] = [at |-> "counted", answer |-> Answer(log, {})]]
  /\ UNCHANGED <<table, view, data, failed>>

SelectEvents(k) ==
  /\ fetch[k].at = "counted"
  /\ fetch' = [fetch EXCEPT ![k] = [at |-> "selected",
                                    answer |-> Answer(@.answer.counted, log)]]
  /\ UNCHANGED <<table, view, data, failed>>

Total(k) == Cardinality(Base(k[1], data[k].answer.counted))

\* ORDER BY id DESC LIMIT limit OFFSET offset
Items(k) ==
  LET base == Base(k[1], data[k].answer.listed)
      Offset(e) == Cardinality({x \in base : x > e})
  IN {e \in base : Offset(e) \in k[2] * AUDIT_PAGE_SIZE..(k[2] + 1) * AUDIT_PAGE_SIZE - 1}

-----------------------------------------------------------------------------
(* The page *)

ShowEvents(k) ==
  /\ fetch[k].at = "selected"
  /\ data' = [data EXCEPT ![k] = [loaded |-> TRUE, answer |-> fetch[k].answer]]
  /\ failed' = [failed EXCEPT ![k] = FALSE]
  /\ fetch' = [fetch EXCEPT ![k] = Idle]
  /\ UNCHANGED <<table, view>>

\* Two retries later.
FetchFails(k) ==
  /\ fetch[k].at # "idle"
  /\ failed' = [failed EXCEPT ![k] = TRUE]
  /\ fetch' = [fetch EXCEPT ![k] = Idle]
  /\ UNCHANGED <<table, view, data>>

StartFetch(k) ==
  /\ fetch' = [fetch EXCEPT ![k] = Sent]
  /\ failed' = [failed EXCEPT ![k] = @ /\ data[k].loaded]

\* A query of the key is fetched when it is missing, has failed or is stale.
Turn(f, p, stale) ==
  /\ turns < MaxTurns /\ turns' = turns + 1
  /\ filter' = f /\ page' = p
  /\ LET k == <<f, p>>
     IN  IF fetch[k].at = "idle" /\ (~data[k].loaded \/ failed[k] \/ stale)
           THEN StartFetch(k) ELSE UNCHANGED <<fetch, failed>>
  /\ UNCHANGED <<table, data>>

Shown == data[Open].loaded /\ ~failed[Open]

\* The buttons stand below a table that is not empty.
TableShown == Shown /\ Items(Open) # {}

HasNextOffByOne(k) == (k[2] + 2) * AUDIT_PAGE_SIZE < Total(k)

\* page + 1 < pageCount, the ceiling of total / AUDIT_PAGE_SIZE
HasNext(k) == (k[2] + 1) * AUDIT_PAGE_SIZE < Total(k)

\* LastPage bounds the pages; with MaxEvents events none lies behind it.
PreviousPage(stale) == TableShown /\ page > 0 /\ Turn(filter, page - 1, stale)
NextPage(stale) ==
  TableShown /\ HasNext(Open) /\ page < LastPage /\ Turn(filter, page + 1, stale)

\* applyFilters; without another key nothing happens.
ApplyFilters(stale) == \E f \in AuditFilters : <<f, 0>> # Open /\ Turn(f, 0, stale)

\* The page is closed and opened again.
Reopen(stale) == Turn("none", 0, stale)

\* "Try again", or the browser is online again and the data is stale.
Refetch ==
  /\ fetch[Open].at = "idle" /\ turns < MaxTurns /\ turns' = turns + 1
  /\ StartFetch(Open)
  /\ UNCHANGED <<table, filter, page, data>>

Fetching(k) == CountEvents(k) \/ SelectEvents(k) \/ ShowEvents(k) \/ FetchFails(k)

Next ==
  \/ InsertEvent \/ \E e \in Events : CommitEvent(e) \/ RollBackEvent(e)
  \/ \E k \in Keys : Fetching(k)
  \/ \E stale \in BOOLEAN :
       PreviousPage(stale) \/ NextPage(stale) \/ ApplyFilters(stale) \/ Reopen(stale)
  \/ Refetch

Spec == Init /\ [][Next]_vars

-----------------------------------------------------------------------------
AnswerType == [counted : SUBSET Events, listed : SUBSET Events]

TypeOK ==
  /\ drawn \in 0..MaxEvents /\ writing \subseteq 1..drawn /\ log \subseteq 1..drawn \ writing
  /\ matching \subseteq 1..drawn
  /\ filter \in AuditFilters /\ page \in Pages /\ turns \in 0..MaxTurns
  /\ data \in [Keys -> [loaded : BOOLEAN, answer : AnswerType]]
  /\ failed \in [Keys -> BOOLEAN]
  /\ fetch \in [Keys -> [at : {"idle", "sent", "counted", "selected"}, answer : AnswerType]]

\* Pages 0 to n of a filter, each read after the one before it.
ReadInOrder(f, n) ==
  /\ \A p \in 0..n : data[<<f, p>>].loaded
  /\ \A p \in 1..n : data[<<f, p - 1>>].answer.listed \subseteq data[<<f, p>>].answer.counted

\* Whoever turns the pages one after the other to the last has been shown every
\* event that was in the log when page one was read, though ids commit out of
\* order and new events push the old ones from page to page.  (Only if no event
\* was committed between the count and the select of the last page: the total
\* is then older than the rows, and the page it hides is not offered.)
WalkMissesNothing ==
  \A f \in AuditFilters, n \in Pages :
    LET last == data[<<f, n>>].answer
    IN  ReadInOrder(f, n) /\ ~HasNext(<<f, n>>) /\ Base(f, last.counted) = Base(f, last.listed)
        => Base(f, data[<<f, 0>>].answer.listed) \subseteq UNION {Items(<<f, p>>) : p \in 0..n}

\* "No events. Nothing matches these filters." is only said when nothing does,
\* on whichever page the filters were changed, and however old a cached page is.
EmptyMeansNone ==
  Shown /\ Items(Open) = {} => Base(filter, data[Open].answer.listed) = {}
=============================================================================
