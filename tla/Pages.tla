------------------------------- MODULE Pages -------------------------------
(***************************************************************************)
(* The pages of the application in one browser tab, of which it has one      *)
(* open.  Each is a module; what these name alike (the query, its fetch, the *)
(* mutation) is that of the page that is open, and what is not of this page  *)
(* is left unset.                                                            *)
(***************************************************************************)
EXTENDS Naturals

CONSTANTS
  Visits,                                                       \* the pages to open
  Texts, MaxSubmits,                                            \* of ReviewPage
  Answers, Filters, MaxDecisions,                               \* of ReviewQueue
  Accounts, Me, ROLES, MaxPatches, MaxOthers,                   \* of UsersTable
  EarlierEvents, MaxEvents, AUDIT_PAGE_SIZE, LastPage, MaxTurns,  \* of AuditPage
  MaxAsks, Drafts, Empty, MaxVisits,                            \* of ChatPage
  MaxDocs, MaxDeletes, MaxCalls, PAGE_SIZE, LastOfList          \* of DocumentsPage

ASSUME VisitsAssumption ==
  Visits \subseteq {"detail", "queue", "users", "audit", "chat", "documents"}
ASSUME ReviewPageAssumption ==
  /\ MaxSubmits \in Nat
  /\ \A t \in Texts : t \in [units : Nat, points : Nat] /\ (t.units = 0 <=> t.points = 0)
ASSUME ReviewQueueAssumption ==
  /\ "pending_review" \in Filters /\ Filters \subseteq {"pending_review", "flagged", "all"}
  /\ MaxDecisions \in Nat
ASSUME UsersTableAssumption ==
  /\ Me \in Accounts /\ "admin" \in ROLES
  /\ MaxPatches \in Nat /\ MaxOthers \in Nat
ASSUME AuditAssumption ==
  /\ MaxEvents \in Nat /\ EarlierEvents \in 0..MaxEvents /\ LastPage \in Nat /\ MaxTurns \in Nat
  /\ AUDIT_PAGE_SIZE \in Nat \ {0}
  /\ MaxEvents <= AUDIT_PAGE_SIZE * (LastPage + 1)
ASSUME ChatAssumption == MaxAsks \in Nat /\ MaxVisits \in Nat /\ Empty \notin Drafts
ASSUME DocumentsPageAssumption ==
  /\ MaxDocs \in Nat /\ MaxDeletes \in Nat /\ MaxCalls \in Nat /\ LastOfList \in Nat
  /\ PAGE_SIZE \in Nat \ {0} /\ MaxDocs <= PAGE_SIZE * (LastOfList + 1)

VARIABLES
  visiting,                                                  \* the page
  failed, fetch,                                             \* of all pages
  invalid, latest, data, read, call, sent, status, filter,   \* of several
  mounted, loaded, listed, page,
  choice, comment, reply,
  open,
  tables, others, at,
  drawn, writing, log, matching, turns,
  questions, answers, server, busy, draft, typed, visits, shown, shownAnswers,
  row, upload, deletion, target, items, total, counted

detailOnly == <<choice, comment, reply>>
usersOnly == <<tables, others, at>>
auditOnly == <<drawn, writing, log, matching, turns>>
chatOnly == <<questions, answers, server, busy, draft, typed, visits, shown, shownAnswers>>
documentsOnly == <<row, upload, deletion, target, items, total, counted>>
vars == <<visiting, failed, fetch, invalid, latest, data, read, call, sent, status, filter,
          mounted, loaded, listed, page, open, detailOnly, usersOnly, auditOnly, chatOnly,
          documentsOnly>>

Detail == INSTANCE ReviewPage
Queue == INSTANCE ReviewQueue
Admin == INSTANCE UsersTable
Audit == INSTANCE AuditPage
Chat == INSTANCE ChatPage WITH Texts <- Drafts
Files == INSTANCE DocumentsPage WITH LastPage <- LastOfList

Unset == "unset"
NoDetail == choice = Unset /\ comment = Unset /\ reply = Unset
NoUsers == tables = Unset /\ others = Unset /\ at = Unset
NoAudit == drawn = Unset /\ writing = Unset /\ log = Unset /\ matching = Unset /\ turns = Unset
NoChat ==
  /\ questions = Unset /\ answers = Unset /\ server = Unset /\ busy = Unset
  /\ draft = Unset /\ typed = Unset /\ visits = Unset /\ shown = Unset /\ shownAnswers = Unset
NoDocuments ==
  /\ row = Unset /\ upload = Unset /\ deletion = Unset /\ target = Unset
  /\ items = Unset /\ total = Unset /\ counted = Unset

NoList == loaded = Unset /\ listed = Unset
NoCall == call = Unset /\ sent = Unset

InitOf(opened) ==
  \/ /\ opened = "detail" /\ Detail!Init
     /\ filter = Unset /\ NoList /\ page = Unset /\ open = Unset
     /\ NoUsers /\ NoAudit /\ NoChat /\ NoDocuments
  \/ /\ opened = "queue" /\ Queue!Init
     /\ data = Unset /\ mounted = Unset /\ page = Unset
     /\ NoDetail /\ NoUsers /\ NoAudit /\ NoChat /\ NoDocuments
  \/ /\ opened = "users" /\ Admin!Init
     /\ status = Unset /\ filter = Unset /\ NoList /\ page = Unset /\ open = Unset
     /\ NoDetail /\ NoAudit /\ NoChat /\ NoDocuments
  \/ /\ opened = "audit" /\ Audit!Init
     /\ read = Unset /\ invalid = Unset /\ latest = Unset /\ status = Unset /\ mounted = Unset
     /\ NoCall /\ NoList /\ open = Unset /\ NoDetail /\ NoUsers /\ NoChat /\ NoDocuments
  \/ /\ opened = "chat" /\ Chat!Init
     /\ data = Unset /\ read = Unset /\ status = Unset /\ filter = Unset
     /\ page = Unset /\ open = Unset /\ NoDetail /\ NoUsers /\ NoAudit /\ NoDocuments
  \/ /\ opened = "documents" /\ Files!Init
     /\ data = Unset /\ read = Unset /\ status = Unset /\ filter = Unset /\ mounted = Unset
     /\ NoCall /\ open = Unset /\ NoDetail /\ NoUsers /\ NoAudit /\ NoChat

Init == visiting \in Visits /\ InitOf(visiting)

Review == /\ visiting = "detail" /\ Detail!Next
          /\ UNCHANGED <<visiting, filter, loaded, listed, page, open>>
          /\ UNCHANGED <<usersOnly, auditOnly, chatOnly, documentsOnly>>
Choose == /\ visiting = "queue" /\ Queue!Next
          /\ UNCHANGED <<visiting, data, mounted, page>>
          /\ UNCHANGED <<detailOnly, usersOnly, auditOnly, chatOnly, documentsOnly>>
Manage == /\ visiting = "users" /\ Admin!Next
          /\ UNCHANGED <<visiting, status, filter, loaded, listed, page, open>>
          /\ UNCHANGED <<detailOnly, auditOnly, chatOnly, documentsOnly>>
Browse == /\ visiting = "audit" /\ Audit!Next
          /\ UNCHANGED <<visiting, read, invalid, latest, call, sent, status, mounted>>
          /\ UNCHANGED <<loaded, listed, open>>
          /\ UNCHANGED <<detailOnly, usersOnly, chatOnly, documentsOnly>>
Ask ==    /\ visiting = "chat" /\ Chat!Next
          /\ UNCHANGED <<visiting, data, read, status, filter, page, open>>
          /\ UNCHANGED <<detailOnly, usersOnly, auditOnly, documentsOnly>>
Upload == /\ visiting = "documents" /\ Files!Next
          /\ UNCHANGED <<visiting, data, read, call, sent, status, filter, mounted, open>>
          /\ UNCHANGED <<detailOnly, usersOnly, auditOnly, chatOnly>>

Next == Review \/ Choose \/ Manage \/ Browse \/ Ask \/ Upload

Spec == Init /\ [][Next]_vars

\* The service and the network answer, or fail; the browser renders; the timer of
\* refetchInterval goes off.  (The open page changes nothing but its own variables.)
InChat(A) == visiting = "chat" /\ A
InDocuments(A) == visiting = "documents" /\ A
FairSpec ==
  /\ Spec
  /\ \A a \in Chat!Asks :
       WF_(Chat!vars)(InChat(Chat!Serve(a))) /\ WF_(Chat!vars)(InChat(Chat!Settle(a)))
  /\ WF_(Chat!vars)(InChat(Chat!Render)) /\ WF_(Chat!vars)(InChat(Chat!Fetching))
  /\ WF_(Files!vars)(InDocuments(Files!Poll))
  /\ \A p \in Files!Pages : WF_(Files!vars)(InDocuments(Files!Fetching(p)))

-----------------------------------------------------------------------------
TypeOK ==
  /\ visiting = "detail" => Detail!TypeOK
  /\ visiting = "queue" => Queue!TypeOK
  /\ visiting = "users" => Admin!TypeOK
  /\ visiting = "audit" => Audit!TypeOK
  /\ visiting = "chat" => Chat!TypeOK
  /\ visiting = "documents" => Files!TypeOK

\* A decision that was on offer is refused only when the answer has moved on, or
\* when the two sides count the comment differently.
RefusedOnlyIfOvertaken == visiting = "detail" => Detail!RefusedOnlyIfOvertaken

\* An answer that the reviewer has decided does not come back to the tab of
\* pending ones.
DecidedLeavesQueue == visiting = "queue" => Queue!DecidedLeavesQueue

\* The list of accounts at rest shows every change that the administrator was
\* told of, whichever order answers and refetches take.
ListShowsOwnChanges == visiting = "users" => Admin!ListShowsOwnChanges

\* Turning the pages of the audit log to the last misses no event, and the page
\* says "No events" only when none matches.
AuditHidesNothing ==
  visiting = "audit" => Audit!WalkMissesNothing /\ Audit!EmptyMeansNone

\* A failed ask leaves in the composer what the user has typed.
FailedAskKeepsDraft == visiting = "chat" => Chat!FailedAskKeepsDraft

\* The list of documents at rest shows every upload and no deletion that the user
\* has been told of.
ToldIsShown == visiting = "documents" => Files!ToldIsShown

\* "the refetched history must show it": once replies to asks are there, their
\* saved questions are shown, all of them, whatever fetch was under way - or the
\* page says that it could not load.  A user who leaves while an ask is under way
\* may come back to a fetch that was sent before it, and whose data counts as fresh.
HistoryCatchesUp ==
  visiting = "chat" /\ (\E a \in Chat!Asks : Chat!Replied(a))
    ~> visiting = "chat" /\ (\A a \in Chat!Asks : Chat!Replied(a) => Chat!HistoryHas(a))

\* "poll while ingestion is still moving documents through the lifecycle": the open
\* page does not for good show as uploaded or processing what is ready, failed or
\* deleted, unless the list cannot load.
PollingCatchesUp ==
  visiting = "documents" /\ (\E d \in Files!Docs : Files!ShownAsSettling(d))
    ~> \/ visiting = "documents" /\ failed[page]
       \/ visiting = "documents" /\ (\A d \in Files!Docs : ~Files!ShownAsSettling(d))
=============================================================================
