---------------------------- MODULE DocumentsPage ----------------------------
(***************************************************************************)
(* The page /documents: the paginated list of useDocuments, which polls     *)
(* while documents are being ingested, and the mutations that upload and    *)
(* delete, next to the service that answers them.  Each page of the list is *)
(* a query of its own and stays in the cache while another one is open.     *)
(* Documents are numbered in the order of their created_at.                 *)
(***************************************************************************)
EXTENDS Naturals, FiniteSets

CONSTANTS MaxDocs, MaxDeletes, MaxCalls, PAGE_SIZE, LastPage

VARIABLES
  row,             \* the documents at the server, "none" before the upload
  upload,          \* the upload of each document
  deletion, target, \* the calls of the delete mutation, and what they delete
  latest,          \* the call that the page's mutation observer follows, or 0
  page,            \* the page of the list that is open
  loaded, failed, invalid,  \* each page's query: has data, last fetch failed, isInvalidated
  items, total,    \* its data: the listed documents with their status
  fetch, counted, listed    \* its fetch, and what the fetch has read

server == <<row, upload, deletion, target, latest>>
query == <<loaded, failed, invalid, items, total, fetch, counted, listed>>
vars == <<row, upload, deletion, target, latest, page,
          loaded, failed, invalid, items, total, fetch, counted, listed>>

Docs == 1..MaxDocs
Deletes == 1..MaxDeletes
Pages == 0..LastPage
Settling == {"uploaded", "processing"}
\* The page treats ready and failed documents alike.
Active == {d \in Docs : row[d] \in Settling \cup {"settled"}}
Nothing == [d \in {} |-> "none"]

Init ==
  /\ row = [d \in Docs |-> "none"] /\ upload = [d \in Docs |-> "unused"]
  /\ deletion = [q \in Deletes |-> "unused"] /\ target = [q \in Deletes |-> 0]
  /\ latest = 0 /\ page = 0
  /\ loaded = [p \in Pages |-> FALSE] /\ failed = [p \in Pages |-> FALSE]
  /\ invalid = [p \in Pages |-> FALSE]
  /\ items = [p \in Pages |-> Nothing] /\ total = [p \in Pages |-> 0]
  /\ fetch = [p \in Pages |-> IF p = 0 THEN "sent" ELSE "idle"]
  /\ counted = [p \in Pages |-> 0] /\ listed = [p \in Pages |-> Nothing]

-----------------------------------------------------------------------------
(* Queries *)

\* A fetch begins: without data the query is pending again.
StartFetch(p) ==
  /\ fetch' = [fetch EXCEPT ![p] = "sent"]
  /\ counted' = [counted EXCEPT ![p] = 0] /\ listed' = [listed EXCEPT ![p] = Nothing]
  /\ failed' = [failed EXCEPT ![p] = @ /\ loaded[p]]

InvalidateKeepsFetch ==
  /\ invalid' = [p \in Pages |-> TRUE]
  /\ IF fetch[page] = "idle" THEN StartFetch(page) ELSE UNCHANGED <<fetch, failed, counted, listed>>
  /\ UNCHANGED <<loaded, items, total>>

\* The open page's first load is under way: TanStack Query cancels only the
\* fetch of a query that has data.
Loading == ~loaded[page] /\ fetch[page] # "idle"

\* invalidateQueries: every page is invalid; the open one is fetched anew, its
\* fetch under way cancelled, or joined if it is the first.
Invalidate ==
  /\ invalid' = [p \in Pages |-> TRUE]
  /\ IF Loading THEN UNCHANGED <<fetch, failed, counted, listed>> ELSE StartFetch(page)
  /\ UNCHANGED <<loaded, items, total>>

\* list_documents counts ...
CountDocuments(p) ==
  /\ fetch[p] = "sent"
  /\ fetch' = [fetch EXCEPT ![p] = "counted"]
  /\ counted' = [counted EXCEPT ![p] = Cardinality(Active)]
  /\ UNCHANGED <<server, page, loaded, failed, invalid, items, total, listed>>

\* The documents of page p, newest first.
OnPage(p) == {d \in Active : Cardinality({e \in Active : e > d}) \in
                               (p * PAGE_SIZE)..((p + 1) * PAGE_SIZE - 1)}

\* ... and then selects; uploads and deletions may come between.
ListDocuments(p) ==
  /\ fetch[p] = "counted"
  /\ fetch' = [fetch EXCEPT ![p] = "listed"]
  /\ listed' = [listed EXCEPT ![p] = [d \in OnPage(p) |-> row[d]]]
  /\ UNCHANGED <<server, page, loaded, failed, invalid, items, total, counted>>

ShowList(p) ==
  /\ fetch[p] = "listed"
  /\ fetch' = [fetch EXCEPT ![p] = "idle"]
  /\ loaded' = [loaded EXCEPT ![p] = TRUE] /\ failed' = [failed EXCEPT ![p] = FALSE]
  /\ invalid' = [invalid EXCEPT ![p] = FALSE]
  /\ items' = [items EXCEPT ![p] = listed[p]] /\ total' = [total EXCEPT ![p] = counted[p]]
  /\ counted' = [counted EXCEPT ![p] = 0] /\ listed' = [listed EXCEPT ![p] = Nothing]
  /\ UNCHANGED <<server, page>>

\* Two retries later.
FetchFails(p) ==
  /\ fetch[p] # "idle"
  /\ fetch' = [fetch EXCEPT ![p] = "idle"]
  /\ failed' = [failed EXCEPT ![p] = TRUE] /\ invalid' = [invalid EXCEPT ![p] = TRUE]
  /\ counted' = [counted EXCEPT ![p] = 0] /\ listed' = [listed EXCEPT ![p] = Nothing]
  /\ UNCHANGED <<server, page, loaded, items, total>>

PollsProcessing(p) == \E d \in DOMAIN items[p] : items[p][d] = "processing"

\* refetchInterval
Polls(p) == \E d \in DOMAIN items[p] : items[p][d] \in Settling

Poll ==
  /\ loaded[page] /\ Polls(page) /\ fetch[page] = "idle"
  /\ StartFetch(page)
  /\ UNCHANGED <<server, page, loaded, invalid, items, total>>

\* "Try again", or the browser is online again and the data is stale.
Refetch ==
  /\ fetch[page] = "idle"
  /\ StartFetch(page)
  /\ UNCHANGED <<server, page, loaded, invalid, items, total>>

-----------------------------------------------------------------------------
(* The page *)

TableShown == loaded[page] /\ ~failed[page] /\ items[page] # Nothing

\* Opening a page fetches what is missing, invalid or stale.
Open(p, stale) ==
  /\ page' = p
  /\ IF fetch[p] = "idle" /\ (~loaded[p] \/ invalid[p] \/ stale)
       THEN StartFetch(p) ELSE UNCHANGED <<fetch, failed, counted, listed>>
  /\ UNCHANGED <<server, loaded, invalid, items, total>>

\* The buttons stand below the table; pageCount is the ceiling of total / PAGE_SIZE.
Previous(stale) == TableShown /\ page > 0 /\ Open(page - 1, stale)
NextPage(stale) == TableShown /\ (page + 1) * PAGE_SIZE < total[page] /\ Open(page + 1, stale)

\* The bound on uploads and deletions together.
CallsLeft == Cardinality({d \in Docs : upload[d] # "unused"})
             + Cardinality({q \in Deletes : deletion[q] # "unused"}) < MaxCalls

\* handleFiles awaits one upload after the other, but files may be dropped meanwhile.
Drop(d) ==
  /\ CallsLeft
  /\ upload[d] = "unused" /\ \A e \in 1..d - 1 : upload[e] # "unused"
  /\ upload' = [upload EXCEPT ![d] = "sent"]
  /\ UNCHANGED <<row, deletion, target, latest, page, query>>

AcceptUpload(d) ==
  /\ upload[d] = "sent"
  /\ upload' = [upload EXCEPT ![d] = "accepted"] /\ row' = [row EXCEPT ![d] = "uploaded"]
  /\ UNCHANGED <<deletion, target, latest, page, query>>

\* The upload fails at the server, or its answer is lost.
UploadFails(d) ==
  /\ upload[d] \in {"sent", "accepted"}
  /\ upload' = [upload EXCEPT ![d] = "failed"]
  /\ UNCHANGED <<row, deletion, target, latest, page, query>>

\* The uploader is there while the list loads.
Uploaded(d) ==
  /\ upload[d] = "accepted"
  /\ upload' = [upload EXCEPT ![d] = IF Loading THEN "over early" ELSE "over"]
  /\ Invalidate
  /\ UNCHANGED <<row, deletion, target, latest, page>>

\* ingest_document
Ingest(d) ==
  /\ row[d] \in Settling
  /\ row' = [row EXCEPT ![d] = IF @ = "uploaded" THEN "processing" ELSE "settled"]
  /\ UNCHANGED <<upload, deletion, target, latest, page, query>>

\* The latest call's row has its button disabled while the call is under way.
DeletingId == IF latest # 0 /\ deletion[latest] \in {"sent", "gone", "missing"}
                THEN target[latest] ELSE 0

HandleDelete(q, d) ==
  /\ CallsLeft
  /\ TableShown /\ d \in DOMAIN items[page] /\ d # DeletingId
  /\ deletion[q] = "unused" /\ \A r \in 1..q - 1 : deletion[r] # "unused"
  /\ deletion' = [deletion EXCEPT ![q] = "sent"] /\ target' = [target EXCEPT ![q] = d]
  /\ latest' = q
  /\ UNCHANGED <<row, upload, page, query>>

\* delete_document; 404 when the document is gone already.
DeleteDocument(q) ==
  /\ deletion[q] = "sent"
  /\ IF target[q] \in Active
       THEN /\ row' = [row EXCEPT ![target[q]] = "deleted"]
            /\ deletion' = [deletion EXCEPT ![q] = "gone"]
       ELSE deletion' = [deletion EXCEPT ![q] = "missing"] /\ UNCHANGED row
  /\ UNCHANGED <<upload, target, latest, page, query>>

\* onSuccess
Deleted(q) ==
  /\ deletion[q] = "gone"
  /\ deletion' = [deletion EXCEPT ![q] = "over"]
  /\ Invalidate
  /\ UNCHANGED <<row, upload, target, latest, page>>

\* Refused, failed, or the answer is lost: a toast, the list stays as it is.
DeleteFails(q) ==
  /\ deletion[q] \in {"sent", "gone", "missing"}
  /\ deletion' = [deletion EXCEPT ![q] = "failed"]
  /\ UNCHANGED <<row, upload, target, latest, page, query>>

Fetching(p) == CountDocuments(p) \/ ListDocuments(p) \/ ShowList(p) \/ FetchFails(p)

Next ==
  \/ \E p \in Pages : Fetching(p)
  \/ Poll \/ Refetch
  \/ \E stale \in BOOLEAN : Previous(stale) \/ NextPage(stale)
  \/ \E d \in Docs : Drop(d) \/ AcceptUpload(d) \/ UploadFails(d) \/ Uploaded(d) \/ Ingest(d)
  \/ \E q \in Deletes : \/ \E d \in Docs : HandleDelete(q, d)
                        \/ DeleteDocument(q) \/ Deleted(q) \/ DeleteFails(q)

Spec == Init /\ [][Next]_vars

-----------------------------------------------------------------------------
\* The documents of a page that existed when it was read.
Listing(list) ==
  /\ DOMAIN list \subseteq {d \in Docs : row[d] # "none"}
  /\ Cardinality(DOMAIN list) <= PAGE_SIZE
  /\ \A d \in DOMAIN list : list[d] \in Settling \cup {"settled"}

TypeOK ==
  /\ row \in [Docs -> Settling \cup {"none", "settled", "deleted"}]
  /\ upload \in [Docs -> {"unused", "sent", "accepted", "failed", "over", "over early"}]
  /\ deletion \in [Deletes -> {"unused", "sent", "gone", "missing", "failed", "over"}]
  /\ target \in [Deletes -> 0..MaxDocs] /\ latest \in 0..MaxDeletes /\ page \in Pages
  /\ {loaded, failed, invalid} \subseteq [Pages -> BOOLEAN]
  /\ {total, counted} \subseteq [Pages -> 0..MaxDocs]
  /\ fetch \in [Pages -> {"idle", "sent", "counted", "listed"}]
  /\ DOMAIN items = Pages /\ DOMAIN listed = Pages
  /\ \A p \in Pages : Listing(items[p]) /\ Listing(listed[p])

\* What the mutations' invalidateQueries is for: once the list is at rest and
\* has not failed, it shows every upload - or a page of newer ones - and no
\* deletion that the user has been told of, whichever fetch or poll was under
\* way when the answer came.  (An upload that is over before the list has loaded
\* may be missed by that first load; and once the page is turned, the fetch of
\* the page that is not open is not cancelled.)
NeverTurned == \A p \in Pages \ {0} : ~loaded[p] /\ ~failed[p] /\ fetch[p] = "idle"
ToldIsShown ==
  NeverTurned /\ loaded[0] /\ ~failed[0] /\ fetch[0] = "idle" =>
    /\ \A d \in Active : upload[d] = "over" =>
         \/ d \in DOMAIN items[0]
         \/ Cardinality({e \in DOMAIN items[0] : e > d}) = PAGE_SIZE
    /\ \A q \in Deletes : deletion[q] = "over" => target[q] \notin DOMAIN items[0]

ShownAsSettling(d) ==
  d \in DOMAIN items[page] /\ items[page][d] \in Settling /\ row[d] \notin Settling
=============================================================================
