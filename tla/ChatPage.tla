------------------------------ MODULE ChatPage ------------------------------
(***************************************************************************)
(* The page of one conversation (frontend chat/[conversationId]): composer,  *)
(* the mutation of useAskQuestion, the cached history of useConversation and *)
(* ChatWindow, next to the two services that answer them.  React renders     *)
(* after TanStack Query has been told of a change, not at once, and the      *)
(* user may leave the page and come back.  The cache outlives the page.      *)
(***************************************************************************)
EXTENDS Naturals

CONSTANTS MaxAsks, Texts, Empty, MaxVisits

VARIABLES
  questions, answers,  \* the asks whose question, whose answer row exists
  server,     \* where ask_question is for each ask
  call,       \* the mutation of each ask
  sent,       \* its text
  latest,     \* the ask that the page's mutation observer follows, or 0
  busy,       \* ask.isPending, as last rendered
  draft,      \* the composer
  typed,      \* what the user last typed there
  mounted, visits,
  loaded, failed,       \* the query has data; its last fetch failed
  shown, shownAnswers,  \* the data: the questions listed, those with an answer
  fetch, listed,        \* its fetch, and the questions that has read
  invalid               \* isInvalidated

service == <<questions, answers, server>>
asking == <<call, sent, latest, busy>>
composer == <<draft, typed>>
visit == <<mounted, visits>>
query == <<loaded, failed, shown, shownAnswers, fetch, listed, invalid>>
vars == <<questions, answers, server, call, sent, latest, busy, draft, typed,
          mounted, visits, loaded, failed, shown, shownAnswers, fetch, listed, invalid>>

Asks == 1..MaxAsks

Init ==
  /\ questions = {} /\ answers = {}
  /\ server = [a \in Asks |-> "unused"] /\ call = [a \in Asks |-> "unused"]
  /\ sent = [a \in Asks |-> Empty] /\ latest = 0 /\ busy = FALSE
  /\ draft = Empty /\ typed = Empty
  /\ mounted = TRUE /\ visits = 0
  /\ loaded = FALSE /\ failed = FALSE /\ shown = {} /\ shownAnswers = {}
  /\ fetch = "sent" /\ listed = {} /\ invalid = FALSE

-----------------------------------------------------------------------------
(* ask_question *)

Save(a) ==
  /\ server[a] = "received"
  /\ server' = [server EXCEPT ![a] = "saved"]
  /\ questions' = questions \cup {a}
  /\ UNCHANGED <<answers, asking, composer, visit, query>>

GiveAnswer(a) ==
  /\ server[a] = "saved"
  /\ server' = [server EXCEPT ![a] = "answered"]
  /\ answers' = answers \cup {a}
  /\ UNCHANGED <<questions, asking, composer, visit, query>>

NothingGrounds(a) ==
  /\ server[a] = "saved"
  /\ server' = [server EXCEPT ![a] = "ungrounded"]
  /\ UNCHANGED <<questions, answers, asking, composer, visit, query>>

AskFails(a) ==
  /\ server[a] \in {"received", "saved"}
  /\ server' = [server EXCEPT ![a] = "failed"]
  /\ UNCHANGED <<questions, answers, asking, composer, visit, query>>

-----------------------------------------------------------------------------
(* The composer *)

\* isPending and isError pages have no form.
FormShown == mounted /\ loaded /\ ~failed

Type(t) ==
  /\ FormShown /\ draft # t
  /\ draft' = t /\ typed' = t
  /\ UNCHANGED <<service, asking, visit, query>>

\* Ask or Enter; both look at the isPending of the last render.
Submit(a) ==
  /\ FormShown /\ draft # Empty /\ ~busy
  /\ call[a] = "unused" /\ \A b \in 1..a - 1 : call[b] # "unused"
  /\ call' = [call EXCEPT ![a] = "flying"] /\ sent' = [sent EXCEPT ![a] = draft]
  /\ server' = [server EXCEPT ![a] = "received"]
  /\ latest' = a
  /\ UNCHANGED <<questions, answers, busy, composer, visit, query>>

InFlight == latest # 0 /\ call[latest] = "flying"

Render ==
  /\ mounted /\ busy # InFlight
  /\ busy' = InFlight
  /\ UNCHANGED <<service, call, sent, latest, composer, visit, query>>

\* A fetch begins: without data the query is pending again.
StartFetch == fetch' = "sent" /\ failed' = (failed /\ loaded)

InvalidateKeepsFetch ==
  /\ IF mounted /\ fetch = "idle" THEN StartFetch ELSE UNCHANGED <<fetch, failed>>
  /\ invalid' = TRUE
  /\ UNCHANGED <<loaded, shown, shownAnswers, listed>>

\* invalidateQueries: the query of the open page is fetched anew, its fetch
\* under way cancelled; without the page neither is touched.
Invalidate ==
  /\ IF mounted THEN StartFetch ELSE UNCHANGED <<fetch, failed>>
  /\ invalid' = TRUE
  /\ UNCHANGED <<loaded, shown, shownAnswers, listed>>

Succeeded(a) == server[a] \in {"answered", "ungrounded"}

ClearAlways(a, ok) == IF a = latest /\ mounted THEN Empty ELSE draft

\* onSuccess of mutate: it only runs for the latest call, while the page is there.
Cleared(a, ok) == IF ok /\ a = latest /\ mounted THEN Empty ELSE draft

SettledOnSuccessOnly(a) ==
  /\ call[a] = "flying" /\ (Succeeded(a) \/ server[a] = "failed")
  /\ call' = [call EXCEPT ![a] = "settled"]
  /\ draft' = Cleared(a, Succeeded(a))
  /\ IF Succeeded(a) THEN Invalidate ELSE UNCHANGED query
  /\ UNCHANGED <<service, sent, latest, busy, typed, visit>>

\* The reply arrives: onSettled, then onSuccess or onError.
Settle(a) ==
  /\ call[a] = "flying" /\ (Succeeded(a) \/ server[a] = "failed")
  /\ call' = [call EXCEPT ![a] = "settled"]
  /\ draft' = Cleared(a, Succeeded(a))
  /\ Invalidate
  /\ UNCHANGED <<service, sent, latest, busy, typed, visit>>

\* The connection breaks; the server may still be working on the ask.
Drop(a) ==
  /\ call[a] = "flying"
  /\ call' = [call EXCEPT ![a] = "dropped"]
  /\ draft' = Cleared(a, FALSE)
  /\ Invalidate
  /\ UNCHANGED <<service, sent, latest, busy, typed, visit>>

-----------------------------------------------------------------------------
(* The history *)

\* conversation_detail lists the questions first ...
ListQuestions ==
  /\ fetch = "sent"
  /\ fetch' = "listed" /\ listed' = questions
  /\ UNCHANGED <<service, asking, composer, visit, loaded, failed, shown, shownAnswers, invalid>>

\* ... then their answers; the response replaces the data.
ShowHistory ==
  /\ fetch = "listed"
  /\ fetch' = "idle" /\ loaded' = TRUE /\ failed' = FALSE /\ invalid' = FALSE
  /\ shown' = listed /\ shownAnswers' = listed \cap answers
  /\ UNCHANGED <<service, asking, composer, visit, listed>>

\* Two retries later.
FetchFails ==
  /\ fetch # "idle"
  /\ fetch' = "idle" /\ failed' = TRUE /\ invalid' = TRUE
  /\ UNCHANGED <<service, asking, composer, visit, loaded, shown, shownAnswers, listed>>

\* The browser is online again and the data is older than staleTime.
Reconnect ==
  /\ mounted /\ fetch = "idle"
  /\ StartFetch
  /\ UNCHANGED <<service, asking, composer, visit, loaded, shown, shownAnswers, listed, invalid>>

\* The component's state is gone; mutations and fetches go on.
Leave ==
  /\ mounted /\ visits < MaxVisits
  /\ mounted' = FALSE /\ visits' = visits + 1
  /\ draft' = Empty /\ typed' = Empty
  /\ latest' = 0 /\ busy' = FALSE
  /\ UNCHANGED <<service, call, sent, query>>

\* Mounting fetches what is missing, invalid or stale; a fetch under way will do.
Return(stale) ==
  /\ ~mounted /\ mounted' = TRUE
  /\ IF fetch = "idle" /\ (~loaded \/ invalid \/ stale) THEN StartFetch
                                                   ELSE UNCHANGED <<fetch, failed>>
  /\ UNCHANGED <<service, asking, composer, visits, loaded, shown, shownAnswers, listed, invalid>>

Serve(a) == Save(a) \/ GiveAnswer(a) \/ NothingGrounds(a) \/ AskFails(a)
Fetching == ListQuestions \/ ShowHistory \/ FetchFails

Next ==
  \/ \E a \in Asks : Serve(a) \/ Submit(a) \/ Settle(a) \/ Drop(a)
  \/ \E t \in Texts \cup {Empty} : Type(t)
  \/ Render \/ Fetching \/ Reconnect
  \/ Leave \/ \E stale \in BOOLEAN : Return(stale)

Spec == Init /\ [][Next]_vars

-----------------------------------------------------------------------------
TypeOK ==
  /\ questions \subseteq Asks /\ answers \subseteq questions
  /\ server \in [Asks -> {"unused", "received", "saved", "answered", "ungrounded", "failed"}]
  /\ call \in [Asks -> {"unused", "flying", "settled", "dropped"}]
  /\ sent \in [Asks -> Texts \cup {Empty}] /\ latest \in 0..MaxAsks
  /\ {busy, mounted, loaded, failed, invalid} \subseteq BOOLEAN
  /\ {draft, typed} \subseteq Texts \cup {Empty} /\ visits \in 0..MaxVisits
  /\ shownAnswers \subseteq shown /\ shown \subseteq questions
  /\ fetch \in {"idle", "sent", "listed"} /\ listed \subseteq questions

AskFailed(a) == \/ call[a] = "dropped"
                \/ call[a] = "settled" /\ server[a] = "failed"

\* "on failure the question was still saved - keep the draft so the user can
\* simply hit Ask again": even with an earlier ask still under way, whose reply
\* comes later, a failed ask leaves what the user has typed in the composer.
FailedAskKeepsDraft ==
  latest # 0 /\ AskFailed(latest) => draft = typed

Replied(a) == call[a] = "settled" /\ a \in questions
HistoryHas(a) == a \in shown \/ failed \/ visits > 0
=============================================================================
