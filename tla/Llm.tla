-------------------------------- MODULE Llm --------------------------------
(***************************************************************************)
(* One call of a language-model provider: the provider chosen by             *)
(* backend/app/llm/factory.py, the HTTP policy of http.py with its retries   *)
(* and back-off, and the reading of the answer by the OpenAI and Anthropic   *)
(* providers.  Time passes in the step that waits for it, in seconds: httpx   *)
(* applies the timeout to each wait of an exchange, not to their sum.        *)
(***************************************************************************)
EXTENDS Naturals, Sequences

CONSTANTS
  TIMEOUT_SECONDS, MAX_RETRIES, BACKOFF_BASE,
  Waits,       \* of one exchange: to connect, to write, for each part read
  Latencies    \* how long an exchange may take

VARIABLES
  kind,       \* "embed" or "complete"
  provider,   \* settings.llm_provider
  keys,       \* the API keys that are set
  attempt,    \* of post_json's loop
  replies,    \* what the provider has answered, in order
  elapsed,
  pc, result

vars == <<kind, provider, keys, attempt, replies, elapsed, pc, result>>

\* Statuses by what post_json tells apart; "good" and "odd" are a status below
\* 400 whose body has, or has not, the shape the provider class reads.
Retryable == {"429", "5xx"}
Replies == Retryable \cup {"good", "odd", "4xx"}

Init ==
  /\ kind \in {"embed", "complete"}
  /\ provider \in {"fake", "openai", "anthropic"}
  /\ keys \in SUBSET {"openai", "anthropic"}
  /\ attempt = 0 /\ replies = <<>> /\ elapsed = 0
  /\ pc = "choose" /\ result = "none"

Finish(r) == pc' = "done" /\ result' = r

\* Embeddings are OpenAI's whichever chat provider is configured.
KeyNeeded == IF kind = "embed" THEN "openai" ELSE provider

\* get_chat_provider, get_embedding_provider; the fake one answers by itself.
Choose ==
  /\ pc = "choose"
  /\ \/ provider = "fake" /\ Finish("value")
     \/ provider # "fake" /\ KeyNeeded \notin keys /\ Finish("LLM_UNAVAILABLE")
     \/ provider # "fake" /\ KeyNeeded \in keys /\ pc' = "post" /\ UNCHANGED result
  /\ UNCHANGED <<kind, provider, keys, attempt, replies, elapsed>>

\* httpx.HTTPError: no connection, or a wait of TIMEOUT_SECONDS.
RequestFails ==
  /\ pc = "post"
  /\ \E d \in Latencies : elapsed' = elapsed + d
  /\ Finish("LLM_UNAVAILABLE")
  /\ UNCHANGED <<kind, provider, keys, attempt, replies>>

RefusedPastLimit(r) ==
  /\ replies' = Append(replies, r)
  /\ IF r \in Retryable /\ attempt <= MAX_RETRIES
     THEN pc' = "backoff" /\ UNCHANGED result
     ELSE Finish("LLM_UNAVAILABLE")

\* A status from 400 on: retried while attempts are left, when it is worth it.
Refused(r) ==
  /\ replies' = Append(replies, r)
  /\ IF r \in Retryable /\ attempt < MAX_RETRIES
     THEN pc' = "backoff" /\ UNCHANGED result
     ELSE Finish("LLM_UNAVAILABLE")

\* response.json() and the fields of ChatResult or of the embeddings: what they
\* raise on another shape is no LLMProviderError.
Read(r) ==
  /\ replies' = Append(replies, r)
  /\ Finish(IF r = "good" THEN "value" ELSE "INTERNAL_ERROR")

Answered ==
  /\ pc = "post"
  /\ \E d \in Latencies : elapsed' = elapsed + d
  /\ \E r \in Replies : IF r \in {"good", "odd"} THEN Read(r) ELSE Refused(r)
  /\ UNCHANGED <<kind, provider, keys, attempt>>

Backoff ==
  /\ pc = "backoff"
  /\ elapsed' = elapsed + BACKOFF_BASE * 2^attempt
  /\ attempt' = attempt + 1
  /\ pc' = "post"
  /\ UNCHANGED <<kind, provider, keys, replies, result>>

Next == Choose \/ RequestFails \/ Answered \/ Backoff

Spec == Init /\ [][Next]_vars

-----------------------------------------------------------------------------
TypeOK ==
  /\ kind \in {"embed", "complete"} /\ provider \in {"fake", "openai", "anthropic"}
  /\ keys \subseteq {"openai", "anthropic"}
  /\ attempt \in 0..MAX_RETRIES
  /\ replies \in Seq(Replies) /\ elapsed \in Nat
  /\ pc \in {"choose", "post", "backoff", "done"}
  /\ result \in {"none", "value", "LLM_UNAVAILABLE", "INTERNAL_ERROR"}

\* "two retries ..., but only on 429/5xx": a request was sent again only after
\* such a status, and never more than MAX_RETRIES times.
RetriesAreWorthIt ==
  /\ Len(replies) <= MAX_RETRIES + 1
  /\ \A k \in 1..Len(replies) :
       k < Len(replies) \/ pc \in {"backoff", "post"} => replies[k] \in Retryable

Backoffs == BACKOFF_BASE * (2^MAX_RETRIES - 1)

\* The caller, who holds a request open, waits no longer than every wait of
\* every attempt and the back-offs between them.
WaitIsBounded == elapsed <= (MAX_RETRIES + 1) * Waits * TIMEOUT_SECONDS + Backoffs

\* A 429 or 5xx is reported only once the retries are used up.
GivesUpLate ==
  result = "LLM_UNAVAILABLE" /\ Len(replies) \in 1..MAX_RETRIES =>
    \/ replies[Len(replies)] \notin Retryable
    \/ attempt = Len(replies)  \* the next request failed outright
=============================================================================
