------------------------- MODULE DocumentLifecycle -------------------------
(***************************************************************************)
(* What the rows of one document promise, with no requests, tasks, files or *)
(* locks in sight: `uploaded -> processing -> ready | failed`, all chunks    *)
(* with the change to ready, and a deletion that takes them all at once.     *)
(***************************************************************************)
EXTENDS Integers

CONSTANTS
  Docs, Owners,
  MaxChunks,   \* bound on the chunks of one document
  MayDisown    \* the database may take a commit without saying so

VARIABLES owner, status, deleted, chunks

rows == <<owner, status, deleted, chunks>>

NoDocuments ==
  /\ owner = [d \in Docs |-> "none"]
  /\ status = [d \in Docs |-> "uploaded"]
  /\ deleted = [d \in Docs |-> FALSE]
  /\ chunks = [d \in Docs |-> {}]

Registered(d, o) ==
  /\ owner[d] = "none" /\ owner' = [owner EXCEPT ![d] = o]
  /\ UNCHANGED <<status, deleted, chunks>>

MoveFrom(d, from, to) ==
  /\ owner[d] # "none"
  /\ status[d] = from /\ status' = [status EXCEPT ![d] = to]
  /\ UNCHANGED <<owner, deleted>>

Started(d) == MoveFrom(d, "uploaded", "processing") /\ UNCHANGED chunks

Completed(d, n) ==
  /\ MoveFrom(d, "processing", "ready")
  /\ chunks[d] = {} /\ chunks' = [chunks EXCEPT ![d] = 0..n-1]

GaveUp(d) == MoveFrom(d, "processing", "failed") /\ UNCHANGED chunks

\* The task was told that its last commit had failed.
Disowned(d) == MayDisown /\ MoveFrom(d, "ready", "failed") /\ UNCHANGED chunks

\* Also of a document that another request has deleted.
Erased(d) ==
  /\ owner[d] # "none"
  /\ deleted' = [deleted EXCEPT ![d] = TRUE]
  /\ chunks' = [chunks EXCEPT ![d] = {}]
  /\ UNCHANGED <<owner, status>>

Next == \E d \in Docs :
  \/ \E o \in Owners : Registered(d, o)
  \/ Started(d) \/ GaveUp(d) \/ Disowned(d) \/ Erased(d)
  \/ \E n \in 0..MaxChunks : Completed(d, n)

Spec == NoDocuments /\ [][Next]_rows
=============================================================================
