----------------------------- MODULE UsersTable -----------------------------
(***************************************************************************)
(* The page /admin/users: the cached list of useAdminUsers and the mutation  *)
(* of usePatchUser, next to other administrators who change accounts, the    *)
(* reader's own among them.  The server's tables are kept in their order, so *)
(* that a list is the number of the table it was read from; what happens     *)
(* between the read and the commit of a PATCH is in Users.                   *)
(***************************************************************************)
EXTENDS Naturals, Sequences

CONSTANTS
  Accounts, Me,
  ROLES,       \* the options of the select boxes
  MaxPatches, MaxOthers

VARIABLES
  tables,                              \* the contents of users, oldest first
  others,                              \* how many changes others have made
  data, failed, fetch, read, invalid,  \* the query of the list: its table, its fetch
  mounted, latest,                     \* the page; the call its mutation observer follows, or 0
  call, sent, at                       \* the calls of the mutation; the table each left

server == <<tables, others>>
query == <<data, failed, fetch, read, invalid>>
calls == <<call, sent, at>>
vars == <<tables, others, data, failed, fetch, read, invalid, mounted, latest, call, sent, at>>

Patches == 1..MaxPatches
NoChange == [account |-> Me, column |-> "none", value |-> "none"]

Users == tables[Len(tables)]
Change(account, column, value) ==
  Append(tables, [Users EXCEPT ![account][column] = value])

\* require_role("admin") of every endpoint that the page calls
Authorized == Users[Me] = [role |-> "admin", status |-> "active"]

Init ==
  /\ \E role \in ROLES, status \in {"active", "inactive"} :
       tables = <<[u \in Accounts |-> IF u = Me THEN [role |-> "admin", status |-> "active"]
                                      ELSE [role |-> role, status |-> status]]>>
  /\ others = 0
  /\ data = 0 /\ failed = FALSE /\ fetch = "sent" /\ read = 0 /\ invalid = FALSE
  /\ mounted = TRUE /\ latest = 0
  /\ call = [c \in Patches |-> "unused"] /\ sent = [c \in Patches |-> NoChange]
  /\ at = [c \in Patches |-> 0]

-----------------------------------------------------------------------------
(* The list *)

StartFetch == fetch' = "sent" /\ read' = 0 /\ failed' = (failed /\ data # 0)

\* list_users
ListUsers ==
  /\ fetch = "sent" /\ Authorized
  /\ fetch' = "read" /\ read' = Len(tables)
  /\ UNCHANGED <<server, data, failed, invalid, mounted, latest, calls>>

ShowUsers ==
  /\ fetch = "read"
  /\ data' = read /\ fetch' = "idle" /\ read' = 0
  /\ failed' = FALSE /\ invalid' = FALSE
  /\ UNCHANGED <<server, mounted, latest, calls>>

\* Two retries later, or 403 for who is no administrator any more.
FetchFails ==
  /\ fetch # "idle"
  /\ fetch' = "idle" /\ read' = 0 /\ failed' = TRUE /\ invalid' = TRUE
  /\ UNCHANGED <<server, data, mounted, latest, calls>>

\* "Try again", or the browser is online again and the data is stale.
Refetch ==
  /\ mounted /\ fetch = "idle"
  /\ StartFetch
  /\ UNCHANGED <<server, data, invalid, mounted, latest, calls>>

Leave ==
  /\ mounted /\ mounted' = FALSE /\ latest' = 0
  /\ UNCHANGED <<server, query, calls>>

\* Mounting fetches what is missing, invalid or stale.
Return(stale) ==
  /\ ~mounted /\ mounted' = TRUE
  /\ IF fetch = "idle" /\ (data = 0 \/ invalid \/ stale)
       THEN StartFetch ELSE UNCHANGED <<fetch, read, failed>>
  /\ UNCHANGED <<server, data, invalid, latest, calls>>

-----------------------------------------------------------------------------
(* The controls of a row *)

Pending == latest # 0 /\ call[latest] \in {"flying", "applied", "refused"}

Enabled(u) == mounted /\ data # 0 /\ ~failed /\ u # Me /\ ~Pending

Patch(c, u, column, value) ==
  /\ call[c] = "unused" /\ \A b \in 1..c - 1 : call[b] # "unused"
  /\ call' = [call EXCEPT ![c] = "flying"]
  /\ sent' = [sent EXCEPT ![c] = [account |-> u, column |-> column, value |-> value]]
  /\ latest' = c
  /\ UNCHANGED <<server, query, mounted, at>>

\* A select fires when another option than the shown one is chosen.
ChangeRole(c, u, role) ==
  Enabled(u) /\ role # tables[data][u].role /\ Patch(c, u, "role", role)

\* Deactivate or Reactivate, as the list has it.
ToggleActive(c, u) ==
  Enabled(u) /\ Patch(c, u, "status",
    IF tables[data][u].status = "active" THEN "inactive" ELSE "active")

\* update_user writes what differs, or the request is refused.
UpdateUser(c) ==
  /\ call[c] = "flying"
  /\ LET b == sent[c] IN
     \/ /\ Authorized
        /\ tables' = IF Users[b.account][b.column] = b.value THEN tables
                     ELSE Change(b.account, b.column, b.value)
        /\ call' = [call EXCEPT ![c] = "applied"]
        /\ at' = [at EXCEPT ![c] = Len(tables')]
     \/ /\ ~Authorized
        /\ call' = [call EXCEPT ![c] = "refused"]
        /\ UNCHANGED <<tables, at>>
  /\ UNCHANGED <<others, query, mounted, latest, sent>>

InvalidateWhileOpen ==
  IF mounted THEN invalid' = TRUE /\ StartFetch ELSE UNCHANGED <<fetch, read, failed, invalid>>

\* The hook's onSuccess runs whether or not the page is still there: the list of
\* an open page is fetched anew and its fetch under way cancelled, that of a
\* closed one only marked.
Invalidate ==
  /\ invalid' = TRUE
  /\ IF mounted THEN StartFetch ELSE UNCHANGED <<fetch, read, failed>>

Accepted(c) ==
  /\ call[c] = "applied"
  /\ call' = [call EXCEPT ![c] = IF mounted \/ fetch = "idle" THEN "told" ELSE "told away"]
  /\ Invalidate
  /\ UNCHANGED <<server, data, mounted, latest, sent, at>>

\* Refused, or the answer is lost: a toast, and the list stays as it is.
PatchFails(c) ==
  /\ call[c] \in {"flying", "applied", "refused"}
  /\ call' = [call EXCEPT ![c] = "failed"]
  /\ UNCHANGED <<server, query, mounted, latest, sent, at>>

OtherAdmin ==
  /\ others < MaxOthers /\ others' = others + 1
  /\ \E u \in Accounts :
       \/ \E role \in ROLES \ {Users[u].role} : tables' = Change(u, "role", role)
       \/ \E status \in {"active", "inactive"} \ {Users[u].status} :
            tables' = Change(u, "status", status)
  /\ UNCHANGED <<query, mounted, latest, calls>>

Next ==
  \/ ListUsers \/ ShowUsers \/ FetchFails \/ Refetch
  \/ Leave \/ OtherAdmin
  \/ \E stale \in BOOLEAN : Return(stale)
  \/ \E c \in Patches :
       \/ \E u \in Accounts : ToggleActive(c, u) \/ \E role \in ROLES : ChangeRole(c, u, role)
       \/ UpdateUser(c) \/ Accepted(c) \/ PatchFails(c)

Spec == Init /\ [][Next]_vars

-----------------------------------------------------------------------------
Table == [Accounts -> [role : ROLES, status : {"active", "inactive"}]]

TypeOK ==
  /\ tables \in Seq(Table) /\ Len(tables) > 0
  /\ others \in 0..MaxOthers
  /\ data \in 0..Len(tables) /\ read \in 0..Len(tables)
  /\ {failed, invalid, mounted} \subseteq BOOLEAN
  /\ fetch \in {"idle", "sent", "read"} /\ latest \in 0..MaxPatches
  /\ call \in [Patches -> {"unused", "flying", "applied", "refused", "told", "told away",
                           "failed"}]
  /\ sent \in [Patches -> [account : Accounts, column : {"none", "role", "status"},
                           value : ROLES \cup {"none", "active", "inactive"}]]
  /\ at \in [Patches -> 0..Len(tables)]

\* Whichever order the PATCHes, their answers and the refetches take, and whether
\* or not the page was left meanwhile: the select boxes of a list at rest are as
\* new as every change that the administrator was told of.  (Not one that was
\* told while the page was closed and its fetch still under way: nothing cancels
\* that fetch, and its older list counts as fresh.)
ListShowsOwnChanges ==
  mounted /\ data # 0 /\ ~failed /\ fetch = "idle" =>
    \A c \in Patches : call[c] = "told" => data >= at[c]
=============================================================================
