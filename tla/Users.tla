-------------------------------- MODULE Users --------------------------------
(***************************************************************************)
(* Accounts: registration (backend/app/auth/service.py) and administration  *)
(* (backend/app/users), at the granularity of the awaits.  An account is    *)
(* identified with its e-mail address, which the citext column compares    *)
(* without regard to case.                                                 *)
(***************************************************************************)
EXTENDS Naturals, FiniteSets

CONSTANTS
  Users,          \* e-mail addresses, one account each
  Founders,       \* the accounts that are active administrators at the start
  Updates,        \* PATCH /admin/users/{id} requests
  Registrations,  \* POST /auth/register requests
  AskedRoles,     \* the roles that a PATCH may ask for
  PoolSizes       \* the sizes the SQLAlchemy pool may be given

Roles == {"user", "reviewer", "admin"}

ASSUME UsersAssumption == "none" \notin Users
ASSUME RequestsAssumption == /\ IsFiniteSet(Updates) /\ IsFiniteSet(Registrations)
                             /\ Updates \cap Registrations = {}
ASSUME RolesAssumption == AskedRoles \subseteq Roles
ASSUME FoundersAssumption == Founders \subseteq Users /\ Founders # {}
ASSUME PoolSizesAssumption == PoolSizes \subseteq Nat \ {0}

VARIABLES
  role,    \* users.role, "none" while there is no row
  active,  \* users.is_active
  audit,   \* audit_events on users
  pc,      \* where each update stands
  admin,   \* its authenticated administrator
  patch,   \* the path and body of the request
  loaded,  \* the role and activity of the target as session.get returned them
  reg,     \* where each registration stands
  email,   \* its e-mail address
  poolSize \* the pool's connections: with one, no two transactions overlap

rowVars == <<role, active, audit>>
updateVars == <<pc, admin, patch, loaded>>
regVars == <<reg, email>>
vars == <<rowVars, updateVars, regVars, poolSize>>

\* What AdminUserPatch accepts: a patch asks for at least one change.
Patches == {p \in [target : Users, role : AskedRoles \cup {"keep"}, active : {"yes", "no", "keep"}] :
              p.role # "keep" \/ p.active # "keep"}
NoPatch == [target |-> "none", role |-> "keep", active |-> "keep"]
NotLoaded == [role |-> "none", active |-> "no"]

UpdateTx == {q \in Updates : pc[q] \in {"authorized", "fetched", "staged"}}
RegisterTx == {g \in Registrations : reg[g] = "inserted"}
ConnectionFree == Cardinality(UpdateTx) + Cardinality(RegisterTx) < poolSize

TokenSaysAdmin(u) == u \in Founders

IsActiveAdmin(u) == role[u] = "admin" /\ active[u] = "yes"

Init ==
  /\ role = [u \in Users |-> IF u \in Founders THEN "admin" ELSE "none"]
  /\ active = [u \in Users |-> "yes"]
  /\ audit = {}
  /\ pc = [q \in Updates |-> "new"]
  /\ admin = [q \in Updates |-> "none"]
  /\ patch = [q \in Updates |-> NoPatch]
  /\ loaded = [q \in Updates |-> NotLoaded]
  /\ reg = [g \in Registrations |-> "new"]
  /\ email = [g \in Registrations |-> "none"]
  /\ poolSize \in PoolSizes

Goto(q, from, to) == pc[q] = from /\ pc' = [pc EXCEPT ![q] = to]
\* The session is closed: what the request held in memory is gone.
Forget(q) == /\ admin' = [admin EXCEPT ![q] = "none"]
             /\ patch' = [patch EXCEPT ![q] = NoPatch]
             /\ loaded' = [loaded EXCEPT ![q] = NotLoaded]
RegStep(g, from, to) == reg[g] = from /\ reg' = [reg EXCEPT ![g] = to]

-----------------------------------------------------------------------------
(* register_user *)

\* The unique index makes the INSERT wait for one of the same address that is
\* not committed yet.
NoPendingInsert(g, u) == \A h \in Registrations \ {g} : h \in RegisterTx => email[h] # u

\* flush: IntegrityError (409) when the address is taken.
InsertUser(g, u) ==
  /\ ConnectionFree
  /\ NoPendingInsert(g, u)
  /\ RegStep(g, "new", IF role[u] = "none" THEN "inserted" ELSE "conflict")
  /\ email' = [email EXCEPT ![g] = IF role[u] = "none" THEN u ELSE "none"]
  /\ UNCHANGED <<rowVars, updateVars>>

CommitRegistration(g) ==
  /\ RegStep(g, "inserted", "committed")
  /\ role' = [role EXCEPT ![email[g]] = "user"]
  /\ audit' = audit \cup {[action |-> "user.registered", by |-> g, actor |-> email[g],
                           target |-> email[g], old |-> "none", new |-> "user"]}
  /\ UNCHANGED <<active, updateVars, email>>

\* refresh(user), then 201.
RespondRegistration(g) ==
  /\ ConnectionFree
  /\ RegStep(g, "committed", "registered")
  /\ UNCHANGED <<rowVars, updateVars, email>>

\* An error or a crash: before the commit nothing is written, after it the
\* account exists and the client cannot know.
RegistrationFails(g) ==
  /\ reg[g] \in {"inserted", "committed"}
  /\ reg' = [reg EXCEPT ![g] = "error"]
  /\ UNCHANGED <<rowVars, updateVars, email>>

-----------------------------------------------------------------------------
(* update_user *)

MayPatchAnyone(a, p) == TRUE

\* Admins may not touch their own account: 422.
MayPatch(a, p) == a # p.target

\* get_current_user and require_role("admin") read the row, then the service
\* compares the path with the administrator, all before the next await ...
Authorize(q, a, p) ==
  /\ ConnectionFree
  /\ IsActiveAdmin(a) /\ MayPatch(a, p)
  /\ Goto(q, "new", "authorized")
  /\ admin' = [admin EXCEPT ![q] = a]
  /\ patch' = [patch EXCEPT ![q] = p]
  /\ UNCHANGED <<rowVars, loaded, regVars>>

\* ... 401, 403 or 422 otherwise.
Refuse(q, a, p) ==
  /\ ConnectionFree
  /\ ~(IsActiveAdmin(a) /\ MayPatch(a, p))
  /\ Goto(q, "new", "refused")
  /\ UNCHANGED <<rowVars, admin, patch, loaded, regVars>>

\* session.get(User, user_id): the row as committed by now, or 404.
FetchTarget(q) ==
  LET t == patch[q].target
  IN  /\ Goto(q, "authorized", "fetched")
      /\ role[t] # "none"
      /\ loaded' = [loaded EXCEPT ![q] = [role |-> role[t], active |-> active[t]]]
      /\ UNCHANGED <<rowVars, admin, patch, regVars>>

TargetMissing(q) ==
  /\ Goto(q, "authorized", "refused")
  /\ role[patch[q].target] = "none"
  /\ Forget(q)
  /\ UNCHANGED <<rowVars, regVars>>

\* Only what differs from the loaded row is written and audited.
ChangesRole(q) == patch[q].role \notin {"keep", loaded[q].role}
ChangesActive(q) == patch[q].active \notin {"keep", loaded[q].active}

RowLockedForOther(q) ==
  \E o \in Updates \ {q} : /\ pc[o] = "staged"
                           /\ patch[o].target = patch[q].target
                           /\ ChangesRole(o) \/ ChangesActive(o)

\* The flush inside commit: UPDATE users waits for the row when it is needed.
StageUpdate(q) ==
  /\ Goto(q, "fetched", "staged")
  /\ (ChangesRole(q) \/ ChangesActive(q)) => ~RowLockedForOther(q)
  /\ UNCHANGED <<rowVars, admin, patch, loaded, regVars>>

Event(q, action, old, new) ==
  [action |-> action, by |-> q, actor |-> admin[q], target |-> patch[q].target,
   old |-> old, new |-> new]

Events(q) ==
  (IF ChangesRole(q)
   THEN {Event(q, "user.role_changed", loaded[q].role, patch[q].role)} ELSE {})
  \cup
  (IF ChangesActive(q)
   THEN {Event(q, IF patch[q].active = "no" THEN "user.deactivated" ELSE "user.reactivated",
               loaded[q].active, patch[q].active)} ELSE {})

\* Writes both columns whenever one changed, the other one as it was loaded.
WriteLoadedRow(q) ==
  LET t == patch[q].target
      r == IF ChangesRole(q) THEN patch[q].role ELSE loaded[q].role
      b == IF ChangesActive(q) THEN patch[q].active ELSE loaded[q].active
  IN  /\ role' = [role EXCEPT ![t] = r]
      /\ active' = [active EXCEPT ![t] = b]

\* UPDATE sets the changed columns only.
WriteChanges(q) ==
  LET t == patch[q].target
  IN  /\ role' = IF ChangesRole(q) THEN [role EXCEPT ![t] = patch[q].role] ELSE role
      /\ active' = IF ChangesActive(q) THEN [active EXCEPT ![t] = patch[q].active]
                   ELSE active

CommitUpdate(q) ==
  /\ Goto(q, "staged", "committed")
  /\ WriteChanges(q)
  /\ audit' = audit \cup Events(q)
  /\ Forget(q)
  /\ UNCHANGED regVars

\* refresh(target), then 200.
RespondUpdate(q) ==
  /\ ConnectionFree
  /\ Goto(q, "committed", "done")
  /\ UNCHANGED <<rowVars, admin, patch, loaded, regVars>>

\* An error or a crash: what was not committed is not written.
UpdateFails(q) ==
  /\ q \in UpdateTx \/ pc[q] = "committed"
  /\ pc' = [pc EXCEPT ![q] = "error"]
  /\ Forget(q)
  /\ UNCHANGED <<rowVars, regVars>>

Next ==
  /\ \/ \E g \in Registrations : \/ \E u \in Users : InsertUser(g, u)
                                 \/ CommitRegistration(g) \/ RespondRegistration(g)
                                 \/ RegistrationFails(g)
     \/ \E q \in Updates :
          \/ \E a \in Users, p \in Patches : Authorize(q, a, p) \/ Refuse(q, a, p)
          \/ FetchTarget(q) \/ TargetMissing(q) \/ StageUpdate(q)
          \/ CommitUpdate(q) \/ RespondUpdate(q) \/ UpdateFails(q)
  /\ UNCHANGED poolSize

Spec == Init /\ [][Next]_vars

-----------------------------------------------------------------------------
EventType == [action : {"user.registered", "user.role_changed", "user.deactivated",
                        "user.reactivated"},
              by : Updates \cup Registrations, actor : Users, target : Users,
              old : Roles \cup {"none", "yes", "no"}, new : Roles \cup {"yes", "no"}]

TypeOK ==
  /\ role \in [Users -> Roles \cup {"none"}]
  /\ active \in [Users -> {"yes", "no"}]
  /\ audit \subseteq EventType
  /\ pc \in [Updates -> {"new", "authorized", "fetched", "staged", "committed",
                     "done", "refused", "error"}]
  /\ admin \in [Updates -> Users \cup {"none"}]
  /\ patch \in [Updates -> Patches \cup {NoPatch}]
  /\ loaded \in [Updates -> [role : Roles \cup {"none"}, active : {"yes", "no"}]]
  /\ reg \in [Registrations -> {"new", "inserted", "committed", "registered",
                             "conflict", "error"}]
  /\ email \in [Registrations -> Users \cup {"none"}]
  /\ poolSize \in PoolSizes

\* The audit trail tells all that becomes of an account and nothing else: an
\* account appears only with its registration, of an address that had none ("the
\* atomic source of truth"), and a column changes only to what a new event says,
\* so that two administrators who patch different columns of one account do not
\* undo each other.  What an event says has come true, and while requests take
\* turns it was not true before.
Appeared == audit' \ audit
AuditTellsAccounts ==
  [][/\ \A u \in Users :
          /\ role'[u] # role[u] => \E e \in Appeared : e.target = u /\ e.new = role'[u]
          /\ active'[u] # active[u] => \E e \in Appeared : e.target = u /\ e.new = active'[u]
     /\ \A e \in Appeared :
          /\ e.new \in {role'[e.target], active'[e.target]}
          /\ e.action = "user.registered" <=> role[e.target] = "none"
          /\ poolSize = 1 => e.old \in {role[e.target], active[e.target]}]_vars

\* "an admin locking themselves out is unrecoverable in-app": while requests
\* take turns there is always an active administrator to go on with.  Two who
\* demote each other at the same time leave none.
SomeAdminRemains == poolSize = 1 => \E u \in Users : IsActiveAdmin(u)

\* "Roles are re-read from the database on every request", "so a role change or
\* deactivation applies immediately": while requests take turns, whoever changes
\* an account is an active administrator at that moment.  Next to others, an
\* update authorised before a demotion is carried out after it.
RevocationIsImmediate ==
  [][\A q \in Updates : poolSize = 1 /\ pc[q] = "staged" /\ pc'[q] = "committed"
                        /\ audit' # audit
                        => role[admin[q]] = "admin" /\ active[admin[q]] = "yes"]_vars
==============================================================================
