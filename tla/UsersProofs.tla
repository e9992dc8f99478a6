----------------------------- MODULE UsersProofs -----------------------------
(***************************************************************************)
(* Theorems about Users, for any accounts, requests and pool sizes.  What a  *)
(* commit writes was put together over several awaits; the invariant says    *)
(* what a request may still rely on when it gets there: Locals and Inserted  *)
(* in any case, Alone and Current if transactions do not overlap.            *)
(***************************************************************************)
EXTENDS Users, FiniteSetTheorems, TLAPS

InTx(q) == pc[q] \in {"authorized", "fetched", "staged"}
HasLoaded(q) == pc[q] \in {"fetched", "staged"}
Row(u) == [role |-> role[u], active |-> active[u]]

\* An update in its transaction has an administrator and another's account.
Locals ==
  \A q \in Updates :
    InTx(q) => /\ admin[q] \in Users /\ patch[q] \in Patches
               /\ admin[q] # patch[q].target
               /\ HasLoaded(q) => role[patch[q].target] # "none"

\* A registration past its INSERT has the address to itself.
Inserted ==
  \A g \in Registrations :
    reg[g] = "inserted" =>
      /\ email[g] \in Users /\ role[email[g]] = "none"
      /\ \A h \in Registrations \ {g} : reg[h] = "inserted" => email[h] # email[g]

\* Who has not committed has no event.
Unwritten ==
  \A e \in audit :
    /\ \A q \in Updates : pc[q] = "new" \/ InTx(q) => e.by # q
    /\ \A g \in Registrations : reg[g] \in {"new", "inserted"} => e.by # g

Alone ==
  poolSize = 1 => \A q \in Updates : InTx(q) =>
    /\ \A p \in Updates : InTx(p) => p = q
    /\ \A g \in Registrations : reg[g] # "inserted"

\* What an update has read is still so.
Current ==
  poolSize = 1 => \A q \in Updates : InTx(q) =>
    /\ IsActiveAdmin(admin[q])
    /\ HasLoaded(q) => loaded[q] = Row(patch[q].target)

IInv == TypeOK /\ Locals /\ Inserted /\ Unwritten /\ Alone /\ Current /\ SomeAdminRemains

-----------------------------------------------------------------------------
\* A pool of one connection that is free serves no other transaction.
LEMMA FreeMeansNobody ==
  ASSUME poolSize = 1, ConnectionFree
  PROVE  UpdateTx = {} /\ RegisterTx = {}
<1>1. IsFiniteSet(UpdateTx) /\ IsFiniteSet(RegisterTx)
  BY RequestsAssumption, FS_Subset DEF UpdateTx, RegisterTx
<1>2. Cardinality(UpdateTx) \in Nat /\ Cardinality(RegisterTx) \in Nat
  BY <1>1, FS_CardinalityType
<1>3. Cardinality(UpdateTx) = 0 /\ Cardinality(RegisterTx) = 0
  BY <1>2 DEF ConnectionFree
<1> QED  BY <1>1, <1>3, FS_EmptySet

\* At the start nobody is in a transaction and the founders are administrators.
LEMMA InitHolds == Init => IInv
<1> SUFFICES ASSUME Init PROVE IInv
  OBVIOUS
<1> USE UsersAssumption, FoundersAssumption DEF Init
<1>1. TypeOK
  BY DEF TypeOK, Roles, NoPatch, NotLoaded
<1>2. Locals /\ Inserted /\ Unwritten /\ Alone /\ Current
  BY DEF Locals, Inserted, Unwritten, Alone, Current, InTx
<1>3. SomeAdminRemains
  BY DEF SomeAdminRemains, IsActiveAdmin
<1> QED  BY <1>1, <1>2, <1>3 DEF IInv

-----------------------------------------------------------------------------
(* One lemma per action. *)

\* The INSERT has waited for, or found, every other one of its address.
LEMMA InsertUserKeeps ==
  ASSUME IInv, NEW g \in Registrations, NEW u \in Users, InsertUser(g, u), UNCHANGED poolSize
  PROVE  IInv'
<1> USE UsersAssumption, RequestsAssumption
    DEF IInv, InsertUser, RegStep, rowVars, updateVars, regVars
<1>1. TypeOK'
  BY DEF TypeOK
<1>2. Locals'
  BY DEF TypeOK, Locals, InTx, HasLoaded
<1>3. Inserted'
  BY DEF TypeOK, Inserted, NoPendingInsert, RegisterTx
<1>4. Unwritten'
  BY DEF TypeOK, Unwritten, InTx
<1>5. Alone'
  BY FreeMeansNobody DEF TypeOK, Alone, InTx, UpdateTx, RegisterTx
<1>6. Current'
  BY DEF TypeOK, Alone, Current, InTx, HasLoaded, Row, IsActiveAdmin
<1>7. SomeAdminRemains'
  BY DEF TypeOK, Locals, Alone, Current, SomeAdminRemains, IsActiveAdmin
<1> QED  BY <1>1, <1>2, <1>3, <1>4, <1>5, <1>6, <1>7

\* The address was free since the INSERT, so no event of this registration is there.
LEMMA CommitRegistrationKeeps ==
  ASSUME IInv, NEW g \in Registrations, CommitRegistration(g), UNCHANGED poolSize
  PROVE  IInv'
<1> USE UsersAssumption, RequestsAssumption
    DEF IInv, CommitRegistration, RegStep, rowVars, updateVars, regVars
<1>1. TypeOK'
  <2>1. email[g] \in Users
    BY DEF Inserted
  <2>2. audit' \subseteq EventType
    BY <2>1 DEF TypeOK, EventType, Roles
  <2> QED  BY <2>1, <2>2 DEF TypeOK, Roles
<1>2. Locals'
  BY DEF TypeOK, Locals, InTx, HasLoaded
<1>3. Inserted'
  BY DEF TypeOK, Inserted
<1>4. Unwritten'
  BY DEF TypeOK, Unwritten, InTx
<1>5. Alone'
  BY DEF TypeOK, Alone, InTx
<1>6. Current'
  BY DEF TypeOK, Alone, Current, InTx, HasLoaded, Row, IsActiveAdmin
<1>7. SomeAdminRemains'
  BY DEF TypeOK, Inserted, SomeAdminRemains, IsActiveAdmin
<1> QED  BY <1>1, <1>2, <1>3, <1>4, <1>5, <1>6, <1>7

\* The reply changes no account.
LEMMA RespondRegistrationKeeps ==
  ASSUME IInv, NEW g \in Registrations, RespondRegistration(g), UNCHANGED poolSize
  PROVE  IInv'
<1> USE UsersAssumption, RequestsAssumption
    DEF IInv, RespondRegistration, RegStep, rowVars, updateVars, regVars
<1>1. TypeOK'
  BY DEF TypeOK
<1>2. Locals'
  BY DEF TypeOK, Locals, InTx, HasLoaded
<1>3. Inserted'
  BY DEF TypeOK, Inserted
<1>4. Unwritten'
  BY DEF TypeOK, Unwritten, InTx
<1>5. Alone'
  BY DEF TypeOK, Alone, InTx
<1>6. Current'
  BY DEF TypeOK, Alone, Current, InTx, HasLoaded, Row, IsActiveAdmin
<1>7. SomeAdminRemains'
  BY DEF TypeOK, Locals, Alone, Current, SomeAdminRemains, IsActiveAdmin
<1> QED  BY <1>1, <1>2, <1>3, <1>4, <1>5, <1>6, <1>7

\* An INSERT that is rolled back gives the address up.
LEMMA RegistrationFailsKeeps ==
  ASSUME IInv, NEW g \in Registrations, RegistrationFails(g), UNCHANGED poolSize
  PROVE  IInv'
<1> USE UsersAssumption, RequestsAssumption
    DEF IInv, RegistrationFails, rowVars, updateVars, regVars
<1>1. TypeOK'
  BY DEF TypeOK
<1>2. Locals'
  BY DEF TypeOK, Locals, InTx, HasLoaded
<1>3. Inserted'
  BY DEF TypeOK, Inserted
<1>4. Unwritten'
  BY DEF TypeOK, Unwritten, InTx
<1>5. Alone'
  BY DEF TypeOK, Alone, InTx
<1>6. Current'
  BY DEF TypeOK, Alone, Current, InTx, HasLoaded, Row, IsActiveAdmin
<1>7. SomeAdminRemains'
  BY DEF TypeOK, Locals, Alone, Current, SomeAdminRemains, IsActiveAdmin
<1> QED  BY <1>1, <1>2, <1>3, <1>4, <1>5, <1>6, <1>7

\* With one connection the new transaction is the only one.
LEMMA AuthorizeKeeps ==
  ASSUME IInv, NEW q \in Updates, NEW a \in Users, NEW p \in Patches, Authorize(q, a, p),
         UNCHANGED poolSize
  PROVE  IInv'
<1> USE UsersAssumption, RequestsAssumption
    DEF IInv, Authorize, Goto, rowVars, updateVars, regVars
<1>1. TypeOK'
  BY DEF TypeOK
<1>2. Locals'
  BY DEF TypeOK, Locals, InTx, HasLoaded, MayPatch
<1>3. Inserted'
  BY DEF TypeOK, Inserted
<1>4. Unwritten'
  BY DEF TypeOK, Unwritten, InTx
<1>5. Alone'
  BY FreeMeansNobody DEF TypeOK, Alone, InTx, UpdateTx, RegisterTx
<1>6. Current'
  BY DEF TypeOK, Alone, Current, InTx, HasLoaded, Row, IsActiveAdmin
<1>7. SomeAdminRemains'
  BY DEF TypeOK, Locals, Alone, Current, SomeAdminRemains, IsActiveAdmin
<1> QED  BY <1>1, <1>2, <1>3, <1>4, <1>5, <1>6, <1>7

\* A refused request opens no transaction that lasts.
LEMMA RefuseKeeps ==
  ASSUME IInv, NEW q \in Updates, NEW a \in Users, NEW p \in Patches, Refuse(q, a, p),
         UNCHANGED poolSize
  PROVE  IInv'
<1> USE UsersAssumption, RequestsAssumption DEF IInv, Refuse, Goto, rowVars, updateVars, regVars
<1>1. TypeOK'
  BY DEF TypeOK
<1>2. Locals'
  BY DEF TypeOK, Locals, InTx, HasLoaded
<1>3. Inserted'
  BY DEF TypeOK, Inserted
<1>4. Unwritten'
  BY DEF TypeOK, Unwritten, InTx
<1>5. Alone'
  BY DEF TypeOK, Alone, InTx
<1>6. Current'
  BY DEF TypeOK, Alone, Current, InTx, HasLoaded, Row, IsActiveAdmin
<1>7. SomeAdminRemains'
  BY DEF TypeOK, Locals, Alone, Current, SomeAdminRemains, IsActiveAdmin
<1> QED  BY <1>1, <1>2, <1>3, <1>4, <1>5, <1>6, <1>7

\* From here on the target has a row.
LEMMA FetchTargetKeeps ==
  ASSUME IInv, NEW q \in Updates, FetchTarget(q), UNCHANGED poolSize
  PROVE  IInv'
<1> USE UsersAssumption, RequestsAssumption
    DEF IInv, FetchTarget, Goto, rowVars, updateVars, regVars
<1>1. TypeOK'
  <2>1. patch[q].target \in Users
    BY DEF TypeOK, Locals, InTx, Patches
  <2>2. [role |-> role[patch[q].target], active |-> active[patch[q].target]]
          \in [role : Roles \cup {"none"}, active : {"yes", "no"}]
    BY <2>1 DEF TypeOK
  <2> QED  BY <2>2 DEF TypeOK
<1>2. Locals'
  BY DEF TypeOK, Locals, InTx, HasLoaded
<1>3. Inserted'
  BY DEF TypeOK, Inserted
<1>4. Unwritten'
  BY DEF TypeOK, Unwritten, InTx
<1>5. Alone'
  BY DEF TypeOK, Alone, InTx
<1>6. Current'
  BY DEF TypeOK, Alone, Current, InTx, HasLoaded, Row, IsActiveAdmin
<1>7. SomeAdminRemains'
  BY DEF TypeOK, Locals, Alone, Current, SomeAdminRemains, IsActiveAdmin
<1> QED  BY <1>1, <1>2, <1>3, <1>4, <1>5, <1>6, <1>7

\* The 404 closes the transaction.
LEMMA TargetMissingKeeps ==
  ASSUME IInv, NEW q \in Updates, TargetMissing(q), UNCHANGED poolSize
  PROVE  IInv'
<1> USE UsersAssumption, RequestsAssumption
    DEF IInv, TargetMissing, Goto, Forget, rowVars, updateVars, regVars
<1>1. TypeOK'
  BY DEF TypeOK, NotLoaded
<1>2. Locals'
  BY DEF TypeOK, Locals, InTx, HasLoaded
<1>3. Inserted'
  BY DEF TypeOK, Inserted
<1>4. Unwritten'
  BY DEF TypeOK, Unwritten, InTx
<1>5. Alone'
  BY DEF TypeOK, Alone, InTx
<1>6. Current'
  BY DEF TypeOK, Alone, Current, InTx, HasLoaded, Row, IsActiveAdmin
<1>7. SomeAdminRemains'
  BY DEF TypeOK, Locals, Alone, Current, SomeAdminRemains, IsActiveAdmin
<1> QED  BY <1>1, <1>2, <1>3, <1>4, <1>5, <1>6, <1>7

\* The flush changes nothing that others see.
LEMMA StageUpdateKeeps ==
  ASSUME IInv, NEW q \in Updates, StageUpdate(q), UNCHANGED poolSize
  PROVE  IInv'
<1> USE UsersAssumption, RequestsAssumption
    DEF IInv, StageUpdate, Goto, rowVars, updateVars, regVars
<1>1. TypeOK'
  BY DEF TypeOK
<1>2. Locals'
  BY DEF TypeOK, Locals, InTx, HasLoaded
<1>3. Inserted'
  BY DEF TypeOK, Inserted
<1>4. Unwritten'
  BY DEF TypeOK, Unwritten, InTx
<1>5. Alone'
  BY DEF TypeOK, Alone, InTx
<1>6. Current'
  BY DEF TypeOK, Alone, Current, InTx, HasLoaded, Row, IsActiveAdmin
<1>7. SomeAdminRemains'
  BY DEF TypeOK, Locals, Alone, Current, SomeAdminRemains, IsActiveAdmin
<1> QED  BY <1>1, <1>2, <1>3, <1>4, <1>5, <1>6, <1>7

\* The one step that can take an administrator away: the target is not the actor.
LEMMA CommitUpdateKeeps ==
  ASSUME IInv, NEW q \in Updates, CommitUpdate(q), UNCHANGED poolSize
  PROVE  IInv'
<1> USE UsersAssumption, RequestsAssumption
    DEF IInv, CommitUpdate, WriteChanges, ChangesRole, ChangesActive, Goto, Forget, rowVars,
        updateVars, regVars
<1>a. /\ admin[q] \in Users /\ patch[q] \in Patches
      /\ patch[q].target \in Users /\ patch[q].target # admin[q]
      /\ role[patch[q].target] # "none"
  BY DEF TypeOK, Locals, InTx, HasLoaded, Patches
<1>1. TypeOK'
  <2>1. audit' \subseteq EventType
    <3>1. /\ patch[q].role \in Roles \cup {"keep"} /\ patch[q].active \in {"yes", "no", "keep"}
          /\ loaded[q].role \in Roles \cup {"none"} /\ loaded[q].active \in {"yes", "no"}
      BY <1>a, RolesAssumption DEF TypeOK, Patches
    <3>2. Events(q) \subseteq EventType
      BY <1>a, <3>1 DEF Events, Event, EventType
    <3> QED  BY <3>2 DEF TypeOK
  <2>2. role' \in [Users -> Roles \cup {"none"}] /\ active' \in [Users -> {"yes", "no"}]
    BY <1>a, RolesAssumption DEF TypeOK, Patches
  <2> QED  BY <2>1, <2>2 DEF TypeOK, NotLoaded
<1>2. Locals'
  <2>1. \A u \in Users : role[u] # "none" => role'[u] # "none"
    BY <1>a, RolesAssumption DEF TypeOK, Patches, Roles
  <2>2. \A o \in Updates \ {q} : UNCHANGED <<pc[o], admin[o], patch[o]>>
    BY DEF TypeOK
  <2>3. ~InTx(q)'
    BY DEF TypeOK, InTx
  <2> QED  BY <2>1, <2>2, <2>3 DEF Locals, InTx, HasLoaded, Patches
<1>3. Inserted'
  <2>1. \A u \in Users : role[u] = "none" => role'[u] = "none"
    BY <1>a DEF TypeOK, Patches
  <2> QED  BY <2>1 DEF TypeOK, Inserted
<1>4. Unwritten'
  <2>1. \A e \in Events(q) : e.by = q
    BY DEF Events, Event
  <2> QED  BY <2>1 DEF TypeOK, Unwritten, InTx
<1>5. Alone'
  BY DEF TypeOK, Alone, InTx
<1>6. Current'
  BY DEF TypeOK, Alone, Current, InTx, HasLoaded, Row, IsActiveAdmin
<1>7. SomeAdminRemains'
  BY <1>a DEF TypeOK, Alone, Current, SomeAdminRemains, IsActiveAdmin, InTx
<1> QED  BY <1>1, <1>2, <1>3, <1>4, <1>5, <1>6, <1>7

\* The reply changes no account.
LEMMA RespondUpdateKeeps ==
  ASSUME IInv, NEW q \in Updates, RespondUpdate(q), UNCHANGED poolSize
  PROVE  IInv'
<1> USE UsersAssumption, RequestsAssumption
    DEF IInv, RespondUpdate, Goto, rowVars, updateVars, regVars
<1>1. TypeOK'
  BY DEF TypeOK
<1>2. Locals'
  BY DEF TypeOK, Locals, InTx, HasLoaded
<1>3. Inserted'
  BY DEF TypeOK, Inserted
<1>4. Unwritten'
  BY DEF TypeOK, Unwritten, InTx
<1>5. Alone'
  BY DEF TypeOK, Alone, InTx
<1>6. Current'
  BY DEF TypeOK, Alone, Current, InTx, HasLoaded, Row, IsActiveAdmin
<1>7. SomeAdminRemains'
  BY DEF TypeOK, Locals, Alone, Current, SomeAdminRemains, IsActiveAdmin
<1> QED  BY <1>1, <1>2, <1>3, <1>4, <1>5, <1>6, <1>7

\* A failed update leaves the rows alone.
LEMMA UpdateFailsKeeps ==
  ASSUME IInv, NEW q \in Updates, UpdateFails(q), UNCHANGED poolSize
  PROVE  IInv'
<1> USE UsersAssumption, RequestsAssumption
    DEF IInv, UpdateFails, UpdateTx, Forget, rowVars, updateVars, regVars
<1>1. TypeOK'
  BY DEF TypeOK, NotLoaded
<1>2. Locals'
  BY DEF TypeOK, Locals, InTx, HasLoaded
<1>3. Inserted'
  BY DEF TypeOK, Inserted
<1>4. Unwritten'
  BY DEF TypeOK, Unwritten, InTx
<1>5. Alone'
  BY DEF TypeOK, Alone, InTx
<1>6. Current'
  BY DEF TypeOK, Alone, Current, InTx, HasLoaded, Row, IsActiveAdmin
<1>7. SomeAdminRemains'
  BY DEF TypeOK, Locals, Alone, Current, SomeAdminRemains, IsActiveAdmin
<1> QED  BY <1>1, <1>2, <1>3, <1>4, <1>5, <1>6, <1>7

-----------------------------------------------------------------------------
\* Every step of the specification is one of those actions, or stutters.
LEMMA StepKeeps == IInv /\ [Next]_vars => IInv'
<1> SUFFICES ASSUME IInv, [Next]_vars PROVE IInv'
  OBVIOUS
<1>1. CASE UNCHANGED vars
  BY <1>1 DEF vars, rowVars, updateVars, regVars, IInv, TypeOK, Locals, Inserted, Unwritten,
       Alone, Current, SomeAdminRemains, InTx, HasLoaded, Row, IsActiveAdmin
<1>2. ASSUME NEW g \in Registrations, NEW u \in Users, InsertUser(g, u), UNCHANGED poolSize
      PROVE  IInv'
  BY <1>2, InsertUserKeeps
<1>3. ASSUME NEW g \in Registrations, UNCHANGED poolSize,
             CommitRegistration(g) \/ RespondRegistration(g) \/ RegistrationFails(g)
      PROVE  IInv'
  BY <1>3, CommitRegistrationKeeps, RespondRegistrationKeeps, RegistrationFailsKeeps
<1>4. ASSUME NEW q \in Updates, NEW a \in Users, NEW p \in Patches,
             Authorize(q, a, p) \/ Refuse(q, a, p), UNCHANGED poolSize
      PROVE  IInv'
  BY <1>4, AuthorizeKeeps, RefuseKeeps
<1>5. ASSUME NEW q \in Updates, UNCHANGED poolSize,
             \/ FetchTarget(q) \/ TargetMissing(q) \/ StageUpdate(q)
             \/ CommitUpdate(q) \/ RespondUpdate(q) \/ UpdateFails(q)
      PROVE  IInv'
  BY <1>5, FetchTargetKeeps, TargetMissingKeeps, StageUpdateKeeps, CommitUpdateKeeps,
       RespondUpdateKeeps, UpdateFailsKeeps
<1> QED  BY <1>1, <1>2, <1>3, <1>4, <1>5 DEF Next

\* The invariant holds in every reachable state.
THEOREM InvariantHolds == Spec => []IInv
BY InitHolds, StepKeeps, PTL DEF Spec

\* Every reachable state is of the type that TypeOK gives.
THEOREM TypeCorrect == Spec => []TypeOK
<1>1. IInv => TypeOK
  BY DEF IInv
<1> QED  BY <1>1, InvariantHolds, PTL

\* While requests take turns, administrators who may not touch their own account
\* can never leave the system without an active administrator.
THEOREM AdminsNeverLockThemselvesOut == Spec => []SomeAdminRemains
<1>1. IInv => SomeAdminRemains
  BY DEF IInv
<1> QED  BY <1>1, InvariantHolds, PTL

-----------------------------------------------------------------------------
\* Only CommitUpdate takes an update from staged to committed.
RevokedAtOnce ==
  \A q \in Updates : poolSize = 1 /\ pc[q] = "staged" /\ pc'[q] = "committed"
                        /\ audit' # audit
                        => role[admin[q]] = "admin" /\ active[admin[q]] = "yes"

\* While requests take turns, whoever changes an account is an active
\* administrator when the change is committed.
THEOREM RevocationTakesEffect == Spec => RevocationIsImmediate
<1>1. IInv => RevokedAtOnce
  BY DEF IInv, Current, InTx, IsActiveAdmin, RevokedAtOnce
<1>2. IInv /\ [Next]_vars => [RevokedAtOnce]_vars
  BY <1>1
<1> QED  BY <1>2, InvariantHolds, PTL DEF Spec, RevocationIsImmediate, RevokedAtOnce

-----------------------------------------------------------------------------
\* What AuditTellsAccounts says of one step.
ToldOnce ==
  /\ \A u \in Users :
       /\ role'[u] # role[u] => \E e \in Appeared : e.target = u /\ e.new = role'[u]
       /\ active'[u] # active[u] => \E e \in Appeared : e.target = u /\ e.new = active'[u]
  /\ \A e \in Appeared :
       /\ e.new \in {role'[e.target], active'[e.target]}
       /\ e.action = "user.registered" <=> role[e.target] = "none"
       /\ poolSize = 1 => e.old \in {role[e.target], active[e.target]}

\* The event of a registration is new and says what the row has become.
LEMMA RegistrationTells ==
  ASSUME IInv, NEW g \in Registrations, CommitRegistration(g), UNCHANGED poolSize
  PROVE  ToldOnce
<1> DEFINE e == [action |-> "user.registered", by |-> g, actor |-> email[g],
                 target |-> email[g], old |-> "none", new |-> "user"]
<1>1. e \notin audit
  BY DEF IInv, Unwritten, CommitRegistration, RegStep
<1>2. Appeared = {e}
  BY <1>1 DEF Appeared, CommitRegistration
<1>3. /\ email[g] \in Users /\ role[email[g]] = "none"
      /\ role' = [role EXCEPT ![email[g]] = "user"] /\ active' = active
  BY DEF IInv, Inserted, CommitRegistration, RegStep
<1> QED  BY <1>2, <1>3 DEF ToldOnce, IInv, TypeOK

\* The events of an update are new; they name the columns that UPDATE sets.
LEMMA UpdateTells ==
  ASSUME IInv, NEW q \in Updates, CommitUpdate(q), UNCHANGED poolSize
  PROVE  ToldOnce
<1> DEFINE t == patch[q].target
<1>1. /\ t \in Users /\ role[t] # "none" /\ patch[q] \in Patches
      /\ poolSize = 1 => loaded[q] = Row(t)
  BY DEF IInv, Locals, Current, InTx, HasLoaded, CommitUpdate, Goto, Patches
<1>2. Appeared = Events(q)
  <2>1. \A e \in Events(q) : e.by = q
    BY DEF Events, Event
  <2> QED  BY <2>1 DEF IInv, Unwritten, Appeared, CommitUpdate, Goto, InTx
<1>3. WriteChanges(q)
  BY DEF CommitUpdate
<1>4. ASSUME NEW u \in Users
      PROVE  /\ role'[u] # role[u] => \E e \in Appeared : e.target = u /\ e.new = role'[u]
             /\ active'[u] # active[u] => \E e \in Appeared : e.target = u /\ e.new = active'[u]
  <2>1. /\ u # t => role'[u] = role[u] /\ active'[u] = active[u]
        /\ role'[u] # role[u] => ChangesRole(q) /\ role'[u] = patch[q].role
        /\ active'[u] # active[u] => ChangesActive(q) /\ active'[u] = patch[q].active
    BY <1>1, <1>3 DEF IInv, TypeOK, WriteChanges
  <2>2. ASSUME role'[u] # role[u]
        PROVE  \E e \in Appeared : e.target = u /\ e.new = role'[u]
    <3>1. Event(q, "user.role_changed", loaded[q].role, patch[q].role) \in Appeared
      BY <1>2, <2>1, <2>2 DEF Events
    <3> QED  BY <2>1, <2>2, <3>1 DEF Event
  <2>3. ASSUME active'[u] # active[u]
        PROVE  \E e \in Appeared : e.target = u /\ e.new = active'[u]
    <3>1. \E o, n : Event(q, n, o, patch[q].active) \in Appeared
      BY <1>2, <2>1, <2>3 DEF Events
    <3> QED  BY <2>1, <2>3, <3>1 DEF Event
  <2> QED  BY <2>2, <2>3
<1>5. ASSUME NEW e \in Appeared
      PROVE  /\ e.new \in {role'[e.target], active'[e.target]}
             /\ e.action = "user.registered" <=> role[e.target] = "none"
             /\ poolSize = 1 => e.old \in {role[e.target], active[e.target]}
  BY <1>1, <1>2, <1>3 DEF IInv, TypeOK, WriteChanges, Events, Event, Row
<1> QED  BY <1>4, <1>5 DEF ToldOnce

\* No other step writes an account or an event.
LEMMA OthersWriteNothing ==
  ASSUME Next, \A g \in Registrations : ~CommitRegistration(g),
         \A q \in Updates : ~CommitUpdate(q)
  PROVE  UNCHANGED rowVars
BY DEF Next, InsertUser, RespondRegistration, RegistrationFails, Authorize, Refuse, FetchTarget,
       TargetMissing, StageUpdate, RespondUpdate, UpdateFails

\* So each step tells what it does.
LEMMA StepTells == IInv /\ [Next]_vars => [ToldOnce]_vars
<1> SUFFICES ASSUME IInv, Next PROVE ToldOnce
  OBVIOUS
<1>1. UNCHANGED poolSize
  BY DEF Next
<1>2. CASE \E g \in Registrations : CommitRegistration(g)
  BY <1>1, <1>2, RegistrationTells
<1>3. CASE \E q \in Updates : CommitUpdate(q)
  BY <1>1, <1>3, UpdateTells
<1>4. CASE /\ \A g \in Registrations : ~CommitRegistration(g)
           /\ \A q \in Updates : ~CommitUpdate(q)
  BY <1>4, OthersWriteNothing DEF rowVars, ToldOnce, Appeared
<1> QED  BY <1>2, <1>3, <1>4

\* The audit trail tells all that becomes of an account and nothing else,
\* whatever the number of concurrent requests.
THEOREM TrailTellsAccounts == Spec => AuditTellsAccounts
BY InvariantHolds, StepTells, PTL DEF Spec, AuditTellsAccounts, ToldOnce
=============================================================================
