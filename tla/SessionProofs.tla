---------------------------- MODULE SessionProofs ----------------------------
(***************************************************************************)
(* Theorems about Session, for any accounts, any finite set of calls and any *)
(* bound on the visits.  Answers arrive and are taken in any order; the      *)
(* invariant says what a request in flight may be at, whose token an answer  *)
(* brings, and which requests can still obtain one.                          *)
(***************************************************************************)
EXTENDS Session, FiniteSetTheorems, TLAPS

Steps == {"idle", "first", "refresh", "retry", "login", "logout", "over"}
Flight == [step : Steps, carries : Token, answer : {"none", "ok", "401", "lost"}]

\* A request only goes through the steps of its kind.
Kinds ==
  /\ flight["boot"].step \in {"refresh", "over"}
  /\ flight["login"].step \in {"idle", "login"}
  /\ flight["logout"].step \in {"idle", "logout"}
  /\ \A c \in Calls : flight[c].step \in {"idle", "first", "refresh", "retry", "over"}

\* A token that was granted is an account's.
GrantsAreOwned ==
  \A f \in Requests :
    flight[f].step \in {"refresh", "login"} /\ flight[f].answer = "ok"
      => flight[f].carries.owner \in Accounts

\* The mount's refresh and the login that may still be granted a token, and the
\* calls that have had the one refresh they are allowed.
Asking(f) == flight[f].step \in {"refresh", "login"} /\ flight[f].answer = "none"
One(f) == IF Asking(f) THEN 1 ELSE 0
Spent == {c \in Calls : \/ flight[c].step \in {"retry", "over"}
                        \/ flight[c].step = "refresh" /\ flight[c].answer # "none"}

Budget ==
  issued + One("boot") + One("login") <= 1 + reloads + logins + Cardinality(Spent)

IInv == TypeOK /\ Kinds /\ GrantsAreOwned /\ ShownUserOwnsToken /\ Budget

-----------------------------------------------------------------------------
\* The names of the requests differ.
LEMMA Names ==
  /\ "boot" \in Requests /\ "login" \in Requests /\ "logout" \in Requests
  /\ \A c \in Calls : c \in Requests /\ c # "boot" /\ c # "login" /\ c # "logout"
BY SessionAssumption DEF Requests

\* The calls are finitely many, so those that have had their refresh are counted.
LEMMA SpentIsFinite ==
  IsFiniteSet(Spent) /\ Cardinality(Spent) \in Nat
<1>1. IsFiniteSet(Spent)
  BY SessionAssumption, FS_Subset DEF Spent
<1> QED  BY <1>1, FS_CardinalityType

LEMMA SpentIsFiniteNext ==
  IsFiniteSet(Spent') /\ Cardinality(Spent') \in Nat
<1>1. IsFiniteSet(Spent')
  BY SessionAssumption, FS_Subset DEF Spent
<1> QED  BY <1>1, FS_CardinalityType

\* A step that issues no token, asks for none beyond those it pays for with a
\* login or a reload, and gives no call its refresh back, keeps the budget.
LEMMA BudgetKept ==
  ASSUME TypeOK, TypeOK', Budget,
         issued' = issued, Spent \subseteq Spent',
         One("boot")' + One("login")' + reloads + logins
            <= One("boot") + One("login") + reloads' + logins'
  PROVE  Budget'
<1>1. Cardinality(Spent) <= Cardinality(Spent')
  BY SpentIsFiniteNext, FS_Subset
<1>2. /\ One("boot") \in Nat /\ One("login") \in Nat
      /\ One("boot")' \in Nat /\ One("login")' \in Nat
  BY DEF One
<1>3. /\ issued \in Nat /\ reloads \in Nat /\ logins \in Nat
      /\ reloads' \in Nat /\ logins' \in Nat
  BY DEF TypeOK
<1> QED  BY <1>1, <1>2, <1>3, SpentIsFinite, SpentIsFiniteNext DEF Budget

LEMMA InitHolds == Init => IInv
<1> SUFFICES ASSUME Init PROVE IInv
  OBVIOUS
<1> USE SessionAssumption, Names DEF Init
<1>1. TypeOK
  BY DEF TypeOK, Refresh, Sent, Idle, NoToken, Token
<1>2. Kinds /\ GrantsAreOwned /\ ShownUserOwnsToken
  BY DEF Kinds, GrantsAreOwned, ShownUserOwnsToken, Refresh, Sent, Idle, NoToken
<1>3. One("boot") = 1 /\ One("login") = 0
  BY DEF One, Asking, Refresh, Sent, Idle
<1>4. Budget
  BY <1>3, SpentIsFinite DEF Budget
<1> QED  BY <1>1, <1>2, <1>4 DEF IInv

-----------------------------------------------------------------------------
(* One lemma per action. *)

\* An answer to a call grants nothing.
LEMMA ServeCallKeeps ==
  ASSUME IInv, NEW c \in Calls, ServeCall(c)
  PROVE  IInv'
<1> USE SessionAssumption, Names DEF IInv, ServeCall, server, tab
<1>1. TypeOK'
  BY DEF TypeOK
<1>2. Kinds' /\ GrantsAreOwned' /\ ShownUserOwnsToken'
  BY DEF TypeOK, Kinds, GrantsAreOwned, ShownUserOwnsToken
<1>3. One("boot")' = One("boot") /\ One("login")' = One("login")
  BY DEF TypeOK, One, Asking
<1>4. Spent \subseteq Spent'
  BY DEF TypeOK, Spent
<1>5. Budget'
  BY <1>1, <1>3, <1>4, BudgetKept DEF TypeOK, One
<1> QED  BY <1>1, <1>2, <1>5

\* The answer to a logout grants nothing.
LEMMA ServeLogoutKeeps ==
  ASSUME IInv, ServeLogout
  PROVE  IInv'
<1> USE SessionAssumption, Names DEF IInv, ServeLogout, server, tab
<1>1. TypeOK'
  BY DEF TypeOK
<1>2. Kinds' /\ GrantsAreOwned' /\ ShownUserOwnsToken'
  BY DEF TypeOK, Kinds, GrantsAreOwned, ShownUserOwnsToken
<1>3. One("boot")' = One("boot") /\ One("login")' = One("login")
  BY DEF TypeOK, Kinds, One, Asking
<1>4. Spent \subseteq Spent'
  BY DEF TypeOK, Kinds, Spent
<1>5. Budget'
  BY <1>1, <1>3, <1>4, BudgetKept DEF TypeOK, One
<1> QED  BY <1>1, <1>2, <1>5

\* A lost answer grants nothing, and is not asked for again.
LEMMA LoseAnswerKeeps ==
  ASSUME IInv, NEW f \in Requests, LoseAnswer(f)
  PROVE  IInv'
<1> USE SessionAssumption, Names DEF IInv, LoseAnswer, server, tab
<1>1. TypeOK'
  BY DEF TypeOK
<1>2. Kinds' /\ GrantsAreOwned' /\ ShownUserOwnsToken'
  BY DEF TypeOK, Kinds, GrantsAreOwned, ShownUserOwnsToken
<1>3. One("boot")' <= One("boot") /\ One("login")' <= One("login")
  BY DEF TypeOK, Kinds, One, Asking
<1>4. Spent \subseteq Spent'
  BY DEF TypeOK, Kinds, Spent
<1>5. Budget'
  BY <1>1, <1>3, <1>4, BudgetKept DEF TypeOK, One
<1> QED  BY <1>1, <1>2, <1>5

\* A call starts with its refresh unspent.
LEMMA StartCallKeeps ==
  ASSUME IInv, NEW c \in Calls, StartCall(c)
  PROVE  IInv'
<1> USE SessionAssumption, Names DEF IInv, StartCall, server, tab
<1>1. TypeOK'
  BY DEF TypeOK, Sent
<1>2. Kinds' /\ GrantsAreOwned' /\ ShownUserOwnsToken'
  BY DEF TypeOK, Kinds, GrantsAreOwned, ShownUserOwnsToken, Sent
<1>3. One("boot")' = One("boot") /\ One("login")' = One("login")
  BY DEF TypeOK, Kinds, One, Asking, Sent, Idle
<1>4. Spent \subseteq Spent'
  BY DEF TypeOK, Kinds, Spent, Sent, Idle
<1>5. Budget'
  BY <1>1, <1>3, <1>4, BudgetKept DEF TypeOK, One
<1> QED  BY <1>1, <1>2, <1>5

\* A call that is over asks for nothing more.
LEMMA EndCallKeeps ==
  ASSUME IInv, NEW c \in Calls, EndCall(c)
  PROVE  IInv'
<1> USE SessionAssumption, Names DEF IInv, EndCall, server, tab
<1>1. TypeOK'
  BY DEF TypeOK, Over, Idle, NoToken, Token
<1>2. Kinds' /\ GrantsAreOwned' /\ ShownUserOwnsToken'
  BY DEF TypeOK, Kinds, GrantsAreOwned, ShownUserOwnsToken, Over, Idle
<1>3. One("boot")' = One("boot") /\ One("login")' = One("login")
  BY DEF TypeOK, Kinds, One, Asking, Over, Idle
<1>4. Spent \subseteq Spent'
  BY DEF TypeOK, Kinds, Spent, Over, Idle
<1>5. Budget'
  BY <1>1, <1>3, <1>4, BudgetKept DEF TypeOK, One
<1> QED  BY <1>1, <1>2, <1>5

\* Only a call at its first attempt sends a refresh, which is not yet answered.
LEMMA RefreshOn401Keeps ==
  ASSUME IInv, NEW c \in Calls, RefreshOn401(c)
  PROVE  IInv'
<1> USE SessionAssumption, Names DEF IInv, RefreshOn401, server, tab
<1>1. TypeOK'
  BY DEF TypeOK, Refresh, Sent, Token
<1>2. Kinds' /\ GrantsAreOwned' /\ ShownUserOwnsToken'
  BY DEF TypeOK, Kinds, GrantsAreOwned, ShownUserOwnsToken, Refresh, Sent
<1>3. One("boot")' = One("boot") /\ One("login")' = One("login")
  BY DEF TypeOK, Kinds, One, Asking, Refresh, Sent
<1>4. Spent \subseteq Spent'
  BY DEF TypeOK, Kinds, Spent, Refresh, Sent
<1>5. Budget'
  BY <1>1, <1>3, <1>4, BudgetKept DEF TypeOK, One
<1> QED  BY <1>1, <1>2, <1>5

\* The token that is taken up is an account's; a call has spent its refresh on it.
LEMMA RefreshedKeeps ==
  ASSUME IInv, NEW f \in Requests, Refreshed(f)
  PROVE  IInv'
<1> USE SessionAssumption, Names DEF IInv, Refreshed, server, tab
<1>1. TypeOK'
  BY DEF TypeOK, SignIn, Over, Idle, Sent, NoToken, Token
<1>2. Kinds' /\ GrantsAreOwned' /\ ShownUserOwnsToken'
  BY DEF TypeOK, Kinds, GrantsAreOwned, ShownUserOwnsToken, SignIn, Over, Idle, Sent
<1>3. One("boot")' = One("boot") /\ One("login")' = One("login")
  BY DEF TypeOK, Kinds, One, Asking, Over, Idle, Sent
<1>4. Spent \subseteq Spent'
  BY DEF TypeOK, Kinds, Spent, Over, Idle, Sent
<1>5. Budget'
  BY <1>1, <1>3, <1>4, BudgetKept DEF TypeOK, One
<1> QED  BY <1>1, <1>2, <1>5

\* A refresh that failed ends its call and the session.
LEMMA SessionExpiredKeeps ==
  ASSUME IInv, NEW c \in Calls, SessionExpired(c)
  PROVE  IInv'
<1> USE SessionAssumption, Names DEF IInv, SessionExpired, server, tab
<1>1. TypeOK'
  BY DEF TypeOK, SignOut, Over, Idle, NoToken, Token
<1>2. Kinds' /\ GrantsAreOwned' /\ ShownUserOwnsToken'
  BY DEF TypeOK, Kinds, GrantsAreOwned, ShownUserOwnsToken, SignOut, Over, Idle, NoToken
<1>3. One("boot")' = One("boot") /\ One("login")' = One("login")
  BY DEF TypeOK, Kinds, One, Asking, Over, Idle
<1>4. Spent \subseteq Spent'
  BY DEF TypeOK, Kinds, Spent, Over, Idle
<1>5. Budget'
  BY <1>1, <1>3, <1>4, BudgetKept DEF TypeOK, One
<1> QED  BY <1>1, <1>2, <1>5

\* A mount whose refresh failed asks no more.
LEMMA NotRestoredKeeps ==
  ASSUME IInv, NotRestored
  PROVE  IInv'
<1> USE SessionAssumption, Names DEF IInv, NotRestored, server, tab
<1>1. TypeOK'
  BY DEF TypeOK, Over, Idle, NoToken, Token
<1>2. Kinds' /\ GrantsAreOwned' /\ ShownUserOwnsToken'
  BY DEF TypeOK, Kinds, GrantsAreOwned, ShownUserOwnsToken, Over, Idle
<1>3. One("boot")' <= One("boot") /\ One("login")' <= One("login")
  BY DEF TypeOK, Kinds, One, Asking, Over, Idle
<1>4. Spent \subseteq Spent'
  BY DEF TypeOK, Kinds, Spent, Over, Idle
<1>5. Budget'
  BY <1>1, <1>3, <1>4, BudgetKept DEF TypeOK, One
<1> QED  BY <1>1, <1>2, <1>5

\* A login asks for one token, and is counted.
LEMMA SubmitLoginKeeps ==
  ASSUME IInv, NEW u \in Accounts, SubmitLogin(u)
  PROVE  IInv'
<1> USE SessionAssumption, Names DEF IInv, SubmitLogin, server, tab
<1>1. TypeOK'
  BY DEF TypeOK, Sent, Token
<1>2. Kinds' /\ GrantsAreOwned' /\ ShownUserOwnsToken'
  BY DEF TypeOK, Kinds, GrantsAreOwned, ShownUserOwnsToken, Sent
<1>3. One("boot")' = One("boot") /\ One("login")' <= 1 + One("login")
  BY DEF TypeOK, Kinds, One, Asking, Sent, Idle
<1>4. Spent \subseteq Spent'
  BY DEF TypeOK, Kinds, Spent, Sent, Idle
<1>5. Budget'
  BY <1>1, <1>3, <1>4, BudgetKept DEF TypeOK, One
<1> QED  BY <1>1, <1>2, <1>5

\* The token of a login is its account's.
LEMMA LoggedInKeeps ==
  ASSUME IInv, LoggedIn
  PROVE  IInv'
<1> USE SessionAssumption, Names DEF IInv, LoggedIn, server, tab
<1>1. TypeOK'
  BY DEF TypeOK, SignIn, Idle, NoToken, Token
<1>2. Kinds' /\ GrantsAreOwned' /\ ShownUserOwnsToken'
  BY DEF TypeOK, Kinds, GrantsAreOwned, ShownUserOwnsToken, SignIn, Idle
<1>3. One("boot")' = One("boot") /\ One("login")' = One("login")
  BY DEF TypeOK, Kinds, One, Asking, Idle
<1>4. Spent \subseteq Spent'
  BY DEF TypeOK, Kinds, Spent, Idle
<1>5. Budget'
  BY <1>1, <1>3, <1>4, BudgetKept DEF TypeOK, One
<1> QED  BY <1>1, <1>2, <1>5

\* A login that failed leaves the tab as it was.
LEMMA LoginFailedKeeps ==
  ASSUME IInv, LoginFailed
  PROVE  IInv'
<1> USE SessionAssumption, Names DEF IInv, LoginFailed, server, tab
<1>1. TypeOK'
  BY DEF TypeOK, Idle, NoToken, Token
<1>2. Kinds' /\ GrantsAreOwned' /\ ShownUserOwnsToken'
  BY DEF TypeOK, Kinds, GrantsAreOwned, ShownUserOwnsToken, Idle
<1>3. One("boot")' = One("boot") /\ One("login")' = One("login")
  BY DEF TypeOK, Kinds, One, Asking, Idle
<1>4. Spent \subseteq Spent'
  BY DEF TypeOK, Kinds, Spent, Idle
<1>5. Budget'
  BY <1>1, <1>3, <1>4, BudgetKept DEF TypeOK, One
<1> QED  BY <1>1, <1>2, <1>5

\* A logout asks for no token.
LEMMA ClickLogoutKeeps ==
  ASSUME IInv, ClickLogout
  PROVE  IInv'
<1> USE SessionAssumption, Names DEF IInv, ClickLogout, server, tab
<1>1. TypeOK'
  BY DEF TypeOK, Sent, NoToken, Token
<1>2. Kinds' /\ GrantsAreOwned' /\ ShownUserOwnsToken'
  BY DEF TypeOK, Kinds, GrantsAreOwned, ShownUserOwnsToken, Sent
<1>3. One("boot")' = One("boot") /\ One("login")' = One("login")
  BY DEF TypeOK, Kinds, One, Asking, Sent
<1>4. Spent \subseteq Spent'
  BY DEF TypeOK, Kinds, Spent, Sent
<1>5. Budget'
  BY <1>1, <1>3, <1>4, BudgetKept DEF TypeOK, One
<1> QED  BY <1>1, <1>2, <1>5

\* A logout takes token and user away together.
LEMMA LoggedOutKeeps ==
  ASSUME IInv, LoggedOut
  PROVE  IInv'
<1> USE SessionAssumption, Names DEF IInv, LoggedOut, server, tab
<1>1. TypeOK'
  BY DEF TypeOK, SignOut, Idle, NoToken, Token
<1>2. Kinds' /\ GrantsAreOwned' /\ ShownUserOwnsToken'
  BY DEF TypeOK, Kinds, GrantsAreOwned, ShownUserOwnsToken, SignOut, Idle, NoToken
<1>3. One("boot")' = One("boot") /\ One("login")' = One("login")
  BY DEF TypeOK, Kinds, One, Asking, Idle
<1>4. Spent \subseteq Spent'
  BY DEF TypeOK, Kinds, Spent, Idle
<1>5. Budget'
  BY <1>1, <1>3, <1>4, BudgetKept DEF TypeOK, One
<1> QED  BY <1>1, <1>2, <1>5

\* What the layout, the clock, an administrator and another tab change is neither
\* the tab's token nor a request in flight.
LEMMA OutsideKeeps ==
  ASSUME IInv, RedirectAnonymous \/ Environment
  PROVE  IInv'
<1> USE DEF IInv, server, tab
<1>1. TypeOK'
  <2>1. CASE RedirectAnonymous
    BY <2>1 DEF TypeOK, RedirectAnonymous
  <2>2. CASE Expire
    BY <2>2 DEF TypeOK, Expire
  <2>3. ASSUME NEW u \in Accounts, Deactivate(u) PROVE TypeOK'
    BY <2>3 DEF TypeOK, Deactivate
  <2>4. ASSUME NEW u \in Accounts \cup {NoAccount}, OtherTabSetsCookie(u) PROVE TypeOK'
    BY <2>4 DEF TypeOK, OtherTabSetsCookie
  <2> QED  BY <2>1, <2>2, <2>3, <2>4 DEF Environment
<1>2. UNCHANGED <<flight, token, user, status, issued, logins, reloads>>
  BY DEF RedirectAnonymous, Environment, Expire, Deactivate, OtherTabSetsCookie
<1>3. Kinds' /\ GrantsAreOwned' /\ ShownUserOwnsToken'
  BY <1>2 DEF Kinds, GrantsAreOwned, ShownUserOwnsToken
<1>4. Spent' = Spent /\ One("boot")' = One("boot") /\ One("login")' = One("login")
  BY <1>2 DEF Spent, One, Asking
<1>5. Budget'
  BY <1>2, <1>4 DEF Budget
<1> QED  BY <1>1, <1>3, <1>5

\* A reload cancels what is in flight and is paid for by its own refresh.
LEMMA ReloadKeeps ==
  ASSUME IInv, Reload
  PROVE  IInv'
<1> USE SessionAssumption, Names DEF IInv, Reload, server
<1>1. TypeOK'
  BY DEF TypeOK, Refresh, Sent, Over, Idle, NoToken, Token
<1>2. Kinds' /\ GrantsAreOwned' /\ ShownUserOwnsToken'
  BY DEF TypeOK, Kinds, GrantsAreOwned, ShownUserOwnsToken, Refresh, Sent, Over, Idle, NoToken
<1>3. One("boot")' <= 1 /\ One("login")' = 0
  BY DEF TypeOK, One, Asking, Idle
<1>4. Spent \subseteq Spent'
  BY DEF TypeOK, Kinds, Spent, Over, Idle
<1>5. Budget'
  BY <1>1, <1>3, <1>4, BudgetKept DEF TypeOK, One
<1> QED  BY <1>1, <1>2, <1>5

\* A token is granted to a request that may still have one, which then may not;
\* a refused refresh is spent.
LEMMA ServeTokenKeeps ==
  ASSUME IInv, NEW f \in Requests, ServeToken(f)
  PROVE  IInv'
<1> USE SessionAssumption, Names DEF IInv, ServeToken, server, tab
<1> DEFINE u == flight[f].carries.owner
           granted == [step |-> flight[f].step, answer |-> "ok",
                       carries |-> [owner |-> u, number |-> issued + 1]]
<1>1. ASSUME MayHaveToken(u) PROVE TypeOK' /\ GrantsAreOwned'
  <2>1. u \in Accounts
    BY <1>1 DEF MayHaveToken
  <2>2. flight' = [flight EXCEPT ![f] = granted]
    BY <1>1 DEF TypeOK, Token
  <2>3. granted \in Flight /\ granted.carries.owner \in Accounts
    BY <2>1 DEF TypeOK, Token, Flight, Steps
  <2>4. TypeOK'
    BY <1>1, <2>2, <2>3 DEF TypeOK, Flight, Steps
  <2>5. GrantsAreOwned'
    BY <2>2, <2>3 DEF TypeOK, GrantsAreOwned
  <2> QED  BY <2>4, <2>5
<1>2. ASSUME ~MayHaveToken(u) PROVE TypeOK' /\ GrantsAreOwned'
  BY <1>2 DEF TypeOK, GrantsAreOwned
<1>3. \A g \in Requests : flight'[g].step = flight[g].step
  BY DEF TypeOK
<1>4. TypeOK' /\ GrantsAreOwned' /\ Kinds' /\ ShownUserOwnsToken'
  BY <1>1, <1>2, <1>3 DEF Kinds, ShownUserOwnsToken
<1>5. Spent \subseteq Spent'
  BY DEF TypeOK, Kinds, Spent
<1>6. Cardinality(Spent) <= Cardinality(Spent')
  BY <1>5, SpentIsFiniteNext, FS_Subset
<1>7. /\ issued \in Nat /\ logins \in Nat /\ reloads \in Nat
      /\ issued' \in Nat /\ issued' <= issued + 1
      /\ logins' = logins /\ reloads' = reloads
  BY DEF TypeOK
<1>8. CASE f \in Calls
  <2>1. One("boot")' = One("boot") /\ One("login")' = One("login")
    BY <1>8 DEF TypeOK, One, Asking
  <2>2. f \notin Spent /\ f \in Spent'
    BY <1>8 DEF TypeOK, Kinds, Spent
  <2>3. Cardinality(Spent \cup {f}) = Cardinality(Spent) + 1
    BY <2>2, SpentIsFinite, FS_AddElement
  <2>4. Cardinality(Spent \cup {f}) <= Cardinality(Spent')
    BY <1>5, <2>2, SpentIsFiniteNext, FS_Subset
  <2>5. Budget'
    BY <1>7, <2>1, <2>3, <2>4, SpentIsFinite, SpentIsFiniteNext DEF Budget, One
  <2> QED  BY <1>4, <2>5
<1>9. CASE f = "boot"
  <2>1. One("boot") = 1 /\ One("boot")' = 0 /\ One("login")' = One("login")
    BY <1>9 DEF TypeOK, One, Asking
  <2>2. Budget'
    BY <1>6, <1>7, <2>1, SpentIsFinite, SpentIsFiniteNext DEF Budget, One
  <2> QED  BY <1>4, <2>2
<1>10. CASE f = "login"
  <2>1. One("login") = 1 /\ One("login")' = 0 /\ One("boot")' = One("boot")
    BY <1>10 DEF TypeOK, One, Asking
  <2>2. Budget'
    BY <1>6, <1>7, <2>1, SpentIsFinite, SpentIsFiniteNext DEF Budget, One
  <2> QED  BY <1>4, <2>2
<1>11. f # "logout"
  BY DEF Kinds
<1> QED  BY <1>8, <1>9, <1>10, <1>11 DEF Requests

-----------------------------------------------------------------------------
LEMMA NextHolds == IInv /\ [Next]_vars => IInv'
<1> SUFFICES ASSUME IInv, [Next]_vars PROVE IInv'
  OBVIOUS
<1>1. ASSUME NEW f \in Requests, Arrives(f) PROVE IInv'
  BY <1>1, ServeCallKeeps, ServeTokenKeeps, ServeLogoutKeeps DEF Arrives
<1>2. ASSUME NEW f \in Requests, LoseAnswer(f) PROVE IInv'
  BY <1>2, LoseAnswerKeeps
<1>3. ASSUME NEW f \in Requests, Resolves(f) PROVE IInv'
  BY <1>3, RefreshedKeeps, EndCallKeeps, RefreshOn401Keeps, SessionExpiredKeeps,
     NotRestoredKeeps, LoggedInKeeps, LoginFailedKeeps, LoggedOutKeeps DEF Resolves
<1>4. ASSUME NEW c \in Calls, StartCall(c) PROVE IInv'
  BY <1>4, StartCallKeeps
<1>5. ASSUME NEW u \in Accounts, SubmitLogin(u) PROVE IInv'
  BY <1>5, SubmitLoginKeeps
<1>6. ASSUME ClickLogout \/ RedirectAnonymous \/ Reload \/ Environment PROVE IInv'
  BY <1>6, ClickLogoutKeeps, OutsideKeeps, ReloadKeeps
<1>7. CASE UNCHANGED vars
  <2>1. Spent' = Spent
    BY <1>7 DEF vars, Spent
  <2> QED  BY <1>7, <2>1 DEF vars, IInv, TypeOK, Kinds, GrantsAreOwned, ShownUserOwnsToken,
                             Budget, One, Asking
<1> QED  BY <1>1, <1>2, <1>3, <1>4, <1>5, <1>6, <1>7 DEF Next

\* The spent calls are among those that have started.
LEMMA BudgetSuffices == IInv => OneRefreshPerCall
<1> SUFFICES ASSUME IInv PROVE OneRefreshPerCall
  OBVIOUS
<1> DEFINE Started == {c \in Calls : flight[c] # Idle}
<1>1. IsFiniteSet(Started)
  BY SessionAssumption, FS_Subset
<1>2. Spent \subseteq Started
  BY DEF Spent, Idle
<1>3. Cardinality(Spent) <= Cardinality(Started) /\ Cardinality(Started) \in Nat
  BY <1>1, <1>2, FS_Subset, FS_CardinalityType
<1>4. /\ One("boot") \in Nat /\ One("login") \in Nat
      /\ issued \in Nat /\ reloads \in Nat /\ logins \in Nat
  BY DEF One, IInv, TypeOK
<1> QED  BY <1>3, <1>4, SpentIsFinite DEF IInv, Budget, OneRefreshPerCall

\* The invariant of every behaviour.
THEOREM Invariance == Spec => []IInv
BY InitHolds, NextHolds, PTL DEF Spec

\* Whatever refreshes, logins, logouts and reloads overtake each other, the
\* account in the header is the one that the tab's token acts as.
THEOREM HeaderTellsTruth == Spec => []ShownUserOwnsToken
<1>1. IInv => ShownUserOwnsToken
  BY DEF IInv
<1> QED  BY <1>1, Invariance, PTL

\* A mount, a login and a call are each granted at most one token: a refused
\* call is retried once and cannot loop.
THEOREM NoRefreshLoop == Spec => []OneRefreshPerCall
BY BudgetSuffices, Invariance, PTL
=============================================================================
