------------------------------ MODULE Session ------------------------------
(***************************************************************************)
(* A browser tab's session: the fetch wrapper of lib/api/client.ts with its *)
(* silent refresh and single retry, AuthProvider's state, the login and     *)
(* logout of the shell, and the auth endpoints of backend/app/auth that      *)
(* answer them.  Any number of API calls, the refresh of the mount, a login  *)
(* and a logout may be in flight together; each request carries the token    *)
(* or cookie of the moment it was sent.  Access tokens are numbered as they  *)
(* are issued and expire in that order; the refresh cookie is the account it *)
(* names.  Another tab shares the cookie and nothing else.                   *)
(***************************************************************************)
EXTENDS Naturals, FiniteSets

CONSTANTS Accounts, NoAccount, Calls, OtherTab, MaxVisits

ASSUME SessionAssumption ==
  /\ NoAccount \notin Accounts
  /\ IsFiniteSet(Calls)
  /\ Calls \cap {"boot", "login", "logout"} = {}
  /\ OtherTab \in BOOLEAN
  /\ MaxVisits \in Nat  \* bound on the logins and reloads together

VARIABLES
  active,    \* users.is_active
  issued,    \* access tokens issued so far
  expired,   \* the ones numbered up to this have outlived their 15 minutes
  cookie,    \* the browser's refresh cookie
  token, user, status,  \* accessToken of client.ts, AuthProvider's state
  page,      \* the route shown: the shell or an auth page
  flight,    \* each request: what it is at, what it carries, its answer
  logins, reloads

tab == <<token, user, status>>
server == <<active, issued, expired>>
vars == <<active, issued, expired, cookie, token, user, status, page, flight,
          logins, reloads>>

Requests == Calls \cup {"boot", "login", "logout"}
Token == [owner : Accounts \cup {NoAccount}, number : Nat]
NoToken == [owner |-> NoAccount, number |-> 0]

Idle == [step |-> "idle", carries |-> NoToken, answer |-> "none"]
Over == [Idle EXCEPT !.step = "over"]
Sent(step, t) == [step |-> step, carries |-> t, answer |-> "none"]
\* A refresh carries the cookie the browser holds when it is sent.
Refresh == Sent("refresh", [owner |-> cookie, number |-> 0])

Init ==
  /\ active = [u \in Accounts |-> TRUE]
  /\ issued = 0 /\ expired = 0
  /\ cookie \in Accounts \cup {NoAccount}
  /\ token = NoToken /\ user = NoAccount /\ status = "loading"
  /\ page \in {"app", "login"}
  /\ flight = [f \in Requests |-> IF f = "boot" THEN Refresh ELSE Idle]
  /\ logins = 0 /\ reloads = 0

-----------------------------------------------------------------------------
SignIn(t) == token' = t /\ user' = t.owner /\ status' = "authenticated"

SignOutKeepingToken == user' = NoAccount /\ status' = "anonymous" /\ UNCHANGED token

SignOut == token' = NoToken /\ user' = NoAccount /\ status' = "anonymous"

\* get_current_user: the token is unexpired and its account is still active.
Accepts(t) == t.owner \in Accounts /\ t.number > expired /\ active[t.owner]
\* refresh and authenticate_user both want an active account.
MayHaveToken(u) == u \in Accounts /\ active[u]

ServeCall(c) ==
  LET r == flight[c]
  IN /\ r.step \in {"first", "retry"} /\ r.answer = "none"
     /\ flight' = [flight EXCEPT ![c].answer = IF Accepts(r.carries) THEN "ok" ELSE "401"]
     /\ UNCHANGED <<server, cookie, tab, page, logins, reloads>>

\* _token_response: a new access token, and the cookie set anew by the answer.
ServeToken(f) ==
  LET r == flight[f]
      u == r.carries.owner
  IN /\ r.step \in {"refresh", "login"} /\ r.answer = "none"
     /\ IF MayHaveToken(u)
        THEN /\ issued' = issued + 1
             /\ flight' = [flight EXCEPT ![f].answer = "ok", ![f].carries.number = issued + 1]
        ELSE /\ flight' = [flight EXCEPT ![f].answer = "401"]
             /\ UNCHANGED issued
     /\ UNCHANGED <<active, expired, cookie, tab, page, logins, reloads>>

ServeLogout ==
  /\ flight["logout"].step = "logout" /\ flight["logout"].answer = "none"
  /\ flight' = [flight EXCEPT !["logout"].answer = "ok"]
  /\ UNCHANGED <<server, cookie, tab, page, logins, reloads>>

\* The request or its answer is lost, or the server fails: not a 401.
LoseAnswer(f) ==
  /\ flight[f].step \notin {"idle", "over"} /\ flight[f].answer \in {"none", "ok"}
  /\ flight' = [flight EXCEPT ![f].answer = "lost"]
  /\ UNCHANGED <<server, cookie, tab, page, logins, reloads>>

-----------------------------------------------------------------------------
\* apiFetch, from a page of the shell.
StartCall(c) ==
  /\ status = "authenticated" /\ page = "app" /\ flight[c] = Idle
  /\ flight' = [flight EXCEPT ![c] = Sent("first", token)]
  /\ UNCHANGED <<server, cookie, tab, page, logins, reloads>>

EndCall(c) ==
  /\ flight[c].step \in {"first", "retry"}
  /\ \/ flight[c].answer \in {"ok", "lost"}
     \/ flight[c].answer = "401" /\ flight[c].step = "retry"  \* retryOn401: false
  /\ flight' = [flight EXCEPT ![c] = Over]
  /\ UNCHANGED <<server, cookie, tab, page, logins, reloads>>

RefreshOnEvery401(c) ==
  /\ flight[c].step \in {"first", "retry"} /\ flight[c].answer = "401"
  /\ flight' = [flight EXCEPT ![c] = Refresh]
  /\ UNCHANGED <<server, cookie, tab, page, logins, reloads>>

RefreshOn401(c) ==
  /\ flight[c].step = "first" /\ flight[c].answer = "401"
  /\ flight' = [flight EXCEPT ![c] = Refresh]
  /\ UNCHANGED <<server, cookie, tab, page, logins, reloads>>

\* tryRefresh resolves true: the cookie, the token, onTokenRefreshed, and for a
\* call the retry with the new token.
Refreshed(f) ==
  LET t == flight[f].carries
  IN /\ flight[f].step = "refresh" /\ flight[f].answer = "ok"
     /\ cookie' = t.owner
     /\ SignIn(t)
     /\ flight' = [flight EXCEPT ![f] = IF f = "boot" THEN Over ELSE Sent("retry", t)]
     /\ UNCHANGED <<server, page, logins, reloads>>

\* tryRefresh resolves false for a call: onSessionExpired.
SessionExpired(c) ==
  /\ flight[c].step = "refresh" /\ flight[c].answer \in {"401", "lost"}
  /\ SignOut
  /\ page' = "login"
  /\ flight' = [flight EXCEPT ![c] = Over]
  /\ UNCHANGED <<server, cookie, logins, reloads>>

NotRestoredOn401 ==
  /\ flight["boot"].step = "refresh" /\ flight["boot"].answer = "401"
  /\ status' = "anonymous"
  /\ flight' = [flight EXCEPT !["boot"] = Over]
  /\ UNCHANGED <<server, cookie, token, user, page, logins, reloads>>

\* tryRefresh resolves false on mount: only the status is set.
NotRestored ==
  /\ flight["boot"].step = "refresh" /\ flight["boot"].answer \in {"401", "lost"}
  /\ status' = "anonymous"
  /\ flight' = [flight EXCEPT !["boot"] = Over]
  /\ UNCHANGED <<server, cookie, token, user, page, logins, reloads>>

-----------------------------------------------------------------------------
SubmitLogin(u) ==
  /\ page = "login" /\ flight["login"] = Idle /\ logins + reloads < MaxVisits
  /\ flight' = [flight EXCEPT !["login"] = Sent("login", [owner |-> u, number |-> 0])]
  /\ logins' = logins + 1
  /\ UNCHANGED <<server, cookie, tab, page, reloads>>

\* login resolves and the form pushes /documents.
LoggedIn ==
  LET t == flight["login"].carries
  IN /\ flight["login"].step = "login" /\ flight["login"].answer = "ok"
     /\ cookie' = t.owner
     /\ SignIn(t)
     /\ page' = "app"
     /\ flight' = [flight EXCEPT !["login"] = Idle]
     /\ UNCHANGED <<server, logins, reloads>>

LoginFailed ==
  /\ flight["login"].step = "login" /\ flight["login"].answer \in {"401", "lost"}
  /\ flight' = [flight EXCEPT !["login"] = Idle]
  /\ UNCHANGED <<server, cookie, tab, page, logins, reloads>>

ClickLogout ==
  /\ page = "app" /\ status = "authenticated" /\ flight["logout"] = Idle
  /\ flight' = [flight EXCEPT !["logout"] = Sent("logout", NoToken)]
  /\ UNCHANGED <<server, cookie, tab, page, logins, reloads>>

\* The answer deletes the cookie; the finally block runs without it too.
LoggedOut ==
  /\ flight["logout"].step = "logout" /\ flight["logout"].answer \in {"ok", "lost"}
  /\ cookie' = IF flight["logout"].answer = "ok" THEN NoAccount ELSE cookie
  /\ SignOut
  /\ page' = "login"
  /\ flight' = [flight EXCEPT !["logout"] = Idle]
  /\ UNCHANGED <<server, logins, reloads>>

\* The effect of the shell's layout.
RedirectAnonymous ==
  /\ page = "app" /\ status = "anonymous"
  /\ page' = "login"
  /\ UNCHANGED <<server, cookie, tab, flight, logins, reloads>>

\* The page is loaded anew: its memory and its pending requests are gone.
Reload ==
  /\ logins + reloads < MaxVisits
  /\ reloads' = reloads + 1
  /\ token' = NoToken /\ user' = NoAccount /\ status' = "loading"
  /\ flight' = [f \in Requests |-> IF f = "boot" THEN Refresh
                                   ELSE IF flight[f] = Idle \/ f \notin Calls THEN Idle
                                   ELSE Over]
  /\ UNCHANGED <<server, cookie, page, logins>>

-----------------------------------------------------------------------------
Expire ==
  /\ expired < issued
  /\ expired' = expired + 1
  /\ UNCHANGED <<active, issued, cookie, tab, page, flight, logins, reloads>>

Deactivate(u) ==
  /\ active[u]
  /\ active' = [active EXCEPT ![u] = FALSE]
  /\ UNCHANGED <<issued, expired, cookie, tab, page, flight, logins, reloads>>

\* Another tab logs in or out.
OtherTabSetsCookie(u) ==
  /\ OtherTab
  /\ u = NoAccount \/ MayHaveToken(u)
  /\ cookie' = u
  /\ UNCHANGED <<server, tab, page, flight, logins, reloads>>

Environment ==
  \/ Expire
  \/ \E u \in Accounts : Deactivate(u)
  \/ \E u \in Accounts \cup {NoAccount} : OtherTabSetsCookie(u)

Arrives(f) == (f \in Calls /\ ServeCall(f)) \/ ServeToken(f) \/ (f = "logout" /\ ServeLogout)

Resolves(f) ==
  \/ Refreshed(f)
  \/ f \in Calls /\ (EndCall(f) \/ RefreshOn401(f) \/ SessionExpired(f))
  \/ f = "boot" /\ NotRestored
  \/ f = "login" /\ (LoggedIn \/ LoginFailed)
  \/ f = "logout" /\ LoggedOut

Next ==
  \/ \E f \in Requests : Arrives(f) \/ LoseAnswer(f) \/ Resolves(f)
  \/ \E c \in Calls : StartCall(c)
  \/ \E u \in Accounts : SubmitLogin(u)
  \/ ClickLogout \/ RedirectAnonymous \/ Reload
  \/ Environment

Spec == Init /\ [][Next]_vars

\* A request is answered or fails (the browser times it out), its continuation
\* runs, and React runs the effect of a rendered state.
FairSpec ==
  /\ Spec
  /\ \A f \in Requests : WF_vars(Arrives(f) \/ LoseAnswer(f)) /\ WF_vars(Resolves(f))
  /\ WF_vars(RedirectAnonymous)

-----------------------------------------------------------------------------
TypeOK ==
  /\ active \in [Accounts -> BOOLEAN]
  /\ issued \in Nat /\ expired \in 0..issued
  /\ cookie \in Accounts \cup {NoAccount}
  /\ token \in Token /\ user \in Accounts \cup {NoAccount}
  /\ status \in {"loading", "authenticated", "anonymous"}
  /\ page \in {"app", "login"}
  /\ flight \in [Requests -> [step : {"idle", "first", "refresh", "retry", "login",
                                      "logout", "over"},
                              carries : Token,
                              answer : {"none", "ok", "401", "lost"}]]
  /\ logins \in Nat /\ reloads \in Nat /\ logins + reloads <= MaxVisits

\* The header names the account that the next call will act as, whatever
\* refreshes, logins and logouts overtake each other.
ShownUserOwnsToken ==
  /\ token.owner = user
  /\ status = "authenticated" => user # NoAccount

\* "A 401 triggers one silent refresh": a mount, a login and a call each obtain
\* at most one token, so a refused call cannot loop.
OneRefreshPerCall ==
  issued <= 1 + reloads + logins
              + Cardinality({c \in Calls : flight[c] # Idle})

\* The mount's silent refresh always ends the skeleton, and the shell "redirects
\* anonymous visitors to /login": nobody is left before a page that is neither
\* theirs nor the form, whatever answers are lost.
VisitsSettle ==
  /\ status = "loading" ~> status # "loading"
  /\ page = "app" /\ status = "anonymous" ~> page = "login" \/ status # "anonymous"
=============================================================================
