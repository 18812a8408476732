---------------------------- MODULE AuthSessions ----------------------------
(***************************************************************************)
(* Sessions in SABBI: the login, refresh and logout routes of the API      *)
(* (auth_routes.py, tokens.py, auth/repository.py) and the pages of the    *)
(* browsers that use them (fetchWithAuth.ts, AuthProvider.tsx).  The pages *)
(* of one browser share its two cookies; each page has a refreshPromise of *)
(* its own.  Every SQL statement is a step, and so is every answer.        *)
(*                                                                         *)
(* A token is its claims: whose it is and the second it was issued.        *)
(***************************************************************************)
EXTENDS Integers

CONSTANTS
  User, Browser, Page, Task,  \* a task is one call of fetchWithAuth
  Home,         \* page -> browser
  PageOf,       \* task -> page
  NoToken,      \* no cookie
  AccessTTL, RefreshTTL,      \* in seconds
  MaxTime,      \* bound on the clock
  MaxEntries,   \* bound on logins and logouts
  MaxFaults     \* bound on answers that get lost

Token == [user : User, at : 0..MaxTime]

ASSUME AuthAssumption ==
  /\ Home \in [Page -> Browser]
  /\ PageOf \in [Task -> Page]
  /\ NoToken \notin Token
  /\ AccessTTL \in Nat /\ RefreshTTL \in Nat /\ MaxTime \in Nat
  /\ MaxEntries \in Nat /\ MaxFaults \in Nat

VARIABLES
  clock,     \* seconds, as iat and exp count them
  stored,    \* refresh_tokens: the tokens whose hash has a row
  access,    \* sabbi_access of each browser
  refresh,   \* sabbi_refresh of each browser
  open,      \* pages that are loaded
  task,      \* where each call of fetchWithAuth is
  cookie,    \* the sabbi_access its request carries
  promise,   \* where the POST /auth/refresh of a page is
  sent,      \* the sabbi_refresh it carries
  issued,    \* the token its answer sets
  session,   \* where the login or logout of a page is
  mine,      \* the token it carries or sets
  broken,    \* browsers whose cookie an answer, failed or lost, left behind
             \* after the row was deleted: history
  minted,    \* every token ever issued: history
  twice,     \* has one been issued again after it was deleted?
  entries, faults   \* spent so far

cookies == <<access, refresh>>
calls   == <<task, cookie>>
rotation == <<promise, sent, issued>>
entry   == <<session, mine>>
past    == <<minted, twice>>
spent   == <<entries, faults>>
vars == <<clock, stored, cookies, open, calls, rotation, entry, broken, past, spent>>

-----------------------------------------------------------------------------
\* jwt.decode accepts an access token, or a refresh token that has a row.
Valid(t, ttl) == t # NoToken /\ clock < t.at + ttl
Alive(t)      == Valid(t, RefreshTTL) /\ t \in stored

\* create_refresh_token: no jti, so one token per user and second.
NewToken(u) == [user |-> u, at |-> clock]

\* INSERT INTO refresh_tokens.
Store(t) ==
  /\ stored' = stored \cup {t}
  /\ minted' = minted \cup {t}
  /\ twice'  = (twice \/ t \in minted)

SetCookies(b, t) ==
  /\ access'  = [access EXCEPT ![b] = t]
  /\ refresh' = [refresh EXCEPT ![b] = t]

Init ==
  /\ clock = 0 /\ stored = {}
  /\ access  = [b \in Browser |-> NoToken]
  /\ refresh = [b \in Browser |-> NoToken]
  /\ open = Page
  /\ task   = [k \in Task |-> "idle"]
  /\ cookie = [k \in Task |-> NoToken]
  /\ promise = [p \in Page |-> "none"]
  /\ sent    = [p \in Page |-> NoToken]
  /\ issued  = [p \in Page |-> NoToken]
  /\ session = [p \in Page |-> "none"]
  /\ mine    = [p \in Page |-> NoToken]
  /\ broken = {} /\ minted = {} /\ twice = FALSE
  /\ entries = 0 /\ faults = 0

Tick ==
  /\ clock < MaxTime
  /\ clock' = clock + 1
  /\ UNCHANGED <<stored, cookies, open, calls, rotation, entry, broken, past, spent>>

-----------------------------------------------------------------------------
(* Login and logout *)

\* The login form posts; the route checks the password and stores a token.
Login(p, u) ==
  /\ p \in open
  /\ session[p] = "none"
  /\ entries < MaxEntries
  /\ entries' = entries + 1
  /\ NewToken(u) \notin stored
  /\ Store(NewToken(u))
  /\ session' = [session EXCEPT ![p] = "welcome"]
  /\ mine'    = [mine EXCEPT ![p] = NewToken(u)]
  /\ UNCHANGED <<clock, cookies, open, calls, rotation, broken, faults>>

Welcome(p) ==
  /\ session[p] = "welcome"
  /\ SetCookies(Home[p], mine[p])
  /\ session' = [session EXCEPT ![p] = "none"]
  /\ mine'    = [mine EXCEPT ![p] = NoToken]
  /\ broken'  = broken \ {Home[p]}
  /\ UNCHANGED <<clock, stored, open, calls, rotation, past, spent>>

\* The logout button posts, with the cookie the browser has by then.
Logout(p) ==
  /\ p \in open
  /\ session[p] = "none"
  /\ entries < MaxEntries
  /\ entries' = entries + 1
  /\ session' = [session EXCEPT ![p] = "logout"]
  /\ mine'    = [mine EXCEPT ![p] = refresh[Home[p]]]
  /\ UNCHANGED <<clock, stored, cookies, open, calls, rotation, broken, past, faults>>

Revoke(p) ==
  /\ session[p] = "logout"
  /\ stored'  = stored \ {mine[p]}
  /\ session' = [session EXCEPT ![p] = "farewell"]
  /\ UNCHANGED <<clock, cookies, open, calls, rotation, mine, broken, past, spent>>

\* The page goes to /login, a new page: AuthProvider.logout looks at no status.
Leave(p) ==
  /\ session' = [session EXCEPT ![p] = "none"]
  /\ mine'    = [mine EXCEPT ![p] = NoToken]
  /\ open'    = open \ {p}
  /\ task'    = [k \in Task |-> IF PageOf[k] = p THEN "idle" ELSE task[k]]
  /\ cookie'  = [k \in Task |-> IF PageOf[k] = p THEN NoToken ELSE cookie[k]]

\* The answer clears the cookies.
Farewell(p) ==
  /\ session[p] = "farewell"
  /\ SetCookies(Home[p], NoToken)
  /\ Leave(p)
  /\ broken'  = broken \ {Home[p]}
  /\ UNCHANGED <<clock, stored, rotation, past, spent>>

\* The proxy loses the API: 502, before the row is deleted or after it.  The
\* page leaves all the same, and the cookies stay.
LoseLogout(p) ==
  /\ session[p] \in {"logout", "farewell"}
  /\ faults < MaxFaults
  /\ faults' = faults + 1
  /\ Leave(p)
  /\ broken' = IF session[p] = "farewell" /\ mine[p] = refresh[Home[p]]
               THEN broken \cup {Home[p]} ELSE broken
  /\ UNCHANGED <<clock, stored, cookies, rotation, past, entries>>

\* A 502 for the login form, which shows it: the new row has no cookie.
LoseLogin(p) ==
  /\ session[p] = "welcome"
  /\ faults < MaxFaults
  /\ faults' = faults + 1
  /\ session' = [session EXCEPT ![p] = "none"]
  /\ mine'    = [mine EXCEPT ![p] = NoToken]
  /\ UNCHANGED <<clock, stored, cookies, open, calls, rotation, broken, past, entries>>

\* A page is loaded once nothing of the one before it is left.
Open(p) ==
  /\ p \notin open
  /\ promise[p] = "none"
  /\ open' = open \cup {p}
  /\ UNCHANGED <<clock, stored, cookies, calls, rotation, entry, broken, past, spent>>

-----------------------------------------------------------------------------
(* fetchWithAuth *)

Send(k) == cookie' = [cookie EXCEPT ![k] = access[Home[PageOf[k]]]]

Fetch(k) ==
  /\ PageOf[k] \in open
  /\ task[k] = "idle"
  /\ Send(k)
  /\ task' = [task EXCEPT ![k] = "first"]
  /\ UNCHANGED <<clock, stored, cookies, open, rotation, entry, broken, past, spent>>

Done(K) ==
  /\ task'   = [k \in Task |-> IF k \in K THEN "idle" ELSE task[k]]
  /\ cookie' = [k \in Task |-> IF k \in K THEN NoToken ELSE cookie[k]]

\* get_current_user accepts the cookie, or refuses a request already retried.
Answer(k) ==
  /\ task[k] \in {"first", "again"}
  /\ task[k] = "again" \/ Valid(cookie[k], AccessTTL)
  /\ Done({k})
  /\ UNCHANGED <<clock, stored, cookies, open, rotation, entry, broken, past, spent>>

\* 401: the call waits for its page's refresh, and starts it if there is none.
Unauthorized(k) == LET p == PageOf[k] IN
  /\ task[k] = "first"
  /\ ~ Valid(cookie[k], AccessTTL)
  /\ task' = [task EXCEPT ![k] = "waiting"]
  /\ IF promise[p] = "none"
     THEN /\ promise' = [promise EXCEPT ![p] = "check"]
          /\ sent'    = [sent EXCEPT ![p] = refresh[Home[p]]]
     ELSE UNCHANGED <<promise, sent>>
  /\ UNCHANGED <<clock, stored, cookies, open, cookie, issued, entry, broken, past, spent>>

-----------------------------------------------------------------------------
(* POST /auth/refresh *)

\* Mutant: a request without the cookie goes through.
CheckAnyone(p) ==
  /\ promise[p] = "check"
  /\ promise' = [promise EXCEPT ![p] = IF sent[p] = NoToken \/ Alive(sent[p]) THEN "delete" ELSE "answer"]
  /\ UNCHANGED <<clock, stored, cookies, open, calls, sent, issued, entry, broken, past, spent>>

Check(p) ==
  /\ promise[p] = "check"
  /\ promise' = [promise EXCEPT ![p] = IF Alive(sent[p]) THEN "delete" ELSE "answer"]
  /\ UNCHANGED <<clock, stored, cookies, open, calls, sent, issued, entry, broken, past, spent>>

\* Mutant: every session of the user goes.
DeleteAll(p) ==
  /\ promise[p] = "delete"
  /\ stored'  = {t \in stored : t.user # sent[p].user}
  /\ promise' = [promise EXCEPT ![p] = "issue"]
  /\ UNCHANGED <<clock, cookies, open, calls, sent, issued, entry, broken, past, spent>>

Delete(p) ==
  /\ promise[p] = "delete"
  /\ stored'  = stored \ {sent[p]}
  /\ promise' = [promise EXCEPT ![p] = "issue"]
  /\ UNCHANGED <<clock, cookies, open, calls, sent, issued, entry, broken, past, spent>>

\* store_refresh_token; a token that is there already violates UNIQUE: 500.
Issue(p) == LET t == NewToken(sent[p].user) IN
  /\ promise[p] = "issue"
  /\ promise' = [promise EXCEPT ![p] = "answer"]
  /\ IF t \in stored
     THEN broken' = broken \cup {Home[p]} /\ UNCHANGED <<stored, issued, past>>
     ELSE /\ Store(t)
          /\ issued' = [issued EXCEPT ![p] = t]
          /\ UNCHANGED broken
  /\ UNCHANGED <<clock, cookies, open, calls, sent, entry, spent>>

\* The refreshPromise is settled and forgotten.
Settle(p) ==
  /\ promise' = [promise EXCEPT ![p] = "none"]
  /\ sent'    = [sent EXCEPT ![p] = NoToken]
  /\ issued'  = [issued EXCEPT ![p] = NoToken]

\* Mutant: a page remembers only one call that waits.
WaitingOne(p) ==
  LET W == {k \in Task : PageOf[k] = p /\ task[k] = "waiting"}
  IN  IF W = {} THEN {} ELSE {CHOOSE k \in W : TRUE}

Waiting(p) == {k \in Task : PageOf[k] = p /\ task[k] = "waiting"}

\* The answer sets the cookies, and the calls that waited are sent again.
Refreshed(p) ==
  /\ promise[p] = "answer"
  /\ issued[p] # NoToken
  /\ p \in open
  /\ SetCookies(Home[p], issued[p])
  /\ Settle(p)
  /\ task'   = [k \in Task |-> IF k \in Waiting(p) THEN "again" ELSE task[k]]
  /\ cookie' = [k \in Task |-> IF k \in Waiting(p) THEN issued[p] ELSE cookie[k]]
  /\ UNCHANGED <<clock, stored, open, entry, broken, past, spent>>

\* 401, 500, or 502 when the proxy does not reach the API: the calls that waited
\* return their 401.  The answer of a page that is gone is dropped.
Refused(p) ==
  /\ \/ promise[p] = "check"
     \/ promise[p] = "answer" /\ (issued[p] = NoToken \/ p \notin open)
  /\ Settle(p)
  /\ Done(Waiting(p))
  /\ broken' = IF issued[p] = NoToken THEN broken ELSE broken \cup {Home[p]}
  /\ UNCHANGED <<clock, stored, cookies, open, entry, past, spent>>

\* The proxy loses the answer: 502 for the page, whatever the API did.
LoseAnswer(p) ==
  /\ promise[p] = "answer"
  /\ issued[p] # NoToken
  /\ faults < MaxFaults
  /\ faults' = faults + 1
  /\ Settle(p)
  /\ Done(Waiting(p))
  /\ broken' = broken \cup {Home[p]}
  /\ UNCHANGED <<clock, stored, cookies, open, entry, past, entries>>

-----------------------------------------------------------------------------
Proceed(p) ==
  \/ Check(p) \/ Delete(p) \/ Issue(p) \/ Refreshed(p) \/ Refused(p)

Finish(p) == Welcome(p) \/ Revoke(p) \/ Farewell(p)

Next ==
  \/ Tick
  \/ \E p \in Page :
       \/ \E u \in User : Login(p, u)
       \/ Logout(p) \/ Open(p) \/ Proceed(p) \/ Finish(p)
       \/ LoseAnswer(p) \/ LoseLogin(p) \/ LoseLogout(p)
  \/ \E k \in Task : Fetch(k) \/ Answer(k) \/ Unauthorized(k)

Spec == Init /\ [][Next]_vars

\* The API answers what it is asked, and a page goes on with the answer.
FairSpec == /\ Spec
            /\ \A p \in Page : WF_vars(Proceed(p)) /\ WF_vars(Finish(p))
            /\ \A k \in Task : WF_vars(Answer(k) \/ Unauthorized(k))

-----------------------------------------------------------------------------
(* Properties *)

\* Cookies are tokens, and every request is in a stage its handler has.
TypeOK ==
  /\ clock \in 0..MaxTime /\ stored \subseteq Token /\ open \subseteq Page
  /\ access \in [Browser -> Token \cup {NoToken}]
  /\ refresh \in [Browser -> Token \cup {NoToken}]
  /\ task \in [Task -> {"idle", "first", "waiting", "again"}]
  /\ cookie \in [Task -> Token \cup {NoToken}]
  /\ promise \in [Page -> {"none", "check", "delete", "issue", "answer"}]
  /\ sent \in [Page -> Token \cup {NoToken}] /\ issued \in [Page -> Token \cup {NoToken}]
  /\ session \in [Page -> {"none", "welcome", "logout", "farewell"}]
  /\ mine \in [Page -> Token \cup {NoToken}]
  /\ minted \subseteq Token /\ twice \in BOOLEAN
  /\ broken \subseteq Browser
  /\ entries \in 0..MaxEntries /\ faults \in 0..MaxFaults
  /\ \A p \in Page : promise[p] \in {"delete", "issue"} => sent[p] \in Token

\* A browser is never left with a refresh cookie the API does not know: one is
\* dead only while the answer that replaces or clears it is under way, or when
\* that answer itself failed or was lost after the row was deleted (a refresh
\* half done, a refresh or a logout behind a 502).  Whatever pages rotate, log in
\* and out meanwhile, as long as no token is issued again in the second in which
\* it was deleted.
NoDeadCookie == ~ twice =>
  \A b \in Browser \ broken :
    Valid(refresh[b], RefreshTTL) /\ refresh[b] \notin stored
      => \E p \in Page :
           /\ Home[p] = b
           /\ \/ sent[p] = refresh[b] /\ (promise[p] = "issue" \/ issued[p] # NoToken)
              \/ mine[p] = refresh[b] /\ session[p] = "farewell"

\* Every call of fetchWithAuth returns, with the data or with its 401.
EveryCallReturns == \A k \in Task : (task[k] # "idle") ~> (task[k] = "idle")

\* "Delete the old row, then issue a new access/refresh pair": a refresh that
\* found its token ends with a new pair.
RefreshIssues ==
  [][\A p \in Page : promise[p] = "issue" /\ promise'[p] = "answer" => issued'[p] # NoToken]_vars
=============================================================================
