------------------------- MODULE AuthSessionsProofs -------------------------
(***************************************************************************)
(* Proofs about AuthSessions: for any users, browsers, pages and calls, a  *)
(* browser is never left with a refresh cookie the API does not know.      *)
(***************************************************************************)
EXTENDS AuthSessions, TLAPS

USE AuthAssumption

Maybe == Token \cup {NoToken}

-----------------------------------------------------------------------------
(* Types *)

LEMMA NewTokenType ==
  ASSUME clock \in 0..MaxTime, NEW u \in User PROVE NewToken(u) \in Token
  BY DEF NewToken, Token

\* What a page's refresh and a page's entry are, typed apart from the rest.
RotationOK ==
  /\ promise \in [Page -> {"none", "check", "delete", "issue", "answer"}]
  /\ sent \in [Page -> Maybe] /\ issued \in [Page -> Maybe]
  /\ \A p \in Page : promise[p] \in {"delete", "issue"} => sent[p] \in Token

EntryOK ==
  /\ session \in [Page -> {"none", "welcome", "logout", "farewell"}]
  /\ mine \in [Page -> Maybe]

CookiesOK == access \in [Browser -> Maybe] /\ refresh \in [Browser -> Maybe]

CallsOK ==
  /\ task \in [Task -> {"idle", "first", "waiting", "again"}]
  /\ cookie \in [Task -> Maybe]

RestOK ==
  /\ clock \in 0..MaxTime /\ stored \subseteq Token /\ open \subseteq Page
  /\ minted \subseteq Token /\ twice \in BOOLEAN
  /\ broken \subseteq Browser
  /\ entries \in 0..MaxEntries /\ faults \in 0..MaxFaults

LEMMA TypeParts == TypeOK <=> RotationOK /\ EntryOK /\ CookiesOK /\ CallsOK /\ RestOK
  BY DEF TypeOK, RotationOK, EntryOK, CookiesOK, CallsOK, RestOK, Maybe

LEMMA TypesKept ==
  ASSUME RotationOK', EntryOK', CookiesOK', CallsOK', RestOK' PROVE TypeOK'
  BY DEF TypeOK, RotationOK, EntryOK, CookiesOK, CallsOK, RestOK, Maybe

LEMMA InitTypes == Init => TypeOK
<1> SUFFICES ASSUME Init PROVE TypeOK
  OBVIOUS
<1>1. RotationOK
  BY DEF Init, RotationOK, Maybe
<1>2. EntryOK
  BY DEF Init, EntryOK, Maybe
<1>3. CookiesOK
  BY DEF Init, CookiesOK, Maybe
<1>4. CallsOK
  BY DEF Init, CallsOK, Maybe
<1>5. RestOK
  BY AuthAssumption, 0 \in 0..MaxTime, 0 \in 0..MaxEntries, 0 \in 0..MaxFaults DEF Init, RestOK
<1> QED BY <1>1, <1>2, <1>3, <1>4, <1>5, TypeParts

LEMMA HomeType == \A p \in Page : Home[p] \in Browser
  BY DEF AuthAssumption

\* Settling a refresh forgets what it carried.
LEMMA SettleStep ==
  ASSUME RotationOK, NEW p \in Page, Settle(p)
  PROVE  /\ RotationOK'
         /\ \A q \in Page : /\ promise'[q] = IF q = p THEN "none" ELSE promise[q]
                            /\ sent'[q] = IF q = p THEN NoToken ELSE sent[q]
                            /\ issued'[q] = IF q = p THEN NoToken ELSE issued[q]
<1>1. \A q \in Page : /\ promise'[q] = IF q = p THEN "none" ELSE promise[q]
                      /\ sent'[q] = IF q = p THEN NoToken ELSE sent[q]
                      /\ issued'[q] = IF q = p THEN NoToken ELSE issued[q]
  BY DEF Settle, RotationOK
<1>2. promise' \in [Page -> {"none", "check", "delete", "issue", "answer"}]
  BY DEF Settle, RotationOK
<1>3. sent' \in [Page -> Maybe] /\ issued' \in [Page -> Maybe]
  BY DEF Settle, RotationOK, Maybe
<1> QED BY <1>1, <1>2, <1>3 DEF RotationOK

\* A refresh that moves on to stage st, carrying and issuing what it did.
LEMMA PromiseStep ==
  ASSUME RotationOK, NEW p \in Page, NEW st \in {"check", "delete", "issue", "answer"},
         promise' = [promise EXCEPT ![p] = st], UNCHANGED sent,
         st \in {"delete", "issue"} => sent[p] \in Token
  PROVE  /\ promise' \in [Page -> {"none", "check", "delete", "issue", "answer"}]
         /\ \A q \in Page : promise'[q] = IF q = p THEN st ELSE promise[q]
         /\ \A q \in Page : promise'[q] \in {"delete", "issue"} => sent'[q] \in Token
  BY DEF RotationOK

\* A login or logout of p moves on to stage st with token t.
LEMMA EntryStep ==
  ASSUME EntryOK, NEW p \in Page, NEW st \in {"none", "welcome", "logout", "farewell"}, NEW t \in Maybe,
         session' = [session EXCEPT ![p] = st], mine' = [mine EXCEPT ![p] = t]
  PROVE  /\ EntryOK'
         /\ \A q \in Page : /\ session'[q] = IF q = p THEN st ELSE session[q]
                            /\ mine'[q] = IF q = p THEN t ELSE mine[q]
  BY DEF EntryOK

LEMMA CookieStep ==
  ASSUME CookiesOK, NEW b \in Browser, NEW t \in Maybe, SetCookies(b, t)
  PROVE  CookiesOK' /\ \A c \in Browser : refresh'[c] = IF c = b THEN t ELSE refresh[c]
  BY DEF CookiesOK, SetCookies

LEMMA StoreStep ==
  ASSUME RestOK, NEW t \in Token, Store(t)
  PROVE  stored' \subseteq Token /\ minted' \subseteq Token /\ twice' \in BOOLEAN
  BY DEF RestOK, Store

LEMMA DoneStep == ASSUME CallsOK, NEW K, Done(K) PROVE CallsOK'
  BY DEF CallsOK, Done, Maybe

-----------------------------------------------------------------------------
(* The ledger of refresh tokens, kept as long as none is issued twice *)

Unheld(t) == (\A b \in Browser : refresh[b] # t) /\ (\A q \in Page : sent[q] # t)

\* Whatever a cookie or a request holds was issued.
MintedOK ==
  /\ stored \subseteq minted
  /\ \A b \in Browser : refresh[b] \in minted \cup {NoToken}
  /\ \A q \in Page : /\ sent[q] \in minted \cup {NoToken}
                     /\ issued[q] \in minted \cup {NoToken}
                     /\ mine[q] \in minted \cup {NoToken}

\* A token on its way to a browser has its row, and only its answer holds it.
IssuedOK ==
  \A p \in Page : issued[p] # NoToken =>
    /\ promise[p] = "answer"
    /\ issued[p] \in stored /\ Unheld(issued[p])
    /\ \A q \in Page : mine[q] # issued[p] /\ (q # p => issued[q] # issued[p])

WelcomeOK ==
  \A p \in Page : session[p] = "welcome" =>
    /\ mine[p] # NoToken
    /\ mine[p] \in stored /\ Unheld(mine[p])
    /\ \A q \in Page : issued[q] # mine[p] /\ (q # p => mine[q] # mine[p])

\* A cookie is in one browser, and only its pages send it.
OwnOK ==
  \A b \in Browser : refresh[b] # NoToken =>
    /\ \A c \in Browser : refresh[c] = refresh[b] => c = b
    /\ \A q \in Page : sent[q] = refresh[b] \/ mine[q] = refresh[b] => Home[q] = b

Replaced(b) ==
  \E p \in Page :
    /\ Home[p] = b
    /\ \/ sent[p] = refresh[b] /\ (promise[p] = "issue" \/ issued[p] # NoToken)
       \/ mine[p] = refresh[b] /\ session[p] = "farewell"

DeadOK == \A b \in Browser \ broken : refresh[b] # NoToken /\ refresh[b] \notin stored => Replaced(b)

Ledger == MintedOK /\ IssuedOK /\ WelcomeOK /\ OwnOK /\ DeadOK

IInv == TypeOK /\ (~ twice => Ledger)

LEMMA LedgerParts ==
  ASSUME MintedOK', IssuedOK', WelcomeOK', OwnOK', DeadOK' PROVE Ledger'
  BY DEF Ledger

\* Steps that touch no token.
LEMMA IdleStep ==
  ASSUME Ledger, UNCHANGED <<stored, refresh, rotation, entry, broken, past>>
  PROVE  Ledger'
  BY DEF Ledger, MintedOK, IssuedOK, WelcomeOK, OwnOK, DeadOK, Replaced, Unheld, rotation, entry, past

-----------------------------------------------------------------------------
(* Login and logout *)

LEMMA LoginStep ==
  ASSUME TypeOK, ~ twice => Ledger, NEW p \in Page, NEW u \in User, Login(p, u)
  PROVE  TypeOK' /\ (~ twice' => Ledger')
<1> DEFINE t == NewToken(u)
<1>1. RotationOK /\ EntryOK /\ CookiesOK /\ CallsOK /\ RestOK
  BY TypeParts
<1>2. t \in Token /\ t # NoToken /\ t \in Maybe
  BY <1>1, NewTokenType DEF RestOK, AuthAssumption, Maybe
<1>3. /\ EntryOK'
      /\ \A q \in Page : /\ session'[q] = IF q = p THEN "welcome" ELSE session[q]
                         /\ mine'[q] = IF q = p THEN t ELSE mine[q]
  BY <1>1, <1>2, EntryStep DEF Login
<1>4. RestOK'
  BY <1>1, <1>2, StoreStep DEF Login, RestOK
<1>5. RotationOK' /\ CookiesOK' /\ CallsOK'
  BY <1>1 DEF Login, RotationOK, CookiesOK, CallsOK, rotation, cookies, calls
<1>6. SUFFICES ASSUME ~ twice' PROVE Ledger'
  BY <1>1, <1>3, <1>4, <1>5, TypesKept
<1>7. /\ UNCHANGED <<refresh, promise, sent, issued, broken>>
      /\ stored' = stored \cup {t} /\ minted' = minted \cup {t} /\ t \notin minted
      /\ session[p] = "none" /\ Ledger
  BY <1>6 DEF Login, Store, rotation, cookies
<1> HIDE DEF t
<1>8. /\ \A b \in Browser : refresh[b] # t
      /\ \A q \in Page : sent[q] # t /\ issued[q] # t /\ mine[q] # t
  BY <1>2, <1>7 DEF Ledger, MintedOK
<1>9. MintedOK'
  BY <1>3, <1>7 DEF Ledger, MintedOK
<1>10. IssuedOK'
  BY <1>3, <1>7, <1>8 DEF Ledger, IssuedOK, Unheld
<1>11. WelcomeOK'
  BY <1>2, <1>3, <1>7, <1>8 DEF Ledger, WelcomeOK, Unheld
<1>12. OwnOK'
  BY <1>3, <1>7, <1>8 DEF Ledger, OwnOK
<1>13. DeadOK'
  BY <1>3, <1>7, <1>8 DEF Ledger, DeadOK, Replaced
<1> QED BY <1>9, <1>10, <1>11, <1>12, <1>13, LedgerParts

LEMMA WelcomeStep ==
  ASSUME TypeOK, ~ twice => Ledger, NEW p \in Page, Welcome(p)
  PROVE  TypeOK' /\ (~ twice' => Ledger')
<1> DEFINE h == Home[p]
<1>1. RotationOK /\ EntryOK /\ CookiesOK /\ CallsOK /\ RestOK
  BY TypeParts
<1>2. h \in Browser /\ mine[p] \in Maybe /\ NoToken \in Maybe
  BY <1>1, HomeType DEF EntryOK, Maybe
<1>3. /\ EntryOK'
      /\ \A q \in Page : /\ session'[q] = IF q = p THEN "none" ELSE session[q]
                         /\ mine'[q] = IF q = p THEN NoToken ELSE mine[q]
  BY <1>1, <1>2, EntryStep DEF Welcome
<1>4. CookiesOK' /\ \A c \in Browser : refresh'[c] = IF c = h THEN mine[p] ELSE refresh[c]
  BY <1>1, <1>2, CookieStep DEF Welcome
<1>5. RotationOK' /\ CallsOK' /\ RestOK'
  BY <1>1 DEF Welcome, RotationOK, RestOK, CallsOK, rotation, past, spent, calls
<1>6. SUFFICES ASSUME ~ twice' PROVE Ledger'
  BY <1>1, <1>3, <1>4, <1>5, TypesKept
<1>7. /\ UNCHANGED <<stored, minted, promise, sent, issued>>
      /\ broken' = broken \ {h}
      /\ session[p] = "welcome" /\ Ledger
  BY <1>6 DEF Welcome, rotation, past
<1> HIDE DEF h
<1>8. /\ mine[p] # NoToken /\ mine[p] \in stored
      /\ \A b \in Browser : refresh[b] # mine[p]
      /\ \A q \in Page : sent[q] # mine[p] /\ issued[q] # mine[p] /\ (q # p => mine[q] # mine[p])
  BY <1>7 DEF Ledger, WelcomeOK, Unheld
<1>9. MintedOK'
  BY <1>3, <1>4, <1>7 DEF Ledger, MintedOK
<1>10. IssuedOK'
  BY <1>3, <1>4, <1>7, <1>8 DEF Ledger, IssuedOK, Unheld
<1>11. WelcomeOK'
  BY <1>3, <1>4, <1>7, <1>8 DEF Ledger, WelcomeOK, Unheld
<1>12. OwnOK'
  BY <1>2, <1>3, <1>4, <1>7, <1>8 DEF Ledger, OwnOK
<1>13. DeadOK'
  BY <1>2, <1>3, <1>4, <1>7, <1>8 DEF Ledger, DeadOK, Replaced
<1> QED BY <1>9, <1>10, <1>11, <1>12, <1>13, LedgerParts

LEMMA LogoutStep ==
  ASSUME TypeOK, ~ twice => Ledger, NEW p \in Page, Logout(p)
  PROVE  TypeOK' /\ (~ twice' => Ledger')
<1> DEFINE t == refresh[Home[p]]
<1>1. RotationOK /\ EntryOK /\ CookiesOK /\ CallsOK /\ RestOK
  BY TypeParts
<1>2. t \in Maybe /\ Home[p] \in Browser
  BY <1>1, HomeType DEF CookiesOK
<1>3. /\ EntryOK'
      /\ \A q \in Page : /\ session'[q] = IF q = p THEN "logout" ELSE session[q]
                         /\ mine'[q] = IF q = p THEN t ELSE mine[q]
  BY <1>1, <1>2, EntryStep DEF Logout
<1>4. RestOK'
  BY <1>1 DEF Logout, RestOK, past
<1>5. RotationOK' /\ CookiesOK' /\ CallsOK'
  BY <1>1 DEF Logout, RotationOK, CookiesOK, CallsOK, rotation, cookies, calls
<1>6. SUFFICES ASSUME ~ twice' PROVE Ledger'
  BY <1>1, <1>3, <1>4, <1>5, TypesKept
<1>7. /\ UNCHANGED <<stored, minted, refresh, promise, sent, issued, broken>>
      /\ session[p] = "none" /\ Ledger
  BY <1>6 DEF Logout, rotation, cookies, past
<1>9. MintedOK'
  BY <1>2, <1>3, <1>7 DEF Ledger, MintedOK
<1>10. IssuedOK'
  BY <1>2, <1>3, <1>7 DEF Ledger, IssuedOK, Unheld
<1>11. WelcomeOK'
  BY <1>2, <1>3, <1>7 DEF Ledger, WelcomeOK, Unheld
<1>12. OwnOK'
  BY <1>2, <1>3, <1>7 DEF Ledger, OwnOK
<1>13. DeadOK'
  BY <1>3, <1>7 DEF Ledger, DeadOK, Replaced
<1> QED BY <1>9, <1>10, <1>11, <1>12, <1>13, LedgerParts

LEMMA RevokeStep ==
  ASSUME TypeOK, ~ twice => Ledger, NEW p \in Page, Revoke(p)
  PROVE  TypeOK' /\ (~ twice' => Ledger')
<1>1. RotationOK /\ EntryOK /\ CookiesOK /\ CallsOK /\ RestOK
  BY TypeParts
<1>2. \A q \in Page : session'[q] = IF q = p THEN "farewell" ELSE session[q]
  BY <1>1 DEF Revoke, EntryOK
<1>3. EntryOK'
  BY <1>1 DEF Revoke, EntryOK
<1>4. RestOK'
  BY <1>1 DEF Revoke, RestOK, past, spent
<1>5. RotationOK' /\ CookiesOK' /\ CallsOK'
  BY <1>1 DEF Revoke, RotationOK, CookiesOK, CallsOK, rotation, cookies, calls
<1>6. SUFFICES ASSUME ~ twice' PROVE Ledger'
  BY <1>1, <1>3, <1>4, <1>5, TypesKept
<1>7. /\ UNCHANGED <<minted, refresh, promise, sent, issued, mine, broken>>
      /\ stored' = stored \ {mine[p]}
      /\ session[p] = "logout" /\ Ledger
  BY <1>6 DEF Revoke, rotation, cookies, past
<1>9. MintedOK'
  BY <1>7 DEF Ledger, MintedOK
<1>10. IssuedOK'
  BY <1>7 DEF Ledger, IssuedOK, Unheld
<1>11. WelcomeOK'
  BY <1>2, <1>7 DEF Ledger, WelcomeOK, Unheld
<1>12. OwnOK'
  BY <1>7 DEF Ledger, OwnOK
<1>13. DeadOK'
  BY <1>2, <1>7 DEF Ledger, DeadOK, OwnOK, Replaced
<1> QED BY <1>9, <1>10, <1>11, <1>12, <1>13, LedgerParts

LEMMA LeaveStep ==
  ASSUME CallsOK, EntryOK, NEW p \in Page, Leave(p)
  PROVE  /\ CallsOK' /\ EntryOK'
         /\ \A q \in Page : /\ session'[q] = IF q = p THEN "none" ELSE session[q]
                            /\ mine'[q] = IF q = p THEN NoToken ELSE mine[q]
<1>1. CallsOK'
  BY DEF CallsOK, Leave, Maybe
<1>2. session' = [session EXCEPT ![p] = "none"] /\ mine' = [mine EXCEPT ![p] = NoToken] /\ NoToken \in Maybe
  BY DEF Leave, Maybe
<1> QED BY <1>1, <1>2, EntryStep

LEMMA FarewellStep ==
  ASSUME TypeOK, ~ twice => Ledger, NEW p \in Page, Farewell(p)
  PROVE  TypeOK' /\ (~ twice' => Ledger')
<1> DEFINE h == Home[p]
<1>1. RotationOK /\ EntryOK /\ CookiesOK /\ CallsOK /\ RestOK
  BY TypeParts
<1>2. h \in Browser /\ NoToken \in Maybe
  BY HomeType DEF Maybe
<1>3. /\ EntryOK'
      /\ \A q \in Page : /\ session'[q] = IF q = p THEN "none" ELSE session[q]
                         /\ mine'[q] = IF q = p THEN NoToken ELSE mine[q]
  BY <1>1, LeaveStep DEF Farewell
<1>4. CookiesOK' /\ \A c \in Browser : refresh'[c] = IF c = h THEN NoToken ELSE refresh[c]
  BY <1>1, <1>2, CookieStep DEF Farewell
<1>5. RotationOK' /\ RestOK'
  BY <1>1 DEF Farewell, Leave, RotationOK, RestOK, rotation, past, spent
<1>6. CallsOK'
  BY <1>1, LeaveStep DEF Farewell
<1>7. SUFFICES ASSUME ~ twice' PROVE Ledger'
  BY <1>3, <1>4, <1>5, <1>6, TypesKept
<1>8. /\ UNCHANGED <<stored, minted, promise, sent, issued>>
      /\ broken' = broken \ {h} /\ Ledger
  BY <1>7 DEF Farewell, rotation, past
<1> HIDE DEF h
<1>9. MintedOK'
  BY <1>3, <1>4, <1>8 DEF Ledger, MintedOK
<1>10. IssuedOK'
  BY <1>3, <1>4, <1>8 DEF Ledger, IssuedOK, Unheld
<1>11. WelcomeOK'
  BY <1>3, <1>4, <1>8 DEF Ledger, WelcomeOK, Unheld
<1>12. OwnOK'
  BY <1>3, <1>4, <1>8 DEF Ledger, OwnOK
<1>13. DeadOK'
  BY <1>3, <1>4, <1>8 DEF Ledger, DeadOK, Replaced, h
<1> QED BY <1>9, <1>10, <1>11, <1>12, <1>13, LedgerParts

\* A lost logout leaves its cookie, which is dead only if the row was deleted.
LEMMA LoseLogoutStep ==
  ASSUME TypeOK, ~ twice => Ledger, NEW p \in Page, LoseLogout(p)
  PROVE  TypeOK' /\ (~ twice' => Ledger')
<1>1. RotationOK /\ EntryOK /\ CookiesOK /\ CallsOK /\ RestOK
  BY TypeParts
<1>2. Home[p] \in Browser /\ NoToken \in Maybe
  BY HomeType DEF Maybe
<1>3. /\ EntryOK'
      /\ \A q \in Page : /\ session'[q] = IF q = p THEN "none" ELSE session[q]
                         /\ mine'[q] = IF q = p THEN NoToken ELSE mine[q]
  BY <1>1, LeaveStep DEF LoseLogout
<1>4. RotationOK' /\ CookiesOK'
  BY <1>1 DEF LoseLogout, RotationOK, CookiesOK, rotation, cookies
<1>5. RestOK'
  BY <1>1, <1>2, AuthAssumption DEF LoseLogout, Leave, RestOK, past
<1>6. CallsOK'
  BY <1>1, LeaveStep DEF LoseLogout
<1>7. SUFFICES ASSUME ~ twice' PROVE Ledger'
  BY <1>3, <1>4, <1>5, <1>6, TypesKept
<1>8. /\ UNCHANGED <<stored, minted, refresh, promise, sent, issued>>
      /\ broken \subseteq broken'
      /\ session[p] = "farewell" /\ mine[p] = refresh[Home[p]] => Home[p] \in broken'
      /\ Ledger
  BY <1>7 DEF LoseLogout, rotation, cookies, past
<1>9. MintedOK'
  BY <1>3, <1>8 DEF Ledger, MintedOK
<1>10. IssuedOK'
  BY <1>3, <1>8 DEF Ledger, IssuedOK, Unheld
<1>11. WelcomeOK'
  BY <1>3, <1>8 DEF Ledger, WelcomeOK, Unheld
<1>12. OwnOK'
  BY <1>3, <1>8 DEF Ledger, OwnOK
<1>13. DeadOK'
  BY <1>3, <1>8 DEF Ledger, DeadOK, Replaced
<1> QED BY <1>9, <1>10, <1>11, <1>12, <1>13, LedgerParts

\* A lost login leaves a row that no cookie names.
LEMMA LoseLoginStep ==
  ASSUME TypeOK, ~ twice => Ledger, NEW p \in Page, LoseLogin(p)
  PROVE  TypeOK' /\ (~ twice' => Ledger')
<1>1. RotationOK /\ EntryOK /\ CookiesOK /\ CallsOK /\ RestOK
  BY TypeParts
<1>2. NoToken \in Maybe
  BY DEF Maybe
<1>3. /\ EntryOK'
      /\ \A q \in Page : /\ session'[q] = IF q = p THEN "none" ELSE session[q]
                         /\ mine'[q] = IF q = p THEN NoToken ELSE mine[q]
  BY <1>1, <1>2, EntryStep DEF LoseLogin
<1>4. RotationOK' /\ CookiesOK' /\ CallsOK'
  BY <1>1 DEF LoseLogin, RotationOK, CookiesOK, CallsOK, rotation, cookies, calls
<1>5. RestOK'
  BY <1>1, AuthAssumption DEF LoseLogin, RestOK, past
<1>6. SUFFICES ASSUME ~ twice' PROVE Ledger'
  BY <1>3, <1>4, <1>5, TypesKept
<1>7. /\ UNCHANGED <<stored, minted, refresh, promise, sent, issued, broken>>
      /\ session[p] = "welcome" /\ Ledger
  BY <1>6 DEF LoseLogin, rotation, cookies, past
<1>8. MintedOK'
  BY <1>3, <1>7 DEF Ledger, MintedOK
<1>9. IssuedOK'
  BY <1>3, <1>7 DEF Ledger, IssuedOK, Unheld
<1>10. WelcomeOK'
  BY <1>3, <1>7 DEF Ledger, WelcomeOK, Unheld
<1>11. OwnOK'
  BY <1>3, <1>7 DEF Ledger, OwnOK
<1>12. DeadOK'
  BY <1>3, <1>7 DEF Ledger, DeadOK, Replaced
<1> QED BY <1>8, <1>9, <1>10, <1>11, <1>12, LedgerParts

-----------------------------------------------------------------------------
(* The clock, the pages and their calls *)

LEMMA PageOfType == \A k \in Task : PageOf[k] \in Page
  BY DEF AuthAssumption

LEMMA TickStep ==
  ASSUME TypeOK, ~ twice => Ledger, Tick
  PROVE  TypeOK' /\ (~ twice' => Ledger')
<1>1. RotationOK /\ EntryOK /\ CookiesOK /\ CallsOK /\ RestOK
  BY TypeParts
<1>2. RotationOK' /\ EntryOK' /\ CookiesOK' /\ CallsOK'
  BY <1>1 DEF Tick, RotationOK, EntryOK, CookiesOK, CallsOK, rotation, entry, cookies, calls
<1>3. RestOK'
  BY <1>1, AuthAssumption DEF Tick, RestOK, past, spent
<1>4. twice' => twice
  BY DEF Tick, past
<1>5. ~ twice' => Ledger'
  BY IdleStep DEF Tick, cookies, past
<1> QED BY <1>2, <1>3, <1>5, TypesKept

LEMMA OpenStep ==
  ASSUME TypeOK, ~ twice => Ledger, NEW p \in Page, Open(p)
  PROVE  TypeOK' /\ (~ twice' => Ledger')
<1>1. RotationOK /\ EntryOK /\ CookiesOK /\ CallsOK /\ RestOK
  BY TypeParts
<1>2. RotationOK' /\ EntryOK' /\ CookiesOK' /\ CallsOK'
  BY <1>1 DEF Open, RotationOK, EntryOK, CookiesOK, CallsOK, rotation, entry, cookies, calls
<1>3. RestOK'
  BY <1>1 DEF Open, RestOK, past, spent
<1>4. ~ twice' => Ledger'
  BY IdleStep DEF Open, cookies, past
<1> QED BY <1>2, <1>3, <1>4, TypesKept

LEMMA FetchStep ==
  ASSUME TypeOK, ~ twice => Ledger, NEW k \in Task, Fetch(k)
  PROVE  TypeOK' /\ (~ twice' => Ledger')
<1>1. RotationOK /\ EntryOK /\ CookiesOK /\ CallsOK /\ RestOK
  BY TypeParts
<1>2. access[Home[PageOf[k]]] \in Maybe
  BY <1>1, PageOfType, HomeType DEF CookiesOK
<1>3. RotationOK' /\ EntryOK' /\ CookiesOK' /\ RestOK'
  BY <1>1 DEF Fetch, RotationOK, EntryOK, CookiesOK, RestOK, rotation, entry, cookies, past, spent
<1>4. CallsOK'
  BY <1>1, <1>2 DEF Fetch, Send, CallsOK
<1>5. ~ twice' => Ledger'
  BY IdleStep DEF Fetch, cookies, past
<1> QED BY <1>3, <1>4, <1>5, TypesKept

LEMMA AnswerStep ==
  ASSUME TypeOK, ~ twice => Ledger, NEW k \in Task, Answer(k)
  PROVE  TypeOK' /\ (~ twice' => Ledger')
<1>1. RotationOK /\ EntryOK /\ CookiesOK /\ CallsOK /\ RestOK
  BY TypeParts
<1>2. RotationOK' /\ EntryOK' /\ CookiesOK' /\ RestOK'
  BY <1>1 DEF Answer, RotationOK, EntryOK, CookiesOK, RestOK, rotation, entry, cookies, past, spent
<1>3. CallsOK'
  BY <1>1, DoneStep DEF Answer
<1>4. ~ twice' => Ledger'
  BY IdleStep DEF Answer, cookies, past
<1> QED BY <1>2, <1>3, <1>4, TypesKept

\* The call joins a refresh, or starts it with its browser's cookie.
LEMMA UnauthorizedStep ==
  ASSUME TypeOK, ~ twice => Ledger, NEW k \in Task, Unauthorized(k)
  PROVE  TypeOK' /\ (~ twice' => Ledger')
<1> DEFINE p == PageOf[k]
           t == refresh[Home[p]]
<1>1. RotationOK /\ EntryOK /\ CookiesOK /\ CallsOK /\ RestOK
  BY TypeParts
<1>2. p \in Page /\ Home[p] \in Browser /\ t \in Maybe
  BY <1>1, PageOfType, HomeType DEF CookiesOK
<1>3. EntryOK' /\ CookiesOK' /\ RestOK'
  BY <1>1 DEF Unauthorized, EntryOK, CookiesOK, RestOK, entry, cookies, past, spent
<1>4. CallsOK'
  BY <1>1 DEF Unauthorized, CallsOK
<1>5. /\ UNCHANGED <<stored, minted, refresh, issued, session, mine, broken>>
      /\ twice' = twice
  BY DEF Unauthorized, entry, cookies, past
<1>6. CASE promise[p] # "none"
  <2>1. UNCHANGED <<promise, sent, issued>>
    BY <1>6 DEF Unauthorized
  <2>2. RotationOK'
    BY <1>1, <2>1 DEF RotationOK
  <2>3. ~ twice' => Ledger'
    BY <1>5, <2>1, IdleStep DEF rotation, entry, past, Unauthorized
  <2> QED BY <1>3, <1>4, <2>2, <2>3, TypesKept
<1>7. CASE promise[p] = "none"
  <2>1. promise' = [promise EXCEPT ![p] = "check"] /\ sent' = [sent EXCEPT ![p] = t]
    BY <1>7 DEF Unauthorized
  <2> HIDE DEF p
  <2>2. \A q \in Page : /\ promise'[q] = IF q = p THEN "check" ELSE promise[q]
                        /\ sent'[q] = IF q = p THEN t ELSE sent[q]
    BY <1>1, <2>1 DEF RotationOK
  <2>3. RotationOK'
    BY <1>1, <1>2, <1>5, <2>1, <2>2 DEF RotationOK
  <2>4. SUFFICES ASSUME ~ twice' PROVE Ledger'
    BY <1>3, <1>4, <2>3, TypesKept
  <2>5. Ledger
    BY <1>5, <2>4
  <2>6. MintedOK'
    BY <1>2, <1>5, <2>2, <2>5 DEF Ledger, MintedOK
  <2>7. IssuedOK'
    BY <1>2, <1>5, <1>7, <2>2, <2>5 DEF Ledger, IssuedOK, Unheld
  <2>8. WelcomeOK'
    BY <1>2, <1>5, <2>2, <2>5 DEF Ledger, WelcomeOK, Unheld
  <2>9. OwnOK'
    BY <1>2, <1>5, <2>2, <2>5 DEF Ledger, OwnOK
  <2>10. DeadOK'
    BY <1>5, <1>7, <2>2, <2>5 DEF Ledger, DeadOK, Replaced, IssuedOK
  <2> QED BY <2>6, <2>7, <2>8, <2>9, <2>10, LedgerParts
<1> QED BY <1>6, <1>7

-----------------------------------------------------------------------------
(* POST /auth/refresh *)

LEMMA CheckStep ==
  ASSUME TypeOK, ~ twice => Ledger, NEW p \in Page, Check(p)
  PROVE  TypeOK' /\ (~ twice' => Ledger')
<1> DEFINE st == IF Alive(sent[p]) THEN "delete" ELSE "answer"
<1>1. RotationOK /\ EntryOK /\ CookiesOK /\ CallsOK /\ RestOK
  BY TypeParts
<1>2. EntryOK' /\ CookiesOK' /\ CallsOK' /\ RestOK'
  BY <1>1 DEF Check, EntryOK, CookiesOK, CallsOK, RestOK, entry, cookies, calls, past, spent
<1>3. st \in {"check", "delete", "issue", "answer"} /\ st # "issue" /\ (st = "delete" => sent[p] \in Token)
  BY <1>1 DEF Alive, RestOK
<1>4. /\ promise' = [promise EXCEPT ![p] = st] /\ promise[p] = "check"
      /\ UNCHANGED <<stored, minted, refresh, sent, issued, session, mine, broken>>
      /\ twice' = twice
  BY DEF Check, cookies, entry, past
<1> HIDE DEF st
<1>5. /\ promise' \in [Page -> {"none", "check", "delete", "issue", "answer"}]
      /\ \A q \in Page : promise'[q] = IF q = p THEN st ELSE promise[q]
      /\ \A q \in Page : promise'[q] \in {"delete", "issue"} => sent'[q] \in Token
  BY <1>1, <1>3, <1>4, PromiseStep
<1>6. RotationOK'
  BY <1>1, <1>4, <1>5 DEF RotationOK
<1>7. SUFFICES ASSUME ~ twice' PROVE Ledger'
  BY <1>2, <1>6, TypesKept
<1>8. Ledger
  BY <1>4, <1>7
<1>9. MintedOK' /\ WelcomeOK' /\ OwnOK'
  BY <1>4, <1>8 DEF Ledger, MintedOK, WelcomeOK, OwnOK, Unheld
<1>10. IssuedOK'
  BY <1>4, <1>5, <1>8 DEF Ledger, IssuedOK, Unheld
<1>11. DeadOK'
  BY <1>4, <1>5, <1>8 DEF Ledger, DeadOK, Replaced
<1> QED BY <1>9, <1>10, <1>11, LedgerParts

LEMMA DeleteStep ==
  ASSUME TypeOK, ~ twice => Ledger, NEW p \in Page, Delete(p)
  PROVE  TypeOK' /\ (~ twice' => Ledger')
<1>1. RotationOK /\ EntryOK /\ CookiesOK /\ CallsOK /\ RestOK
  BY TypeParts
<1>2. EntryOK' /\ CookiesOK' /\ CallsOK' /\ RestOK'
  BY <1>1 DEF Delete, EntryOK, CookiesOK, CallsOK, RestOK, entry, cookies, calls, past, spent
<1>3. sent[p] \in Token
  BY <1>1 DEF Delete, RotationOK
<1>4. /\ promise' = [promise EXCEPT ![p] = "issue"] /\ promise[p] = "delete"
      /\ UNCHANGED <<minted, refresh, sent, issued, session, mine, broken>>
      /\ stored' = stored \ {sent[p]} /\ twice' = twice
  BY DEF Delete, cookies, entry, past
<1>5. /\ promise' \in [Page -> {"none", "check", "delete", "issue", "answer"}]
      /\ \A q \in Page : promise'[q] = IF q = p THEN "issue" ELSE promise[q]
      /\ \A q \in Page : promise'[q] \in {"delete", "issue"} => sent'[q] \in Token
  BY <1>1, <1>3, <1>4, PromiseStep
<1>6. RotationOK'
  BY <1>1, <1>4, <1>5 DEF RotationOK
<1>7. SUFFICES ASSUME ~ twice' PROVE Ledger'
  BY <1>2, <1>6, TypesKept
<1>8. Ledger
  BY <1>4, <1>7
<1>9. MintedOK' /\ WelcomeOK' /\ OwnOK'
  BY <1>4, <1>8 DEF Ledger, MintedOK, WelcomeOK, OwnOK, Unheld
<1>10. IssuedOK'
  BY <1>4, <1>5, <1>8 DEF Ledger, IssuedOK, Unheld
<1>11. DeadOK'
  BY <1>4, <1>5, <1>8 DEF Ledger, DeadOK, Replaced, OwnOK
<1> QED BY <1>9, <1>10, <1>11, LedgerParts

LEMMA IssueStep ==
  ASSUME TypeOK, ~ twice => Ledger, NEW p \in Page, Issue(p)
  PROVE  TypeOK' /\ (~ twice' => Ledger')
<1> DEFINE t == NewToken(sent[p].user)
<1>1. RotationOK /\ EntryOK /\ CookiesOK /\ CallsOK /\ RestOK
  BY TypeParts
<1>2. sent[p] \in Token /\ Home[p] \in Browser
  BY <1>1, HomeType DEF Issue, RotationOK
<1>3. t \in Token /\ t # NoToken
  BY <1>1, <1>2, NewTokenType, AuthAssumption DEF Token, RestOK
<1>4. EntryOK' /\ CookiesOK' /\ CallsOK'
  BY <1>1 DEF Issue, EntryOK, CookiesOK, CallsOK, entry, cookies, calls
<1>5. /\ promise' = [promise EXCEPT ![p] = "answer"] /\ promise[p] = "issue"
      /\ UNCHANGED <<refresh, sent, session, mine, clock, open, entries, faults>>
  BY DEF Issue, cookies, entry, spent
<1>6. /\ promise' \in [Page -> {"none", "check", "delete", "issue", "answer"}]
      /\ \A q \in Page : promise'[q] = IF q = p THEN "answer" ELSE promise[q]
      /\ \A q \in Page : promise'[q] \in {"delete", "issue"} => sent'[q] \in Token
  BY <1>1, <1>2, <1>5, PromiseStep
<1>7. CASE t \in stored
  <2>1. broken' = broken \cup {Home[p]} /\ UNCHANGED <<stored, issued, minted>> /\ twice' = twice
    BY <1>7 DEF Issue, past
  <2>2. RotationOK' /\ RestOK'
    BY <1>1, <1>2, <1>5, <1>6, <2>1 DEF RotationOK, RestOK
  <2>3. SUFFICES ASSUME ~ twice' PROVE Ledger'
    BY <1>4, <2>2, TypesKept
  <2>4. Ledger
    BY <2>1, <2>3
  <2>5. MintedOK' /\ WelcomeOK' /\ OwnOK'
    BY <1>5, <2>1, <2>4 DEF Ledger, MintedOK, WelcomeOK, OwnOK, Unheld
  <2>6. IssuedOK'
    BY <1>5, <1>6, <2>1, <2>4 DEF Ledger, IssuedOK, Unheld
  <2>7. DeadOK'
    BY <1>5, <1>6, <2>1, <2>4 DEF Ledger, DeadOK, Replaced
  <2> QED BY <2>5, <2>6, <2>7, LedgerParts
<1>8. CASE t \notin stored
  <2>1. Store(t) /\ issued' = [issued EXCEPT ![p] = t] /\ broken' = broken
    BY <1>8 DEF Issue
  <2> HIDE DEF t
  <2>2. \A q \in Page : issued'[q] = IF q = p THEN t ELSE issued[q]
    BY <1>1, <2>1 DEF RotationOK
  <2>3. issued' \in [Page -> Maybe]
    BY <1>1, <1>3, <2>1 DEF RotationOK, Maybe
  <2>4. RotationOK'
    BY <1>1, <1>5, <1>6, <2>3 DEF RotationOK
  <2>5. RestOK'
    BY <1>1, <1>3, <1>5, <2>1, StoreStep DEF RestOK
  <2>6. SUFFICES ASSUME ~ twice' PROVE Ledger'
    BY <1>4, <2>4, <2>5, TypesKept
  <2>7. /\ stored' = stored \cup {t} /\ minted' = minted \cup {t} /\ t \notin minted
        /\ Ledger
    BY <2>1, <2>6 DEF Store
  <2>8. /\ \A b \in Browser : refresh[b] # t
        /\ \A q \in Page : sent[q] # t /\ issued[q] # t /\ mine[q] # t
    BY <1>3, <2>7 DEF Ledger, MintedOK
  <2>9. MintedOK'
    BY <1>5, <2>2, <2>7 DEF Ledger, MintedOK
  <2>10. IssuedOK'
    BY <1>5, <1>6, <2>2, <2>7, <2>8 DEF Ledger, IssuedOK, Unheld
  <2>11. WelcomeOK'
    BY <1>5, <2>2, <2>7, <2>8 DEF Ledger, WelcomeOK, Unheld
  <2>12. OwnOK'
    BY <1>5, <2>7 DEF Ledger, OwnOK
  <2>13. DeadOK'
    BY <1>3, <1>5, <1>6, <2>1, <2>2, <2>7 DEF Ledger, DeadOK, Replaced
  <2> QED BY <2>9, <2>10, <2>11, <2>12, <2>13, LedgerParts
<1> QED BY <1>7, <1>8

LEMMA RefreshedStep ==
  ASSUME TypeOK, ~ twice => Ledger, NEW p \in Page, Refreshed(p)
  PROVE  TypeOK' /\ (~ twice' => Ledger')
<1> DEFINE h == Home[p]
<1>1. RotationOK /\ EntryOK /\ CookiesOK /\ CallsOK /\ RestOK
  BY TypeParts
<1>2. h \in Browser /\ issued[p] \in Maybe
  BY <1>1, HomeType DEF RotationOK
<1>3. /\ RotationOK'
      /\ \A q \in Page : /\ promise'[q] = IF q = p THEN "none" ELSE promise[q]
                         /\ sent'[q] = IF q = p THEN NoToken ELSE sent[q]
                         /\ issued'[q] = IF q = p THEN NoToken ELSE issued[q]
  BY <1>1, SettleStep DEF Refreshed
<1>4. CookiesOK' /\ \A c \in Browser : refresh'[c] = IF c = h THEN issued[p] ELSE refresh[c]
  BY <1>1, <1>2, CookieStep DEF Refreshed
<1>5. EntryOK' /\ RestOK'
  BY <1>1 DEF Refreshed, EntryOK, RestOK, entry, past, spent
<1>6. CallsOK'
  BY <1>1, <1>2 DEF Refreshed, CallsOK
<1>7. SUFFICES ASSUME ~ twice' PROVE Ledger'
  BY <1>3, <1>4, <1>5, <1>6, TypesKept
<1>8. /\ UNCHANGED <<stored, minted, session, mine, broken>>
      /\ issued[p] # NoToken /\ Ledger
  BY <1>7 DEF Refreshed, entry, past
<1> HIDE DEF h
<1>9. /\ issued[p] \in stored
      /\ \A b \in Browser : refresh[b] # issued[p]
      /\ \A q \in Page : sent[q] # issued[p] /\ mine[q] # issued[p] /\ (q # p => issued[q] # issued[p])
  BY <1>8 DEF Ledger, IssuedOK, Unheld
<1>10. MintedOK'
  BY <1>3, <1>4, <1>8 DEF Ledger, MintedOK
<1>11. IssuedOK'
  BY <1>3, <1>4, <1>8, <1>9 DEF Ledger, IssuedOK, Unheld
<1>12. WelcomeOK'
  BY <1>3, <1>4, <1>8, <1>9 DEF Ledger, WelcomeOK, Unheld
<1>13. OwnOK'
  BY <1>2, <1>3, <1>4, <1>8, <1>9 DEF Ledger, OwnOK
<1>14. DeadOK'
  BY <1>2, <1>3, <1>4, <1>8, <1>9 DEF Ledger, DeadOK, Replaced, h
<1> QED BY <1>10, <1>11, <1>12, <1>13, <1>14, LedgerParts

\* A refresh is forgotten: what it had issued reaches no cookie.
LEMMA ForgetStep ==
  ASSUME RotationOK, Ledger, NEW p \in Page, Settle(p), promise[p] \in {"check", "answer"},
         UNCHANGED <<stored, refresh, session, mine, minted>>,
         broken \subseteq broken', issued[p] # NoToken => Home[p] \in broken'
  PROVE  Ledger'
<1>1. \A q \in Page : /\ promise'[q] = IF q = p THEN "none" ELSE promise[q]
                      /\ sent'[q] = IF q = p THEN NoToken ELSE sent[q]
                      /\ issued'[q] = IF q = p THEN NoToken ELSE issued[q]
  BY SettleStep
<1>2. MintedOK'
  BY <1>1 DEF Ledger, MintedOK
<1>3. IssuedOK'
  BY <1>1 DEF Ledger, IssuedOK, Unheld
<1>4. WelcomeOK'
  BY <1>1 DEF Ledger, WelcomeOK, Unheld
<1>5. OwnOK'
  BY <1>1 DEF Ledger, OwnOK
<1>6. DeadOK'
  BY <1>1 DEF Ledger, DeadOK, Replaced
<1> QED BY <1>2, <1>3, <1>4, <1>5, <1>6, LedgerParts

LEMMA RefusedStep ==
  ASSUME TypeOK, ~ twice => Ledger, NEW p \in Page, Refused(p)
  PROVE  TypeOK' /\ (~ twice' => Ledger')
<1>1. RotationOK /\ EntryOK /\ CookiesOK /\ CallsOK /\ RestOK
  BY TypeParts
<1>2. Home[p] \in Browser
  BY HomeType
<1>3. RotationOK' /\ CallsOK'
  BY <1>1, SettleStep, DoneStep DEF Refused
<1>4. EntryOK' /\ CookiesOK' /\ RestOK'
  BY <1>1, <1>2 DEF Refused, EntryOK, CookiesOK, RestOK, entry, cookies, past, spent
<1>5. ~ twice' => Ledger'
  BY <1>1, ForgetStep DEF Refused, entry, cookies, past
<1> QED BY <1>3, <1>4, <1>5, TypesKept

LEMMA LoseAnswerStep ==
  ASSUME TypeOK, ~ twice => Ledger, NEW p \in Page, LoseAnswer(p)
  PROVE  TypeOK' /\ (~ twice' => Ledger')
<1>1. RotationOK /\ EntryOK /\ CookiesOK /\ CallsOK /\ RestOK
  BY TypeParts
<1>2. Home[p] \in Browser
  BY HomeType
<1>3. RotationOK' /\ CallsOK'
  BY <1>1, SettleStep, DoneStep DEF LoseAnswer
<1>4. EntryOK' /\ CookiesOK'
  BY <1>1 DEF LoseAnswer, EntryOK, CookiesOK, entry, cookies
<1>5. RestOK'
  BY <1>1, <1>2, AuthAssumption DEF LoseAnswer, RestOK, past
<1>6. ~ twice' => Ledger'
  BY <1>1, ForgetStep DEF LoseAnswer, entry, cookies, past
<1> QED BY <1>3, <1>4, <1>5, <1>6, TypesKept

-----------------------------------------------------------------------------

LEMMA InitLedger == Init => Ledger
  BY DEF Init, Ledger, MintedOK, IssuedOK, WelcomeOK, OwnOK, DeadOK

LEMMA IdleVars ==
  ASSUME TypeOK, ~ twice => Ledger, UNCHANGED vars
  PROVE  TypeOK' /\ (~ twice' => Ledger')
<1>1. TypeOK'
  BY DEF TypeOK, vars, cookies, calls, rotation, entry, past, spent
<1>2. ~ twice' => Ledger'
  BY IdleStep DEF vars, cookies, past
<1> QED BY <1>1, <1>2

LEMMA Step == IInv /\ [Next]_vars => IInv'
<1> SUFFICES ASSUME TypeOK, ~ twice => Ledger, [Next]_vars
             PROVE  TypeOK' /\ (~ twice' => Ledger')
  BY DEF IInv
<1>1. CASE UNCHANGED vars
  BY <1>1, IdleVars
<1>2. CASE Tick
  BY <1>2, TickStep
<1>3. ASSUME NEW p \in Page, NEW u \in User, Login(p, u) PROVE TypeOK' /\ (~ twice' => Ledger')
  BY <1>3, LoginStep
<1>4. ASSUME NEW p \in Page, Logout(p) \/ Finish(p) PROVE TypeOK' /\ (~ twice' => Ledger')
  BY <1>4, LogoutStep, WelcomeStep, RevokeStep, FarewellStep DEF Finish
<1>5. ASSUME NEW p \in Page, Open(p) \/ LoseAnswer(p) \/ LoseLogin(p) \/ LoseLogout(p)
      PROVE  TypeOK' /\ (~ twice' => Ledger')
  BY <1>5, OpenStep, LoseAnswerStep, LoseLoginStep, LoseLogoutStep
<1>6. ASSUME NEW p \in Page, Proceed(p) PROVE TypeOK' /\ (~ twice' => Ledger')
  BY <1>6, CheckStep, DeleteStep, IssueStep, RefreshedStep, RefusedStep DEF Proceed
<1>7. ASSUME NEW k \in Task, Fetch(k) \/ Answer(k) \/ Unauthorized(k) PROVE TypeOK' /\ (~ twice' => Ledger')
  BY <1>7, FetchStep, AnswerStep, UnauthorizedStep
<1> QED BY <1>1, <1>2, <1>3, <1>4, <1>5, <1>6, <1>7 DEF Next

THEOREM Invariance == Spec => []IInv
<1>1. Init => IInv
  BY InitTypes, InitLedger DEF IInv
<1> QED BY <1>1, Step, PTL DEF Spec

\* Cookies are tokens, and every request is in a stage its handler has:
\* auth_routes.py and fetchWithAuth.ts, for any browsers, pages and calls.
THEOREM TypeCorrect == Spec => []TypeOK
<1>1. IInv => TypeOK
  BY DEF IInv
<1> QED BY <1>1, Invariance, PTL

\* No browser is left with a refresh cookie the API does not know, but while its
\* answer is under way or when that answer failed or was lost after the row was
\* deleted (refresh and logout of auth_routes.py, behind the proxy of route.ts),
\* however many pages and browsers share the users' sessions.
THEOREM CookiesLive == Spec => []NoDeadCookie
<1>1. IInv => NoDeadCookie
  BY DEF IInv, Ledger, DeadOK, Replaced, NoDeadCookie, Valid
<1> QED BY <1>1, Invariance, PTL
=============================================================================
