--------------------------- MODULE MCAuthSessions ---------------------------
(* One browser with two pages and two calls of fetchWithAuth: one on each     *)
(* page (apart), or both on one page, where they share its refreshPromise.    *)
EXTENDS AuthSessions, TLC

CONSTANTS b, p1, p2, k1, k2

VARIABLE apart    \* is each call on a page of its own?

MCHome   == [p \in Page |-> b]
MCPair   == k1 :> p1 @@ k2 :> p2
MCShared == k1 :> p1 @@ k2 :> p1

One == INSTANCE AuthSessions WITH PageOf <- MCShared

TabsInit == apart \in BOOLEAN /\ Init
TabsNext ==
  /\ UNCHANGED apart
  /\ \/ apart /\ Next
     \/ ~apart /\ One!Next

\* FairSpec, for the arrangement at hand.
Goes(p) ==
  /\ UNCHANGED apart
  /\ \/ apart /\ Proceed(p)
     \/ ~apart /\ One!Proceed(p)
Ends(p) ==
  /\ UNCHANGED apart
  /\ \/ apart /\ Finish(p)
     \/ ~apart /\ One!Finish(p)
Answers(k) ==
  /\ UNCHANGED apart
  /\ \/ apart /\ (Answer(k) \/ Unauthorized(k))
     \/ ~apart /\ (One!Answer(k) \/ One!Unauthorized(k))

TabsSpec ==
  /\ TabsInit
  /\ [][TabsNext]_<<vars, apart>>
  /\ \A p \in Page : WF_<<vars, apart>>(Goes(p)) /\ WF_<<vars, apart>>(Ends(p))
  /\ \A k \in Task : WF_<<vars, apart>>(Answers(k))
=============================================================================
