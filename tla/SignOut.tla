-------------------------------- MODULE SignOut --------------------------------
(* Signing out of the web app: performSignOut in the tabs of one browser, and   *)
(* POST /api/session/sign-out, which revokes the session the request's cookie   *)
(* names, looks whether it is gone, and expires the cookies on its response.    *)
(* The tabs share one cookie jar. A request may fail on the way, take longer    *)
(* than the tab waits, and reach the server after the tab has given up.         *)
EXTENDS Naturals, FiniteSets

CONSTANTS
  Tabs,       \* tabs with the profile menu
  Sessions,   \* sessions the person may have, one after the other
  MaxClicks,  \* clicks per tab
  MaxErrors,  \* how often revoking or looking may fail
  NoSession

ASSUME SignOutAssumption ==
  NoSession \notin Sessions /\ Sessions # {} /\ {MaxClicks, MaxErrors} \subseteq Nat

VARIABLES
  live,      \* sessions with a row on the server
  cookie,    \* the session the browser's cookie names
  click,     \* Tabs -> the request of the last click: the cookie it carries, where it
             \* is on the server, and what the route has found out
  returned,   \* Tabs -> what performSignOut returned, or that it still waits
  clicks, errors
signOutVars == <<live, cookie, click, returned, clicks, errors>>

SignOutTypeOK ==
  /\ live \subseteq Sessions /\ cookie \in Sessions \cup {NoSession}
  /\ click \in [Tabs -> [at : {"none", "sent", "revoked", "found", "gone"},
                         of : Sessions \cup {NoSession}, deleted : BOOLEAN]]
  /\ returned \in [Tabs -> {"none", "waiting", "redirected", "failed", "failed_server"}]
  /\ clicks \in [Tabs -> 0..MaxClicks] /\ errors \in 0..MaxErrors

SignOutInit ==
  /\ \E s \in Sessions : live = {s} /\ cookie = s
  /\ click = [t \in Tabs |-> [at |-> "none", of |-> NoSession, deleted |-> FALSE]]
  /\ returned = [t \in Tabs |-> "none"]
  /\ clicks = [t \in Tabs |-> 0] /\ errors = 0

\* performSignOut: one request per click, with whatever cookie there is. A tab
\* that was told it failed can be clicked again.
Click(t) ==
  /\ returned[t] \in {"none", "failed", "failed_server"} /\ click[t].at \in {"none", "gone"}
  /\ clicks[t] < MaxClicks /\ clicks' = [clicks EXCEPT ![t] = @ + 1]
  /\ click' = [click EXCEPT ![t] = [at |-> "sent", of |-> cookie, deleted |-> FALSE]]
  /\ returned' = [returned EXCEPT ![t] = "waiting"]
  /\ UNCHANGED <<live, cookie, errors>>

\* handleSignOut: revoke, best effort.
Revoke(t) ==
  /\ click[t].at = "sent" /\ click' = [click EXCEPT ![t].at = "revoked"]
  /\ \/ live' = live \ {click[t].of} /\ UNCHANGED errors
     \/ errors < MaxErrors /\ errors' = errors + 1 /\ UNCHANGED live
  /\ UNCHANGED <<cookie, returned, clicks>>
\* getSession answers null when the request names no session that lives; an
\* error counts as a session that is still there.
LooksGoneAlways(t) == TRUE  \* mutant: the revocation is believed
LooksGone(t) == click[t].of \notin live
LookAgain(t) ==
  /\ click[t].at = "revoked"
  /\ \/ click' = [click EXCEPT ![t].at = "found", ![t].deleted = LooksGone(t)] /\ UNCHANGED errors
     \/ /\ errors < MaxErrors /\ errors' = errors + 1
        /\ click' = [click EXCEPT ![t].at = "found", ![t].deleted = FALSE]
  /\ UNCHANGED <<live, cookie, returned, clicks>>

\* The response: the cookies of the jar expire, whatever session they name by
\* then; a tab that still waits redirects or says what failed.
ExpiredCookie == NoSession
RouteReplies(t) ==
  /\ click[t].at = "found" /\ click' = [click EXCEPT ![t].at = "gone"]
  /\ IF returned[t] = "waiting"
     THEN /\ returned' = [returned EXCEPT ![t] = IF click[t].deleted THEN "redirected" ELSE "failed_server"]
          /\ cookie' = ExpiredCookie
     ELSE UNCHANGED <<returned, cookie>>
  /\ UNCHANGED <<live, clicks, errors>>
\* The connection fails, or ten seconds pass: the tab aborts and nothing of a
\* later response is taken.
GiveUpWaiting(t) ==
  /\ returned[t] = "waiting" /\ returned' = [returned EXCEPT ![t] = "failed"]
  /\ \/ UNCHANGED click
     \/ click[t].at = "sent" /\ click' = [click EXCEPT ![t].at = "gone"]
  /\ UNCHANGED <<live, cookie, clicks, errors>>
\* isSameOrigin, isJsonContentType: the route refuses before it does anything.
Refuse(t) ==
  /\ click[t].at = "sent" /\ returned[t] = "waiting"
  /\ click' = [click EXCEPT ![t].at = "gone"] /\ returned' = [returned EXCEPT ![t] = "failed"]
  /\ UNCHANGED <<live, cookie, clicks, errors>>
\* The login page, when the browser has no session: a new one.
SignInAgain ==
  /\ cookie \notin live
  /\ \E s \in Sessions \ live :
       /\ \A t \in Tabs : click[t].of # s
       /\ live' = live \cup {s} /\ cookie' = s
  /\ returned' = [t \in Tabs |-> IF returned[t] = "redirected" THEN "none" ELSE returned[t]]
  /\ UNCHANGED <<click, clicks, errors>>

SignOutNext ==
  \/ \E t \in Tabs : Click(t) \/ Revoke(t) \/ LookAgain(t) \/ RouteReplies(t) \/ GiveUpWaiting(t) \/ Refuse(t)
  \/ SignInAgain
SignOutSpec == SignOutInit /\ [][SignOutNext]_signOutVars

-----------------------------------------------------------------------------
\* A tab goes to the login page only when the session its request named is gone
\* from the server, although revoking may fail without a word and another tab
\* may have been first.
RedirectedMeansGone == \A t \in Tabs :
  (returned[t] = "redirected") => click[t].of \notin live
\* apps/app/lib/sign-out.ts says that after a network failure or a timeout the
\* user is still signed in.
FailedMeansSignedIn == [][\A t \in Tabs :
  (returned[t] = "waiting" /\ returned'[t] = "failed") => click[t].of \in live \/ click[t].of = NoSession]_signOutVars
=============================================================================
