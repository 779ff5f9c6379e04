------------------------------ MODULE Sessions ------------------------------
(***************************************************************************)
(* Sessions of one user in one browser: the panel's tabs                   *)
(* (frontend/src/api/client.js, stores/auth.js, router/index.js) and the   *)
(* rotating refresh tokens of the API (auth.service.ts, auth.controller).  *)
(*                                                                         *)
(* Pairs of an access and a refresh token are numbered as they are issued. *)
(* The tabs share the refresh cookie and localStorage; each has an access  *)
(* token of its own in memory.  A call that is answered 401 starts a       *)
(* refresh, or waits for the one its tab is at (`refreshing').  Calls that *)
(* the guard lets through change nothing here and are left out.            *)
(***************************************************************************)
EXTENDS Integers, FiniteSets

CONSTANTS
    Tabs,
    Calls,      \* slots for calls of the tabs,
    TabOf,      \* and the tab each belongs to
    MaxTokens,  \* bound: pairs that are issued
    MaxFaults,  \* bound: answers that are lost, and disabling of the user
    None

ASSUME SessionsAssumption ==
    /\ MaxTokens \in Nat \ {0} /\ MaxFaults \in Nat
    /\ TabOf \in [Calls -> Tabs]
    /\ None \notin Nat \cup Tabs \cup {"get", "me", "login", "logout"}

VARIABLES
    issued,    \* pairs issued so far
    live,      \* refresh:<jti> keys in redis
    active,    \* isActive of the user
    cookie,    \* mcp_refresh
    stored,    \* localStorage mcp_token is there and has not expired
    tab,       \* the tabs
    call,      \* call[c]: what call c is at
    taken,     \* history: tabs that have used up the cookie's token, and None when a
               \* logout or time has
    left,      \* history: good tokens the browser lost or replaced
    ended,     \* history: logged out, with nothing under way
    faults     \* history: how often an answer was lost or the user disabled

serverVars == <<issued, live, active>>
histVars   == <<taken, left, ended, faults>>
vars       == <<serverVars, cookie, stored, tab, call, histVars>>

\* A pair may come of it.
Busy(q) == q.op # "logout" /\ q.pc \in {"verify", "del", "set", "answer"}

\* A call: what for (None, "get", "me", "login" or "logout"), how far ("denied": 401 is on
\* its way; "waits" for the refresh; "verify", "del", "set": in refresh(), logout() or
\* login(); "answer"), the cookie it carries, the pair that answers it, and whether the
\* access token of that has not expired.
NoCall == [op |-> None, pc |-> "idle", key |-> None, new |-> None, good |-> FALSE]

\* A tab: its page ("login", "loading" or "app"), and whether it has an access token that
\* has not expired.
Closed == [page |-> "login", token |-> FALSE]

Init ==
    /\ issued = 0 /\ live = {} /\ active = TRUE
    /\ cookie = None /\ stored = FALSE
    /\ tab = [t \in Tabs |-> Closed]
    /\ call = [c \in Calls |-> NoCall]
    /\ taken = {}
    /\ left = {} /\ ended = FALSE /\ faults = 0

At(c, op, pc) == call[c].op = op /\ call[c].pc = pc
Refreshes(c)  == call[c].op \in {"get", "me"}
Sets(c, q)    == call' = [call EXCEPT ![c] = q]
Go(c, pc)     == Sets(c, [call[c] EXCEPT !.pc = pc])

\* The calls of the tab of c.
Beside(c) == {d \in Calls : TabOf[d] = TabOf[c]}

\* An answer is lost, or the user disabled.
Fault == faults < MaxFaults /\ faults' = faults + 1

\* The bound is reached: nothing more is issued, and the call is lost.
Lost(c) == IF call[c].pc = "set" /\ issued = MaxTokens THEN faults' = MaxFaults + 1 ELSE Fault

\* setAccessToken(), on a page.
Shows(t, page, good) ==
    tab' = [tab EXCEPT ![t] = [page |-> page, token |-> good]] /\ stored' = good

----------------------------------------------------------------------------
(* Calls of a tab.                                                         *)

\* A request of a page that AuthGuard will refuse: it accepts a signed access token that
\* has not expired, and does not read the user.
SendCall(c) ==
    /\ tab[TabOf[c]].page = "app" /\ call[c].pc = "idle"
    /\ ~tab[TabOf[c]].token
    /\ Sets(c, [NoCall EXCEPT !.op = "get", !.pc = "denied"])
    /\ UNCHANGED <<serverVars, cookie, stored, tab, histVars>>

\* The panel is opened, or reloaded: the token is read from localStorage, and the router
\* has fetchMe() ask for the user.
OpenPanel(c) ==
    /\ \A d \in Beside(c) : call[d].pc = "idle"
    /\ \/ /\ stored
          /\ Shows(TabOf[c], "app", stored)
          /\ UNCHANGED <<call, faults>>
       \/ /\ \/ ~stored /\ UNCHANGED faults
             \/ Fault
          /\ Shows(TabOf[c], "loading", stored)
          /\ Sets(c, [NoCall EXCEPT !.op = "me", !.pc = "denied"])
    /\ UNCHANGED <<serverVars, cookie, taken, left, ended>>

\* Mutant of Refreshing: every call refreshes on its own.
RefreshingNone(c) == FALSE

\* `refreshing' of the tab of c.
Refreshing(c) == \E d \in Beside(c) : call[d].op = "get" /\ Busy(call[d])

\* 401: POST /auth/refresh with the cookie, but one for all calls of the tab.  fetchMe(),
\* which does so after any failure, asks for one itself.
CallDenied(c) ==
    /\ Refreshes(c) /\ call[c].pc = "denied"
    /\ IF call[c].op = "get" /\ Refreshing(c)
       THEN Go(c, "waits")
       ELSE Sets(c, [call[c] EXCEPT !.pc = "verify", !.key = cookie])
    /\ UNCHANGED <<serverVars, cookie, stored, tab, histVars>>

----------------------------------------------------------------------------
(* Refresh.                                                                *)

\* A failed refresh: the interceptor loads the login page anew, and the calls of the tab
\* are gone with the old one; fetchMe() drops its user.
RefreshFailed(c) ==
    /\ Shows(TabOf[c], "login", FALSE)
    /\ left' = left \cup (live \cap {call[d].new : d \in Beside(c)})
    /\ call' = [d \in Calls |-> IF d \in Beside(c) THEN NoCall ELSE call[d]]

\* The key is looked up; 401 when it is gone.
VerifyKey(c) ==
    LET j == call[c].key
    IN  /\ Refreshes(c) /\ call[c].pc = "verify"
        /\ IF j \in live
           THEN /\ taken' = IF j = cookie THEN taken \cup {TabOf[c]} ELSE taken
                /\ Go(c, "del")
                /\ UNCHANGED <<tab, stored, left>>
           ELSE RefreshFailed(c) /\ UNCHANGED taken
        /\ UNCHANGED <<serverVars, cookie, ended, faults>>

\* Mutant of Revoked: the old key stays.
RevokedNot(j) == live

\* redis.del, which does not look at whether the key was still there.
Revoked(j) == live \ {j}

Revoke(j) == live' = Revoked(j) /\ left' = left \cap live'

DeleteKey(c) ==
    /\ Refreshes(c) /\ call[c].pc = "del"
    /\ Revoke(call[c].key)
    /\ Go(c, "set")
    /\ UNCHANGED <<issued, active, cookie, stored, tab, taken, ended, faults>>

\* The user is read, 401 when disabled; issueTokens() stores the new key.  A disabling in
\* between would be found by the next refresh.
IssuePair(c) ==
    /\ call[c].pc = "set"
    /\ IF Refreshes(c) /\ ~active
       THEN RefreshFailed(c) /\ UNCHANGED <<issued, live>>
       ELSE /\ issued < MaxTokens
            /\ issued' = issued + 1
            /\ live' = live \cup {issued + 1}
            /\ Sets(c, [call[c] EXCEPT !.pc = "answer", !.new = issued + 1, !.good = TRUE])
            /\ UNCHANGED <<tab, stored, left>>
    /\ UNCHANGED <<active, cookie, taken, ended, faults>>

\* The cookie becomes j, and what is left of another session it stood for.
NewCookie(q, j) ==
    /\ cookie' = j /\ taken' = {}
    /\ left' = left \cup ((live \cap {cookie}) \ {q.key})

\* The calls that go on after the refresh of c, and are repeated once.
Resumed(c) == {c} \cup {d \in Beside(c) : call[d].pc = "waits"}

\* The new pair arrives, also at a tab that has logged out meanwhile.  fetchMe() asks once
\* more and gives up when it is refused or not answered.
RefreshAnswered(c) ==
    LET q == call[c]
        page == tab[TabOf[c]].page
    IN  /\ Refreshes(c) /\ q.pc = "answer"
        /\ NewCookie(q, q.new)
        /\ \/ q.op = "get" /\ Shows(TabOf[c], page, q.good) /\ UNCHANGED faults
           \/ q.op = "me" /\ q.good /\ Shows(TabOf[c], "app", q.good) /\ UNCHANGED faults
           \/ /\ q.op = "me" /\ Shows(TabOf[c], "login", FALSE)
              /\ \/ ~q.good /\ UNCHANGED faults
                 \/ Fault
        /\ call' = [d \in Calls |-> IF d \in Resumed(c) THEN NoCall ELSE call[d]]
        /\ UNCHANGED <<serverVars, ended>>

\* The connection or the API fails at any point of it.
RefreshLost(c) ==
    /\ Refreshes(c) /\ Busy(call[c])
    /\ RefreshFailed(c)
    /\ Lost(c)
    /\ UNCHANGED <<serverVars, cookie, taken, ended>>

----------------------------------------------------------------------------
(* Login and logout.                                                       *)

\* The form is sent once at a time, and the credentials are right (see Login):
\* completeLogin() issues a pair.
SendLogin(c) ==
    /\ tab[TabOf[c]].page = "login" /\ call[c].pc = "idle" /\ active
    /\ \A d \in Beside(c) : call[d].op # "login"
    /\ Sets(c, [NoCall EXCEPT !.op = "login", !.pc = "set"])
    /\ ended' = FALSE
    /\ UNCHANGED <<serverVars, cookie, stored, tab, taken, left, faults>>

LoginAnswered(c) ==
    /\ At(c, "login", "answer")
    /\ NewCookie(call[c], call[c].new)
    /\ Shows(TabOf[c], "app", call[c].good)
    /\ Sets(c, NoCall)
    /\ UNCHANGED <<serverVars, ended, faults>>

LoginLost(c) ==
    /\ call[c].op = "login"
    /\ left' = left \cup (live \cap {call[c].new})
    /\ Sets(c, NoCall)
    /\ Lost(c)
    /\ UNCHANGED <<serverVars, cookie, stored, tab, taken, ended>>

\* POST /auth/logout is behind the guard, and its 401 is not followed by a refresh.
SendLogout(c) ==
    /\ tab[TabOf[c]].page = "app" /\ call[c].pc = "idle"
    /\ \A d \in Beside(c) : call[d].op # "logout"
    /\ Sets(c, [NoCall EXCEPT !.op = "logout", !.key = cookie,
                              !.pc = IF tab[TabOf[c]].token THEN "del" ELSE "denied"])
    /\ UNCHANGED <<serverVars, cookie, stored, tab, histVars>>

RevokeKey(c) ==
    /\ At(c, "logout", "del")
    /\ Revoke(call[c].key)
    /\ taken' = IF call[c].key = cookie THEN taken \cup {None} ELSE taken
    /\ Go(c, "answer")
    /\ UNCHANGED <<issued, active, cookie, stored, tab, ended, faults>>

\* Mutant of Cleared: the cookie is left to the browser.
ClearedNot == cookie

\* res.clearCookie
Cleared == None

\* Mutant of LoggedOut: the token is forgotten in memory only.
LoggedOutInMemory(c) ==
    /\ tab' = [tab EXCEPT ![TabOf[c]] = Closed]
    /\ Sets(c, NoCall)
    /\ UNCHANGED stored

\* The tab forgets its token and shows the login page.
LoggedOut(c) == Shows(TabOf[c], "login", FALSE) /\ Sets(c, NoCall)

LogoutAnswered(c) ==
    /\ At(c, "logout", "answer")
    /\ NewCookie(call[c], Cleared)
    /\ ended' = \A d \in Calls : ~Busy(call[d])
    /\ LoggedOut(c)
    /\ UNCHANGED <<serverVars, faults>>

\* After a 401 all the same; the key and the cookie stay.
LogoutRefused(c) ==
    /\ At(c, "logout", "denied")
    /\ LoggedOut(c)
    /\ UNCHANGED <<serverVars, cookie, histVars>>

LogoutLost(c) ==
    /\ call[c].op = "logout"
    /\ LoggedOut(c)
    /\ Fault
    /\ UNCHANGED <<serverVars, cookie, taken, left, ended>>

----------------------------------------------------------------------------
(* Time and the administrator.                                             *)

\* All access tokens issued so far expire: a later pair outlives an earlier one only if it
\* is issued after that.
AccessExpires ==
    /\ stored' = FALSE
    /\ tab' = [t \in Tabs |-> [tab[t] EXCEPT !.token = FALSE]]
    /\ call' = [c \in Calls |-> [call[c] EXCEPT !.good = FALSE]]
    /\ UNCHANGED <<serverVars, cookie, histVars>>

\* That of another pair changes nothing for the browser.
RefreshExpires ==
    /\ cookie \in live
    /\ live' = live \ {cookie} /\ left' = left \ {cookie} /\ taken' = taken \cup {None}
    /\ UNCHANGED <<issued, active, cookie, stored, tab, call, ended, faults>>

DisableUser ==
    /\ active /\ active' = FALSE
    /\ Fault
    /\ UNCHANGED <<issued, live, cookie, stored, tab, call, taken, left, ended>>

Next ==
    \/ \E c \in Calls :
          \/ SendCall(c) \/ OpenPanel(c) \/ CallDenied(c)
          \/ VerifyKey(c) \/ DeleteKey(c) \/ IssuePair(c) \/ RefreshAnswered(c) \/ RefreshLost(c)
          \/ SendLogin(c) \/ LoginAnswered(c) \/ LoginLost(c)
          \/ SendLogout(c) \/ RevokeKey(c) \/ LogoutAnswered(c) \/ LogoutRefused(c) \/ LogoutLost(c)
    \/ AccessExpires \/ RefreshExpires \/ DisableUser

Spec == Init /\ [][Next]_vars

----------------------------------------------------------------------------
(* Properties.                                                             *)

\* A refresh token that is good is the browser's, or on its way to it: "Rotating refresh:
\* old jti is revoked" (auth.service.ts:159).  Others stay good, until they expire, only
\* when their answer was lost or when another login or an overlapping refresh of another
\* tab replaced the cookie.
NoStrayTokens ==
    live \subseteq {cookie} \cup left \cup {call[c].new : c \in Calls}

\* A tab is thrown to the login page by a refused refresh only if another tab has
\* refreshed with the same cookie before, or the session was logged out, cut off
\* or disabled: the calls of one tab never take the session from each other.
SessionKept ==
    [][\A c \in Calls :
          VerifyKey(c) /\ call'[c].pc = "idle" /\ call[c].key # None
          => faults > 0 \/ call[c].key # cookie \/ taken \ {TabOf[c]} # {}]_vars

\* After a logout that the API has answered, if no refresh or login was under way and until
\* the next login, the browser has nothing to get an access token with: no cookie, no token
\* in localStorage, and no refresh token is good but those it had lost or replaced before.
LogoutEnds == ended => cookie = None /\ ~stored /\ live \subseteq left

\* That is so and stays so: after such a logout, whatever answers were under way and however
\* often pages are opened or reloaded, no tab comes to an access token or to a page of the
\* panel that did not have it at the logout.  Another tab that has them keeps its page, and the
\* access token in its memory until that expires.
LogoutLasts ==
    [][/\ LogoutEnds'
       /\ ended /\ ended' =>
              \A t \in Tabs : /\ tab'[t].token => tab[t].token
                             /\ tab'[t].page = "app" => tab[t].page = "app"]_vars
=============================================================================
