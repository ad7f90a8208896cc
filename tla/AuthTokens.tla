------------------------------- MODULE AuthTokens -------------------------------
(***************************************************************************)
(* The session of one user in several browser tabs: the tokens of           *)
(* lib/api.ts, the refresh token rows of services/auth_service.py, the      *)
(* dashboard guard, the login page, the sign-out button and the token       *)
(* exchange of hooks/useWebSocket.ts.  Every tab keeps its own tokens in    *)
(* memory; localStorage is shared.  A promise's continuations run in the    *)
(* microtasks after it settles, so they belong to the settling step.        *)
(***************************************************************************)
EXTENDS Naturals, FiniteSets

CONSTANTS
  Tab,        \* browser tabs
  MaxToken,   \* refresh tokens ever issued; a server that would issue more fails instead
  Callers,    \* the tabs whose pages call api()
  Sockets,    \* the tabs whose useWebSocket hook is modelled
  Expiring,   \* bound: the refresh tokens whose seven days may pass
  MaxOrphans, \* refresh requests of unloaded pages still on their way to the server
  Faults      \* may requests be lost or answered by the proxy with an error?

ASSUME AuthAssumption ==
  /\ MaxToken \in Nat \ {0} /\ MaxOrphans \in Nat
  /\ Callers \subseteq Tab /\ Sockets \subseteq Tab /\ Expiring \subseteq 1..MaxToken
  /\ Faults \in BOOLEAN

VARIABLES
  tab,      \* the page of every tab
  stored,   \* localStorage 'refresh_token'
  row,      \* the refresh_tokens table
  family,   \* refresh_tokens.family_id
  expired,  \* the tokens whose expires_at has passed
  orphans,  \* tokens in refresh requests whose page is gone
  broken    \* history: a refresh was lost, or rotated with nobody left to hear it

vars == <<tab, stored, row, family, expired, orphans, broken>>
serverVars == <<row, family, expired>>

Token == 1..MaxToken
None == 0                       \* null
NoPromise == [state |-> "none", token |-> None]

\* refreshPromise: "sent" with the token presented, "ok" with the token received,
\* "lapsed" if it was refused because that token had expired.
Promise == [state : {"none", "sent", "ok", "refused", "lapsed"}, token : Token \cup {None}]

\* call is one api() call whose header the server refuses: on its way, or waiting for
\* the refresh; one that is accepted changes nothing.  hook is the connect() and
\* openSocket() of the socket: "waiting" and "renewing" await a refresh, for a ticket
\* and after a refused one; "quit" returned for want of a refresh; "stray" was
\* unmounted, its ticket request, which will be refused, still on its way.
Page == [page    : {"closed", "loading", "login", "leaving", "dashboard"},
         access  : {"none", "valid", "expired"},
         mem     : Token \cup {None},
         promise : Promise,
         booting : BOOLEAN,             \* authReady has not resolved
         call    : {"none", "refused", "waiting"},
         hook    : {"off", "due", "accepted", "refused", "waiting", "socket",
                    "renewing", "quit", "stray"},
         lapsed  : BOOLEAN,             \* history: the dashboard lost its tokens as they had expired
         signing : Token \cup {None}]   \* the login reply on its way

Blank == [page |-> "closed", access |-> "none", mem |-> None, promise |-> NoPromise,
          booting |-> FALSE, call |-> "none", hook |-> "off", lapsed |-> FALSE,
          signing |-> None]

TypeOK ==
  /\ tab \in [Tab -> Page]
  /\ stored \in Token \cup {None}
  /\ row \in [Token -> {"none", "valid", "revoked"}]   \* none: never issued, or deleted
  /\ family \in [Token -> Token \cup {None}]
  /\ expired \subseteq Token /\ orphans \subseteq Token
  /\ broken \in BOOLEAN

Init ==
  /\ tab = [t \in Tab |-> Blank]
  /\ stored = None
  /\ row = [x \in Token |-> "none"]
  /\ family = [x \in Token |-> None]
  /\ expired = {} /\ orphans = {}
  /\ broken = FALSE

-----------------------------------------------------------------------------
(* The server.                                                                *)

\* Tokens are numbered in the order of their issue.
IsNext(x) == family[x] = None /\ \A y \in 1..(x - 1) : family[y] # None
NewToken == CHOOSE x \in Token : IsNext(x)
CanIssue == \E x \in Token : IsNext(x)

Issue(rows, fam) ==
  /\ row' = [rows EXCEPT ![NewToken] = "valid"]
  /\ family' = [family EXCEPT ![NewToken] = fam]
  /\ UNCHANGED expired

\* Seven days after its issue a token expires: an older one before a younger one, and
\* the access token of its page long before it.
Outlive(k) ==
  /\ k \in Expiring /\ row[k] = "valid" /\ k \notin expired
  /\ \A x \in 1..(k - 1) : row[x] = "valid" => x \in expired
  /\ \A t \in Callers \cup Sockets : tab[t].mem = k => tab[t].access # "valid"
  /\ expired' = expired \cup {k}
  /\ UNCHANGED <<tab, stored, row, family, orphans, broken>>

Rotates_Reissue(k) == row[k] # "none" /\ CanIssue    \* mutant: revoked tokens rotate too
\* UPDATE ... WHERE revoked = FALSE AND expires_at > now() RETURNING finds the row.
Rotates(k) == row[k] = "valid" /\ k \notin expired /\ CanIssue

Rotate_KeepOld(k) ==            \* mutant: the old token stays valid
  IF Rotates(k) THEN Issue(row, family[k]) ELSE UNCHANGED serverVars
\* It revokes the presented token, and a new one joins its family.  The reuse branch
\* changes nothing: its UPDATE binds a parameter the statement does not have, and
\* get_db rolls the transaction back on the exception.
Rotate(k) ==
  IF Rotates(k) THEN Issue([row EXCEPT ![k] = "revoked"], family[k]) ELSE UNCHANGED serverVars

\* login: cleanup_expired_tokens deletes the revoked and the expired rows, and a new
\* family begins.
IssueLogin ==
  Issue([x \in Token |-> IF row[x] = "revoked" \/ x \in expired THEN "none" ELSE row[x]], NewToken)

-----------------------------------------------------------------------------
(* lib/api.ts on the page of one tab, as functions of the page.               *)

Saved_First(k) == IF stored = None THEN k ELSE stored   \* mutant: only the first one is written
Saved(k) == k                     \* localStorage.setItem in setTokens
WithTokens(p, k) == [p EXCEPT !.access = "valid", !.mem = k, !.lapsed = FALSE]
Cleared_Undefined(p) ==           \* mutant: undefined where every caller tests for null
  [p EXCEPT !.access = "undefined", !.mem = None]
Cleared(p) == [p EXCEPT !.access = "none", !.mem = None]

\* getStoredRefreshToken
StoredOf(p) == IF p.mem # None THEN p.mem ELSE stored

AskRefresh_NoSingleFlight(p) ==      \* mutant: a pending promise is not shared
  [p EXCEPT !.promise = [state |-> "sent", token |-> StoredOf(p)]]
\* refreshAccessToken and the start of _doRefresh; the caller knows a token exists.
AskRefresh(p) ==
  IF p.promise.state # "none" THEN p
  ELSE [p EXCEPT !.promise = [state |-> "sent", token |-> StoredOf(p)]]
CanRefresh(p) == p.promise.state # "none" \/ StoredOf(p) # None

Header(p) == IF p.access = "valid" THEN "accepted" ELSE "refused"

\* A document is loaded: authReady starts a refresh if localStorage holds a token.
\* The dashboard guard waits for it, "/" and /login do not.
Loaded(p, page, kept) ==
  IF kept = None THEN [Blank EXCEPT !.page = "login"]
  ELSE [Blank EXCEPT !.page = IF page = "/dashboard" THEN "loading" ELSE "login",
                     !.promise = [state |-> "sent", token |-> kept], !.booting = TRUE]

\* What unloading a page leaves behind: a request on its way, or an unheard answer.
Unload(p) ==
  /\ orphans' = IF p.promise.state = "sent" THEN orphans \cup {p.promise.token} ELSE orphans
  /\ broken' = (broken \/ p.promise.state = "ok")
MayUnload(p) == p.promise.state = "sent" => Cardinality(orphans) < MaxOrphans

\* api() ends in 401: clearTokens and window.location.href = '/login'.
Ejected(p) == Loaded(p, "/login", None)

\* The guard of /dashboard lets the page in, and DashboardLayout mounts the hook.
Entered(t, p) == IF p.access = "none" THEN [p EXCEPT !.page = "login"]
                 ELSE [p EXCEPT !.page = "dashboard", !.hook = IF t \in Sockets THEN "due" ELSE "off"]

Load(t, page) ==
  /\ MayUnload(tab[t])
  /\ tab' = [tab EXCEPT ![t] = Loaded(tab[t], page, stored)]
  /\ Unload(tab[t])
  /\ UNCHANGED <<stored, serverVars>>

\* The proactive timer fires, or the tab becomes visible late in the token's life.
TimedRefresh(t) ==
  /\ tab[t].access # "none"
  /\ tab[t].promise.state = "none"
  /\ tab' = [tab EXCEPT ![t] = AskRefresh(@)]
  /\ UNCHANGED <<stored, serverVars, orphans, broken>>

Expire(t) ==
  /\ t \in Callers \cup Sockets     \* nobody else looks at the difference
  /\ tab[t].access = "valid"
  /\ tab' = [tab EXCEPT ![t].access = "expired"]
  /\ UNCHANGED <<stored, serverVars, orphans, broken>>

\* POST /api/auth/refresh at the server.
ServeRefresh(t) ==
  LET k == tab[t].promise.token IN
  /\ tab[t].promise.state = "sent"
  /\ Rotate(k)
  /\ tab' = [tab EXCEPT ![t].promise =
       IF Rotates(k) THEN [state |-> "ok", token |-> NewToken]
       ELSE [state |-> IF k \in expired THEN "lapsed" ELSE "refused", token |-> None]]
  /\ broken' = (broken \/ (row[k] = "valid" /\ k \notin expired /\ ~CanIssue))
  /\ UNCHANGED <<stored, orphans>>

ServeOrphan(k) ==
  /\ orphans' = orphans \ {k}
  /\ Rotate(k)
  /\ broken' = (broken \/ Rotates(k))
  /\ UNCHANGED <<tab, stored>>

\* The request or its answer is lost: _doRefresh treats it as a refusal.
LoseRefresh(t) ==
  /\ Faults
  /\ tab[t].promise.state \in {"sent", "ok"}
  /\ tab' = [tab EXCEPT ![t].promise = [state |-> "refused", token |-> None]]
  /\ broken' = TRUE
  /\ UNCHANGED <<stored, serverVars, orphans>>

Resumed_GuardForgotten(t, p) ==  \* mutant: authReady stays pending after a refusal
  IF p.call = "waiting" /\ p.access = "none" THEN Ejected(p)
  ELSE LET q == [p EXCEPT !.call = IF @ = "waiting" THEN "none" ELSE @]
       IN  IF p.page = "loading" /\ p.access # "none" THEN Entered(t, q) ELSE q
\* Everyone who awaits refreshPromise, after it resolved to p.access # "none".
Resumed(t, p) ==
  LET ok == p.access # "none" IN
  IF p.call = "waiting" /\ ~ok THEN Ejected(p)
  ELSE LET q == [p EXCEPT !.call = IF @ = "waiting" THEN "none" ELSE @,
                          !.hook = CASE @ \notin {"waiting", "renewing"} -> @
                                     [] @ = "waiting" /\ ok  -> "accepted"
                                     [] @ = "renewing" /\ ok -> "due"
                                     [] OTHER                -> "quit",
                          !.booting = FALSE]
       IN  IF p.page = "loading" THEN Entered(t, q) ELSE q

\* The dashboard is about to lose its tokens because they had expired.
Lapses(p) == p.page = "dashboard" /\ p.promise.state = "lapsed"

\* The answer reaches _doRefresh: setTokens or clearTokens, refreshPromise = null.
RefreshSettles(t) ==
  LET p == tab[t]  q == [p EXCEPT !.promise = NoPromise] IN
  /\ p.promise.state \in {"ok", "refused", "lapsed"}
  /\ IF p.promise.state = "ok"
       THEN /\ tab' = [tab EXCEPT ![t] = Resumed(t, WithTokens(q, p.promise.token))]
            /\ stored' = Saved(p.promise.token)
       ELSE /\ tab' = [tab EXCEPT ![t] = Resumed(t, [Cleared(q) EXCEPT !.lapsed = Lapses(p)])]
            /\ stored' = None
  /\ UNCHANGED <<serverVars, orphans, broken>>

-----------------------------------------------------------------------------
(* One api() call of a page.                                                  *)

Call(t) ==
  /\ t \in Callers
  /\ tab[t].page = "dashboard" /\ tab[t].call = "none" /\ Header(tab[t]) = "refused"
  /\ tab' = [tab EXCEPT ![t].call = "refused"]
  /\ UNCHANGED <<stored, serverVars, orphans, broken>>

\* Any status but 401, or a network error: the caller has its result.
CallReturns(t) ==
  /\ Faults /\ tab[t].call = "refused"
  /\ tab' = [tab EXCEPT ![t].call = "none"]
  /\ UNCHANGED <<stored, serverVars, orphans, broken>>

\* 401 with an access token in memory: refresh and try once more.
CallRefreshes(t) ==
  /\ tab[t].call = "refused" /\ tab[t].access # "none"
  /\ tab' = [tab EXCEPT ![t] = [AskRefresh(@) EXCEPT !.call = "waiting"]]
  /\ UNCHANGED <<stored, serverVars, orphans, broken>>

\* 401 with none: to the login page.
CallEjects(t) ==
  /\ tab[t].call = "refused" /\ tab[t].access = "none"
  /\ MayUnload(tab[t])
  /\ tab' = [tab EXCEPT ![t] = Ejected(@)]
  /\ stored' = None
  /\ Unload(tab[t])
  /\ UNCHANGED serverVars

-----------------------------------------------------------------------------
(* hooks/useWebSocket.ts.                                                     *)

\* connect(): ask for a ticket, or first for an access token.
Connect(t) ==
  LET p == tab[t] IN
  /\ p.hook = "due"
  /\ tab' = [tab EXCEPT ![t] =
       IF p.access # "none" THEN [p EXCEPT !.hook = Header(p)]
       ELSE IF CanRefresh(p) THEN [AskRefresh(p) EXCEPT !.hook = "waiting"]
       ELSE [p EXCEPT !.hook = "quit"]]
  /\ UNCHANGED <<stored, serverVars, orphans, broken>>

TicketRefused_GiveUp(t) ==    \* mutant: no refresh before the retry
  /\ tab[t].hook = "refused"
  /\ tab' = [tab EXCEPT ![t].hook = "quit"]
  /\ UNCHANGED <<stored, serverVars, orphans, broken>>
\* 401: refresh (if any token is left to present) and try once more.
TicketRefused(t) ==
  LET p == tab[t] IN
  /\ p.hook = "refused"
  /\ tab' = [tab EXCEPT ![t] =
       IF CanRefresh(p) THEN [AskRefresh(p) EXCEPT !.hook = "waiting"] ELSE [p EXCEPT !.hook = "quit"]]
  /\ UNCHANGED <<stored, serverVars, orphans, broken>>

\* An error status ends the hook for good; a network error schedules connect().
TicketFails(t) ==
  /\ Faults
  /\ tab[t].hook \in {"accepted", "refused"}
  /\ \E end \in {"off", "due"} : tab' = [tab EXCEPT ![t].hook = end]
  /\ UNCHANGED <<stored, serverVars, orphans, broken>>

\* The 401 reaches a hook that was unmounted meanwhile: it refreshes before it looks.
StrayRefused(t) ==
  LET p == tab[t] IN
  /\ p.hook = "stray"
  /\ tab' = [tab EXCEPT ![t] = [IF CanRefresh(p) THEN AskRefresh(p) ELSE p EXCEPT !.hook = "off"]]
  /\ UNCHANGED <<stored, serverVars, orphans, broken>>

StrayFails(t) ==
  /\ Faults /\ tab[t].hook = "stray"
  /\ tab' = [tab EXCEPT ![t].hook = "off"]
  /\ UNCHANGED <<stored, serverVars, orphans, broken>>

OpenSocket(t) ==
  /\ tab[t].hook = "accepted"
  /\ tab' = [tab EXCEPT ![t].hook = "socket"]
  /\ UNCHANGED <<stored, serverVars, orphans, broken>>

\* onclose with code 4001, the server's answer to a ticket that is used or too old:
\* refresh, and connect() again only if that succeeds.
SocketRefused(t) ==
  LET p == tab[t] IN
  /\ p.hook = "socket"
  /\ tab' = [tab EXCEPT ![t] =
       IF CanRefresh(p) THEN [AskRefresh(p) EXCEPT !.hook = "renewing"] ELSE [p EXCEPT !.hook = "quit"]]
  /\ UNCHANGED <<stored, serverVars, orphans, broken>>

\* onclose with any other code, of a socket that opened or never did: connect() after
\* a delay.
SocketCloses(t) ==
  /\ tab[t].hook = "socket"
  /\ tab' = [tab EXCEPT ![t].hook = "due"]
  /\ UNCHANGED <<stored, serverVars, orphans, broken>>

-----------------------------------------------------------------------------
(* The login page and the sign-out button.                                    *)

\* handleSubmit up to the server: the right password.
ServeLogin(t) ==
  /\ tab[t].page = "login" /\ tab[t].signing = None
  /\ CanIssue
  /\ IssueLogin
  /\ tab' = [tab EXCEPT ![t].signing = NewToken]
  /\ UNCHANGED <<stored, orphans, broken>>

\* The reply: setTokens, and the glitch animation before navigate().
LoginArrives(t) ==
  LET p == tab[t] IN
  /\ p.page = "login" /\ p.signing # None
  /\ tab' = [tab EXCEPT ![t] = [WithTokens(p, p.signing) EXCEPT !.signing = None, !.page = "leaving"]]
  /\ stored' = Saved(p.signing)
  /\ UNCHANGED <<serverVars, orphans, broken>>

\* navigate() to the dashboard, whose guard awaits authReady.
Navigate(t) ==
  /\ tab[t].page = "leaving"
  /\ tab' = [tab EXCEPT ![t] = IF @.booting THEN [@ EXCEPT !.page = "loading"] ELSE Entered(t, @)]
  /\ UNCHANGED <<stored, serverVars, orphans, broken>>

\* handleLogout: a refresh, a call or a ticket request in flight goes on.
SignOut(t) ==
  /\ tab[t].page = "dashboard"
  /\ tab' = [tab EXCEPT ![t] = [Cleared(@) EXCEPT !.page = "login", !.lapsed = FALSE,
                                   !.hook = IF tab[t].hook = "refused" THEN "stray" ELSE "off"]]
  /\ stored' = None
  /\ UNCHANGED <<serverVars, orphans, broken>>

-----------------------------------------------------------------------------
Browser(t) ==
  \/ RefreshSettles(t) \/ CallReturns(t) \/ CallRefreshes(t) \/ CallEjects(t)
  \/ Connect(t) \/ TicketRefused(t) \/ StrayRefused(t) \/ OpenSocket(t) \/ LoginArrives(t) \/ Navigate(t)

Environment(t) ==
  \/ \E page \in {"/", "/dashboard"} : Load(t, page)
  \/ TimedRefresh(t) \/ Expire(t) \/ LoseRefresh(t) \/ TicketFails(t) \/ StrayFails(t)
  \/ SocketRefused(t) \/ SocketCloses(t) \/ Call(t) \/ ServeLogin(t) \/ SignOut(t)

Next ==
  \/ \E t \in Tab : ServeRefresh(t) \/ Browser(t) \/ Environment(t)
  \/ \E k \in orphans : ServeOrphan(k)
  \/ \E k \in Token : Outlive(k)

Spec == Init /\ [][Next]_vars

\* Replies arrive or fail, and a page's continuations run; the other tabs, and the
\* requests that unloaded pages left behind, may stall.
FairSpec ==
  /\ Spec
  /\ \A t \in Callers :
       /\ WF_vars(ServeRefresh(t) \/ RefreshSettles(t))
       /\ WF_vars(CallReturns(t) \/ CallRefreshes(t) \/ CallEjects(t))

-----------------------------------------------------------------------------
(* Properties.                                                                *)

Open == {t \in Tab : tab[t].page # "closed"}
Lone == Cardinality(Open) <= 1

\* Rotation is atomic (SES-03): whatever pages, lost answers and orphaned requests
\* present the same token, a family never has two usable tokens.
OneValidPerFamily ==
  \A x, y \in Token :
    row[x] = "valid" /\ row[y] = "valid" /\ family[x] = family[y] => x = y

\* Single flight (SES-05): as long as a user keeps to one tab and no refresh was cut
\* off by a reload or the network, a refresh is refused only because its token outlived
\* its seven days, whatever the order of timer, 401s, reconnects, sign-outs and logins:
\* never because the page presents a token twice.
LoneNeverRefused ==
  Lone /\ ~broken => \A t \in Tab : tab[t].promise.state # "refused"

\* With no refresh in flight and none ever cut off, the server accepts the token in
\* localStorage until it expires, even while several tabs rotate it and sign in and out.
StoredIsUsable ==
  ~broken /\ stored # None /\ (\A t \in Tab : tab[t].promise.state = "none")
    => row[stored] = "valid" \/ stored \in expired

\* Expired access tokens and refused tickets never cost a lone dashboard its socket: the
\* hook refreshes and retries (WSR-01), also after close code 4001.  It gives up only on
\* an error status (hook "off"), or when the page's refresh token had expired itself.
LoneKeepsSocket ==
  Lone /\ ~broken => \A t \in Tab : tab[t].hook = "quit" => tab[t].lapsed

\* The guard of /dashboard and every api() call that awaits a refresh go on: the
\* promise settles and its waiters are resumed, unless the user reloads for ever.
WaitersResume ==
  \A t \in Callers :
    <>[][\A page \in {"/", "/dashboard"} : ~Load(t, page)]_vars =>
      ((tab[t].page = "loading" \/ tab[t].call = "waiting")
         ~> (tab[t].page # "loading" /\ tab[t].call # "waiting"))

\* What the roadmap promises: nobody is signed out unexpectedly (before the seven days
\* are over), and rotation is safe against concurrent refreshes.  Refuted with two tabs.
NeverRefused == ~broken => \A t \in Tab : tab[t].promise.state # "refused"

\* Reuse of a rotated token revokes its family (SES-04).  Refuted by the bind error.
ReuseRevokesFamily ==
  [][\A t \in Tab : tab[t].promise.state = "sent" /\ tab'[t].promise.state = "refused"
       /\ row[tab[t].promise.token] = "revoked"
       => \A x \in Token : family'[x] = family[tab[t].promise.token] => row'[x] # "valid"]_vars
=============================================================================
