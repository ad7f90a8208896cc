--------------------------- MODULE AuthTokens_proofs ---------------------------
(***************************************************************************)
(* Proofs about AuthTokens, for any number of tabs and tokens: type         *)
(* correctness; that rotation never leaves two usable tokens in one family, *)
(* whatever is lost, orphaned, presented twice or signed out; that the      *)
(* token in localStorage is good until it expires unless a refresh is under *)
(* way or was cut off; that a lone tab is refused, and its socket given up, *)
(* only because a token expired; and that no request waits for a refresh    *)
(* its tab does not have.                                                   *)
(***************************************************************************)
EXTENDS AuthTokens, FiniteSetTheorems, TLAPS

USE DEF vars, serverVars, None

-----------------------------------------------------------------------------
(* A refresh presents a token, and a tab with an access token holds one.      *)

Holds(p) ==
  /\ p.access # "none" => p.mem \in Token
  /\ p.promise.state \in {"sent", "ok"} => p.promise.token \in Token

PageOK(p) == p \in Page /\ Holds(p)

\* The type invariant is not inductive: row[k] of a refresh needs its k.
TypeInv == TypeOK /\ \A t \in Tab : Holds(tab[t])

LEMMA NewTokenIsFree ==
  ASSUME CanIssue
  PROVE  NewToken \in Token /\ family[NewToken] = None
BY DEF CanIssue, NewToken, IsNext

\* Joining a promise or starting a refresh, with a token to present.
LEMMA AskRefreshOK ==
  ASSUME NEW p \in Page, Holds(p), CanRefresh(p), stored \in Token \cup {None}
  PROVE  PageOK(AskRefresh(p))
<1>1. CASE p.promise.state # "none"
  BY <1>1 DEF AskRefresh, PageOK
<1>2. CASE p.promise.state = "none"
  <2>1. StoredOf(p) \in Token
    BY <1>2 DEF CanRefresh, StoredOf, PageOK, Page
  <2>2. [state |-> "sent", token |-> StoredOf(p)] \in Promise
    BY <2>1 DEF Promise
  <2>3. QED  BY <1>2, <2>1, <2>2 DEF AskRefresh, PageOK, Page, Holds
<1>3. QED  BY <1>1, <1>2

\* Assigning one field of a page.
LEMMA SetAccess ==
  ASSUME NEW p \in Page, NEW a \in {"none", "valid", "expired"}
  PROVE  /\ [p EXCEPT !.access = a] \in Page
         /\ [p EXCEPT !.access = a].access = a
         /\ [p EXCEPT !.access = a].mem = p.mem
         /\ [p EXCEPT !.access = a].promise = p.promise
BY DEF Page

LEMMA SetMem ==
  ASSUME NEW p \in Page, NEW k \in Token \cup {None}
  PROVE  /\ [p EXCEPT !.mem = k] \in Page
         /\ [p EXCEPT !.mem = k].mem = k
         /\ [p EXCEPT !.mem = k].access = p.access
         /\ [p EXCEPT !.mem = k].promise = p.promise
BY DEF Page

LEMMA SetPromise ==
  ASSUME NEW p \in Page, NEW r \in Promise
  PROVE  /\ [p EXCEPT !.promise = r] \in Page
         /\ [p EXCEPT !.promise = r].promise = r
         /\ [p EXCEPT !.promise = r].access = p.access
         /\ [p EXCEPT !.promise = r].mem = p.mem
BY DEF Page

Hooks == {"off", "due", "accepted", "refused", "waiting", "socket", "renewing", "quit", "stray"}

\* The other fields do not touch the tokens.
LEMMA SetRest ==
  ASSUME NEW p, PageOK(p)
  PROVE  /\ \A v \in {"closed", "loading", "login", "leaving", "dashboard"} :
              PageOK([p EXCEPT !.page = v])
         /\ \A v \in BOOLEAN : PageOK([p EXCEPT !.booting = v])
         /\ \A v \in {"none", "refused", "waiting"} : PageOK([p EXCEPT !.call = v])
         /\ \A v \in Hooks : PageOK([p EXCEPT !.hook = v])
         /\ \A v \in BOOLEAN : PageOK([p EXCEPT !.lapsed = v])
         /\ \A v \in Token \cup {None} : PageOK([p EXCEPT !.signing = v])
<1>1. ASSUME NEW v \in {"closed", "loading", "login", "leaving", "dashboard"}
      PROVE  PageOK([p EXCEPT !.page = v])
  BY DEF PageOK, Page, Holds
<1>2. ASSUME NEW v \in BOOLEAN  PROVE  PageOK([p EXCEPT !.booting = v])
  BY DEF PageOK, Page, Holds
<1>3. ASSUME NEW v \in {"none", "refused", "waiting"}
      PROVE  PageOK([p EXCEPT !.call = v])
  BY DEF PageOK, Page, Holds
<1>4. ASSUME NEW v \in Hooks  PROVE  PageOK([p EXCEPT !.hook = v])
  BY DEF PageOK, Page, Holds, Hooks
<1>5. ASSUME NEW v \in Token \cup {None}  PROVE  PageOK([p EXCEPT !.signing = v])
  BY DEF PageOK, Page, Holds
<1>6. ASSUME NEW v \in BOOLEAN  PROVE  PageOK([p EXCEPT !.lapsed = v])
  BY DEF PageOK, Page, Holds
<1>7. QED  BY <1>1, <1>2, <1>3, <1>4, <1>5, <1>6

LEMMA WithTokensOK ==
  ASSUME NEW p \in Page, Holds(p), NEW k \in Token
  PROVE  PageOK(WithTokens(p, k))
<1> DEFINE q == [p EXCEPT !.access = "valid"]
           r == [q EXCEPT !.mem = k]
<1>1. WithTokens(p, k) = [r EXCEPT !.lapsed = FALSE]
  BY DEF WithTokens
<1>2. q \in Page /\ q.promise = p.promise
  BY SetAccess
<1> HIDE DEF q
<1>3. r \in Page /\ r.mem = k /\ r.promise = p.promise
  BY <1>2, SetMem
<1>4. PageOK(r)
  BY <1>3 DEF PageOK, Holds
<1> HIDE DEF r
<1>5. QED  BY <1>1, <1>4, SetRest

LEMMA ClearedOK ==
  ASSUME NEW p \in Page, Holds(p)
  PROVE  PageOK(Cleared(p))
<1> DEFINE q == [p EXCEPT !.access = "none"]
<1>1. Cleared(p) = [q EXCEPT !.mem = None]
  BY DEF Cleared
<1>2. q \in Page /\ q.promise = p.promise /\ q.access = "none"
  BY SetAccess
<1> HIDE DEF q
<1>3. [q EXCEPT !.mem = None] \in Page /\ [q EXCEPT !.mem = None].access = "none"
        /\ [q EXCEPT !.mem = None].promise = p.promise
  BY <1>2, SetMem
<1>4. QED  BY <1>1, <1>3 DEF PageOK, Holds

LEMMA LoadedOK ==
  ASSUME NEW p, NEW page, NEW kept \in Token \cup {None}
  PROVE  PageOK(Loaded(p, page, kept))
BY DEF Loaded, Blank, NoPromise, PageOK, Page, Promise, Holds

LEMMA EnteredOK ==
  ASSUME NEW t, NEW p \in Page, Holds(p)
  PROVE  PageOK(Entered(t, p))
BY DEF Entered, PageOK, Page, Holds, Promise

\* What a settled refresh makes of the hook.
NextHook(p) == IF p.hook \notin {"waiting", "renewing"} THEN p.hook
               ELSE IF p.access = "none" THEN "quit"
               ELSE IF p.hook = "waiting" THEN "accepted" ELSE "due"

Settled(p) == [p EXCEPT !.call = IF p.call = "waiting" THEN "none" ELSE p.call,
                        !.hook = NextHook(p), !.booting = FALSE]

LEMMA NextHookIs ==
  ASSUME NEW p \in Page
  PROVE  /\ NextHook(p) \in Hooks \ {"waiting", "renewing"}
         /\ NextHook(p) \in {"off", "stray"} => p.hook \in {"off", "stray"}
         /\ NextHook(p) \notin {"off", "stray"} => p.hook \notin {"off", "stray"}
         /\ NextHook(p) = "quit" => p.hook = "quit" \/ p.access = "none"
BY DEF NextHook, Hooks, Page

LEMMA ResumedIs ==
  ASSUME NEW t, NEW p \in Page, ~(p.call = "waiting" /\ p.access = "none")
  PROVE  Resumed(t, p) = IF p.page = "loading" THEN Entered(t, Settled(p)) ELSE Settled(p)
<1> DEFINE h == CASE p.hook \notin {"waiting", "renewing"} -> p.hook
                  [] p.hook = "waiting" /\ p.access # "none" -> "accepted"
                  [] p.hook = "renewing" /\ p.access # "none" -> "due"
                  [] OTHER -> "quit"
<1>1. h = NextHook(p)
  BY DEF NextHook
<1> HIDE DEF h
<1>2. Resumed(t, p) = LET q == [p EXCEPT !.call = IF p.call = "waiting" THEN "none" ELSE p.call,
                                         !.hook = h, !.booting = FALSE]
                      IN  IF p.page = "loading" THEN Entered(t, q) ELSE q
  BY DEF Resumed, h
<1>3. QED  BY <1>1, <1>2 DEF Settled

LEMMA ResumedOK ==
  ASSUME NEW t, NEW p \in Page, Holds(p)
  PROVE  PageOK(Resumed(t, p))
<1>1. CASE p.call = "waiting" /\ p.access = "none"
  BY <1>1, LoadedOK DEF Resumed, Ejected
<1>2. CASE ~(p.call = "waiting" /\ p.access = "none")
  <2> DEFINE c == IF p.call = "waiting" THEN "none" ELSE p.call
             h == NextHook(p)
             q == Settled(p)
  <2>1. PageOK(q)
    <3> DEFINE p1 == [p EXCEPT !.call = c]
               p2 == [p1 EXCEPT !.hook = h]
    <3>1. q = [p2 EXCEPT !.booting = FALSE]
      BY DEF Settled
    <3>2. c \in {"none", "refused", "waiting"} /\ h \in Hooks
      BY NextHookIs DEF Page
    <3> HIDE DEF c, h, q
    <3>3. PageOK(p1)
      BY <3>2, SetRest DEF PageOK
    <3> HIDE DEF p1
    <3>4. PageOK(p2)
      BY <3>2, <3>3, SetRest
    <3> HIDE DEF p2
    <3>5. QED  BY <3>1, <3>4, SetRest
  <2>2. Resumed(t, p) = IF p.page = "loading" THEN Entered(t, q) ELSE q
    BY <1>2, ResumedIs
  <2> HIDE DEF q
  <2>3. CASE p.page = "loading"
    <3>1. PageOK(Entered(t, q))
      BY <2>1, EnteredOK DEF PageOK
    <3>2. QED  BY <2>2, <2>3, <3>1
  <2>4. QED  BY <2>1, <2>2, <2>3
<1>3. QED  BY <1>1, <1>2

-----------------------------------------------------------------------------
(* Type correctness, one lemma per part of the system.                        *)

\* One tab gets a new page.
LEMMA NewPage ==
  ASSUME TypeInv, NEW t \in Tab, NEW q, PageOK(q), tab' = [tab EXCEPT ![t] = q]
  PROVE  tab' \in [Tab -> Page] /\ \A u \in Tab : Holds(tab'[u])
BY DEF TypeInv, TypeOK, PageOK

\* The refresh_tokens table after a rotation.
LEMMA RotateType ==
  ASSUME TypeOK, NEW k \in Token, Rotate(k)
  PROVE  /\ row' \in [Token -> {"none", "valid", "revoked"}]
         /\ family' \in [Token -> Token \cup {None}]
         /\ expired' = expired
BY NewTokenIsFree DEF TypeOK, Rotate, Rotates, Issue

\* A request leaves its token behind only if it presents one.
LEMMA UnloadType ==
  ASSUME TypeInv, NEW t \in Tab, Unload(tab[t])
  PROVE  orphans' \subseteq Token /\ broken' \in BOOLEAN
BY DEF TypeInv, TypeOK, Unload, Holds

LEMMA PageHere ==
  ASSUME TypeInv, NEW t \in Tab
  PROVE  tab[t] \in Page /\ Holds(tab[t]) /\ PageOK(tab[t])
BY DEF TypeInv, TypeOK, PageOK

LEMMA ServerType ==
  ASSUME TypeInv, NEW t \in Tab, ServeRefresh(t) \/ ServeLogin(t)
  PROVE  TypeInv'
<1> PICK p \in Page : p = tab[t] /\ Holds(p)
  BY PageHere
<1>1. CASE ServeRefresh(t)
  <2>1. p.promise.token \in Token
    BY <1>1 DEF ServeRefresh, Holds
  <2>2. Rotate(p.promise.token)
    BY <1>1 DEF ServeRefresh
  <2>3. PICK r \in Promise : /\ tab' = [tab EXCEPT ![t] = [p EXCEPT !.promise = r]]
                             /\ r.state = "ok" => r.token \in Token
                             /\ r.state # "sent"
    <3>1. CASE Rotates(p.promise.token)
      <4>1. NewToken \in Token
        BY <3>1, NewTokenIsFree DEF Rotates
      <4>2. [state |-> "ok", token |-> NewToken] \in Promise
        BY <4>1 DEF Promise
      <4>3. QED  BY <1>1, <3>1, <4>1, <4>2 DEF ServeRefresh, TypeInv, TypeOK
    <3>2. CASE ~Rotates(p.promise.token)
      <4>1. PICK c \in {"refused", "lapsed"} :
              tab' = [tab EXCEPT ![t].promise = [state |-> c, token |-> None]]
        BY <1>1, <3>2 DEF ServeRefresh
      <4>2. [state |-> c, token |-> None] \in Promise
        BY DEF Promise
      <4>3. QED  BY <4>1, <4>2 DEF TypeInv, TypeOK
    <3>3. QED  BY <3>1, <3>2
  <2>4. PageOK([p EXCEPT !.promise = r])
    BY <2>3 DEF PageOK, Page, Holds
  <2>5. tab' \in [Tab -> Page] /\ \A u \in Tab : Holds(tab'[u])
    BY <2>3, <2>4, NewPage
  <2>6. QED  BY <1>1, <2>1, <2>2, <2>5, RotateType DEF ServeRefresh, TypeInv, TypeOK
<1>2. CASE ServeLogin(t)
  <2>1. NewToken \in Token
    BY <1>2, NewTokenIsFree DEF ServeLogin
  <2>2. PageOK([p EXCEPT !.signing = NewToken])
    BY <2>1 DEF PageOK, Page, Holds
  <2>3. tab' = [tab EXCEPT ![t] = [p EXCEPT !.signing = NewToken]]
    BY <1>2 DEF ServeLogin
  <2>4. tab' \in [Tab -> Page] /\ \A u \in Tab : Holds(tab'[u])
    BY <2>2, <2>3, NewPage
  <2>5. QED  BY <1>2, <2>1, <2>4 DEF ServeLogin, IssueLogin, Issue, TypeInv, TypeOK
<1>3. QED  BY <1>1, <1>2

\* An action that changes one page and leaves the tables alone.
LEMMA OnePage ==
  ASSUME TypeInv, NEW t \in Tab, NEW q, PageOK(q), tab' = [tab EXCEPT ![t] = q],
         stored' \in Token \cup {None}, orphans' \subseteq Token, broken' \in BOOLEAN,
         UNCHANGED serverVars
  PROVE  TypeInv'
<1>1. tab' \in [Tab -> Page] /\ \A u \in Tab : Holds(tab'[u])
  BY NewPage
<1>2. QED  BY <1>1 DEF TypeInv, TypeOK

\* The steps of useWebSocket.ts: the hook moves on, or joins a refresh.
HookStep(t) ==
  \/ Connect(t) \/ TicketRefused(t) \/ StrayRefused(t) \/ OpenSocket(t)
  \/ TicketFails(t) \/ StrayFails(t) \/ SocketRefused(t) \/ SocketCloses(t)

Moved(t, h) ==
  /\ h \in Hooks \ {"waiting", "renewing"}
  /\ h # "off" => tab[t].hook # "stray"
  /\ h = "quit" => ~CanRefresh(tab[t])
  /\ tab' = [tab EXCEPT ![t] = [tab[t] EXCEPT !.hook = h]]

Joined(t, h) ==
  /\ h \in {"off", "waiting", "renewing"}
  /\ h # "off" => tab[t].hook # "stray"
  /\ CanRefresh(tab[t])
  /\ tab' = [tab EXCEPT ![t] = [AskRefresh(tab[t]) EXCEPT !.hook = h]]

LEMMA HookMoves ==
  ASSUME TypeInv, NEW t \in Tab, HookStep(t)
  PROVE  /\ UNCHANGED <<stored, serverVars, orphans, broken>>
         /\ tab[t].hook # "off"
         /\ \E h \in Hooks : Moved(t, h) \/ Joined(t, h)
<1> PICK p \in Page : p = tab[t]
  BY PageHere
<1>1. CASE Connect(t)
  BY <1>1, Zenon DEF Connect, Header, Moved, Joined, Hooks
<1>2. CASE TicketRefused(t)
  BY <1>2, Zenon DEF TicketRefused, Moved, Joined, Hooks
<1>3. CASE StrayRefused(t)
  <2>1. CASE CanRefresh(p)
    BY <1>3, <2>1, Zenon DEF StrayRefused, Joined, Hooks
  <2>2. CASE ~CanRefresh(p)
    BY <1>3, <2>2, Zenon DEF StrayRefused, Moved, Hooks
  <2>3. QED  BY <2>1, <2>2, <1>3 DEF StrayRefused
<1>4. CASE SocketRefused(t)
  BY <1>4, Zenon DEF SocketRefused, Moved, Joined, Hooks
<1>5. CASE OpenSocket(t) \/ TicketFails(t) \/ StrayFails(t) \/ SocketCloses(t)
  BY <1>5, Zenon DEF OpenSocket, TicketFails, StrayFails, SocketCloses, Moved, Hooks
<1>6. QED  BY <1>1, <1>2, <1>3, <1>4, <1>5 DEF HookStep

\* What Resumed gets from a refresh that has settled.
SettledOK(t, p, w) ==
  /\ p.promise.token \in Token
  /\ w.mem = p.promise.token /\ w.access = "valid" /\ stored' = p.promise.token
SettledBad(t, p, w) ==
  /\ w.mem = None /\ w.access = "none" /\ stored' = None
  /\ w.lapsed = Lapses(p)

LEMMA Settles ==
  ASSUME TypeInv, NEW t \in Tab, RefreshSettles(t)
  PROVE  /\ UNCHANGED <<serverVars, orphans, broken>>
         /\ tab[t].promise.state \in {"ok", "refused", "lapsed"}
         /\ \E w \in Page :
              /\ Holds(w) /\ tab' = [tab EXCEPT ![t] = Resumed(t, w)]
              /\ w.promise = NoPromise /\ w.signing = tab[t].signing
              /\ w.hook = tab[t].hook /\ w.page = tab[t].page
              /\ IF tab[t].promise.state = "ok" THEN SettledOK(t, tab[t], w) ELSE SettledBad(t, tab[t], w)
<1> PICK p \in Page : p = tab[t] /\ Holds(p) /\ PageOK(p)
  BY PageHere
<1>1. PICK q : q = [p EXCEPT !.promise = NoPromise]
  OBVIOUS
<1>2. q \in Page /\ Holds(q) /\ q.promise = NoPromise /\ q.signing = p.signing /\ q.hook = p.hook /\ q.page = p.page
  <2>1. NoPromise \in Promise /\ NoPromise.state = "none"
    BY DEF NoPromise, Promise
  <2>2. QED  BY <1>1, <2>1 DEF Page, Holds
<1>3. UNCHANGED <<serverVars, orphans, broken>> /\ p.promise.state \in {"ok", "refused", "lapsed"}
  BY DEF RefreshSettles
<1>4. CASE p.promise.state = "ok"
  <2>1. p.promise.token \in Token
    BY <1>4 DEF Holds
  <2> PICK w : w = WithTokens(q, p.promise.token)
    OBVIOUS
  <2>2. w \in Page /\ Holds(w)
    BY <1>2, <2>1, WithTokensOK DEF PageOK
  <2>3. /\ w.promise = NoPromise /\ w.signing = p.signing /\ w.hook = p.hook /\ w.page = p.page
        /\ w.mem = p.promise.token /\ w.access = "valid"
    BY <1>2 DEF WithTokens, Page
  <2>4. tab' = [tab EXCEPT ![t] = Resumed(t, w)] /\ stored' = p.promise.token
    BY <1>1, <1>4 DEF RefreshSettles, Saved
  <2>5. QED  BY <1>3, <1>4, <2>1, <2>2, <2>3, <2>4 DEF SettledOK
<1>5. CASE p.promise.state # "ok"
  <2> PICK b \in BOOLEAN : b = Lapses(p)
    BY DEF Lapses
  <2> PICK c : c = Cleared(q)
    OBVIOUS
  <2> PICK w : w = [c EXCEPT !.lapsed = b]
    OBVIOUS
  <2>1. PageOK(c) /\ c \in Page
    BY <1>2, ClearedOK DEF PageOK
  <2>2. w \in Page /\ Holds(w)
    BY <2>1, SetRest DEF PageOK
  <2>3. /\ c.promise = NoPromise /\ c.signing = p.signing /\ c.hook = p.hook /\ c.page = p.page
        /\ c.mem = None /\ c.access = "none"
    BY <1>2 DEF Cleared, Page
  <2>4. /\ w.promise = NoPromise /\ w.signing = p.signing /\ w.hook = p.hook /\ w.page = p.page
        /\ w.mem = None /\ w.access = "none" /\ w.lapsed = b
    BY <2>1, <2>3 DEF Page
  <2>5. tab' = [tab EXCEPT ![t] = Resumed(t, w)] /\ stored' = None
    BY <1>1, <1>5 DEF RefreshSettles
  <2>6. QED  BY <1>3, <1>5, <2>2, <2>4, <2>5 DEF SettledBad
<1>6. QED  BY <1>4, <1>5

LEMMA HookType ==
  ASSUME TypeInv, NEW t \in Tab, HookStep(t)
  PROVE  TypeInv'
<1> PICK p \in Page : p = tab[t] /\ Holds(p) /\ PageOK(p)
  BY PageHere
<1>0. /\ stored' \in Token \cup {None} /\ orphans' \subseteq Token /\ broken' \in BOOLEAN
      /\ UNCHANGED serverVars /\ stored \in Token \cup {None}
  BY HookMoves DEF TypeInv, TypeOK
<1> PICK h \in Hooks : Moved(t, h) \/ Joined(t, h)
  BY HookMoves
<1>1. CASE Moved(t, h)
  <2>1. PageOK([p EXCEPT !.hook = h])
    BY SetRest
  <2>2. tab' = [tab EXCEPT ![t] = [p EXCEPT !.hook = h]]
    BY <1>1 DEF Moved
  <2>3. QED  BY <1>0, <2>1, <2>2, OnePage
<1>2. CASE Joined(t, h)
  <2>1. PICK q : q = AskRefresh(p) /\ PageOK(q)
    BY <1>0, <1>2, AskRefreshOK DEF Joined
  <2>2. PageOK([q EXCEPT !.hook = h])
    BY <2>1, SetRest
  <2>3. tab' = [tab EXCEPT ![t] = [q EXCEPT !.hook = h]]
    BY <1>2, <2>1 DEF Joined
  <2>4. QED  BY <1>0, <2>2, <2>3, OnePage
<1>3. QED  BY <1>1, <1>2

LEMMA BrowserType ==
  ASSUME TypeInv, NEW t \in Tab, Browser(t)
  PROVE  TypeInv'
<1> PICK p \in Page : p = tab[t] /\ Holds(p) /\ PageOK(p)
  BY PageHere
<1>0. stored \in Token \cup {None} /\ orphans \subseteq Token /\ broken \in BOOLEAN
  BY DEF TypeInv, TypeOK
<1>1. CASE RefreshSettles(t)
  <2> PICK w \in Page : Holds(w) /\ tab' = [tab EXCEPT ![t] = Resumed(t, w)] /\ stored' \in Token \cup {None}
    BY <1>1, Settles DEF SettledOK, SettledBad
  <2>1. PageOK(Resumed(t, w))
    BY ResumedOK
  <2>2. UNCHANGED <<serverVars, orphans, broken>>
    BY <1>1, Settles
  <2>3. QED  BY <1>0, <2>1, <2>2, OnePage
<1>2. CASE CallReturns(t)
  <2>1. PageOK([p EXCEPT !.call = "none"])
    BY DEF PageOK, Page, Holds
  <2>2. tab' = [tab EXCEPT ![t] = [p EXCEPT !.call = "none"]]
    BY <1>2 DEF CallReturns
  <2>3. QED  BY <1>0, <1>2, <2>1, <2>2, OnePage DEF CallReturns
<1>3. CASE CallRefreshes(t)
  <2>1. CanRefresh(p)
    BY <1>3 DEF CallRefreshes, CanRefresh, StoredOf, Holds, AuthAssumption, Token
  <2>2. PICK q \in Page : q = AskRefresh(p) /\ Holds(q)
    BY <1>0, <2>1, AskRefreshOK DEF PageOK
  <2>3. PageOK([q EXCEPT !.call = "waiting"])
    BY <2>2 DEF PageOK, Page, Holds
  <2>4. tab' = [tab EXCEPT ![t] = [q EXCEPT !.call = "waiting"]]
    BY <1>3, <2>2 DEF CallRefreshes
  <2>5. QED  BY <1>0, <1>3, <2>3, <2>4, OnePage DEF CallRefreshes
<1>4. CASE CallEjects(t)
  <2>1. PageOK(Ejected(p))
    BY LoadedOK DEF Ejected
  <2>2. tab' = [tab EXCEPT ![t] = Ejected(p)] /\ stored' = None
    BY <1>4 DEF CallEjects
  <2>3. orphans' \subseteq Token /\ broken' \in BOOLEAN
    BY <1>4, UnloadType DEF CallEjects
  <2>4. QED  BY <1>4, <2>1, <2>2, <2>3, OnePage DEF CallEjects
<1>5. CASE HookStep(t)
  BY <1>5, HookType
<1>7. CASE LoginArrives(t)
  <2>1. p.signing \in Token
    BY <1>7 DEF LoginArrives, Page
  <2>2. PageOK([WithTokens(p, p.signing) EXCEPT !.signing = None, !.page = "leaving"])
    <3> DEFINE q == WithTokens(p, p.signing)
               r == [q EXCEPT !.signing = None]
    <3>1. PageOK(q)
      BY <2>1, WithTokensOK
    <3> HIDE DEF q
    <3>2. PageOK(r)
      BY <3>1, SetRest
    <3>3. [q EXCEPT !.signing = None, !.page = "leaving"] = [r EXCEPT !.page = "leaving"]
      OBVIOUS
    <3> HIDE DEF r
    <3>4. PageOK([r EXCEPT !.page = "leaving"])
      BY <3>2, SetRest
    <3>5. QED  BY <3>3, <3>4 DEF q
  <2>3. /\ tab' = [tab EXCEPT ![t] = [WithTokens(p, p.signing) EXCEPT !.signing = None, !.page = "leaving"]]
        /\ stored' = p.signing
    BY <1>7 DEF LoginArrives, Saved
  <2>4. QED  BY <1>0, <1>7, <2>1, <2>2, <2>3, OnePage DEF LoginArrives
<1>8. CASE Navigate(t)
  <2>1. PageOK([p EXCEPT !.page = "loading"]) /\ PageOK(Entered(t, p))
    BY EnteredOK DEF PageOK, Page, Holds
  <2>2. PICK q : PageOK(q) /\ tab' = [tab EXCEPT ![t] = q]
    BY <1>8, <2>1 DEF Navigate
  <2>3. QED  BY <1>0, <1>8, <2>2, OnePage DEF Navigate
<1>9. QED
  BY <1>1, <1>2, <1>3, <1>4, <1>5, <1>7, <1>8 DEF Browser, HookStep

\* The page after the sign-out button.
SignedOut(p, h) == [Cleared(p) EXCEPT !.page = "login", !.lapsed = FALSE, !.hook = h]

LEMMA SignedOutIs ==
  ASSUME TypeInv, NEW t \in Tab, SignOut(t)
  PROVE  /\ tab' = [tab EXCEPT ![t] = SignedOut(tab[t], IF tab[t].hook = "refused" THEN "stray" ELSE "off")]
         /\ stored' = None /\ UNCHANGED <<serverVars, orphans, broken>>
BY DEF SignOut, SignedOut

LEMMA SignedOutOK ==
  ASSUME NEW p \in Page, Holds(p), NEW h \in Hooks
  PROVE  /\ PageOK(SignedOut(p, h))
         /\ SignedOut(p, h).page = "login" /\ SignedOut(p, h).hook = h
         /\ SignedOut(p, h).mem = None /\ SignedOut(p, h).access = "none"
         /\ SignedOut(p, h).promise = p.promise /\ SignedOut(p, h).signing = p.signing
         /\ SignedOut(p, h).booting = p.booting /\ SignedOut(p, h).call = p.call
<1> PICK q : q = Cleared(p)
  OBVIOUS
<1> DEFINE r == [q EXCEPT !.page = "login"]
           u == [r EXCEPT !.lapsed = FALSE]
<1>1. PageOK(q) /\ q \in Page
  BY ClearedOK DEF PageOK
<1>2. PageOK(r)
  BY <1>1, SetRest
<1> HIDE DEF r
<1>3. PageOK(u)
  BY <1>2, SetRest
<1> HIDE DEF u
<1>4. PageOK([u EXCEPT !.hook = h])
  BY <1>3, SetRest
<1>5. SignedOut(p, h) = [u EXCEPT !.hook = h]
  BY DEF SignedOut, u, r
<1>6. /\ q.mem = None /\ q.access = "none" /\ q.promise = p.promise /\ q.signing = p.signing
      /\ q.booting = p.booting /\ q.call = p.call
  BY DEF Cleared, Page
<1>7. QED  BY <1>1, <1>4, <1>5, <1>6 DEF SignedOut, Page, PageOK

LEMMA EnvironmentType ==
  ASSUME TypeInv, NEW t \in Tab, Environment(t)
  PROVE  TypeInv'
<1> PICK p \in Page : p = tab[t] /\ Holds(p) /\ PageOK(p)
  BY PageHere
<1>0. stored \in Token \cup {None} /\ orphans \subseteq Token /\ broken \in BOOLEAN
  BY DEF TypeInv, TypeOK
<1>1. ASSUME NEW page, Load(t, page)
      PROVE  TypeInv'
  <2>1. PageOK(Loaded(p, page, stored))
    BY <1>0, LoadedOK
  <2>2. tab' = [tab EXCEPT ![t] = Loaded(p, page, stored)]
    BY <1>1 DEF Load
  <2>3. orphans' \subseteq Token /\ broken' \in BOOLEAN
    BY <1>1, UnloadType DEF Load
  <2>4. QED  BY <1>0, <1>1, <2>1, <2>2, <2>3, OnePage DEF Load
<1>2. CASE TimedRefresh(t)
  <2>1. CanRefresh(p)
    BY <1>2 DEF TimedRefresh, CanRefresh, StoredOf, Holds, AuthAssumption, Token
  <2>2. PageOK(AskRefresh(p)) /\ tab' = [tab EXCEPT ![t] = AskRefresh(p)]
    BY <1>0, <1>2, <2>1, AskRefreshOK DEF TimedRefresh
  <2>3. QED  BY <1>0, <1>2, <2>2, OnePage DEF TimedRefresh
<1>3. CASE Expire(t)
  <2>1. PageOK([p EXCEPT !.access = "expired"])
    BY <1>3 DEF Expire, PageOK, Page, Holds
  <2>2. tab' = [tab EXCEPT ![t] = [p EXCEPT !.access = "expired"]]
    BY <1>3 DEF Expire
  <2>3. QED  BY <1>0, <1>3, <2>1, <2>2, OnePage DEF Expire
<1>4. CASE LoseRefresh(t)
  <2>1. PICK r \in Promise : r = [state |-> "refused", token |-> None]
    BY DEF Promise
  <2>2. PageOK([p EXCEPT !.promise = r])
    BY <2>1 DEF PageOK, Page, Holds
  <2>3. tab' = [tab EXCEPT ![t] = [p EXCEPT !.promise = r]]
    BY <1>4, <2>1 DEF LoseRefresh
  <2>4. QED  BY <1>0, <1>4, <2>2, <2>3, OnePage DEF LoseRefresh
<1>5. CASE HookStep(t)
  BY <1>5, HookType
<1>6. CASE Call(t)
  <2>1. tab' = [tab EXCEPT ![t] = [p EXCEPT !.call = "refused"]]
    BY <1>6 DEF Call
  <2>2. PageOK([p EXCEPT !.call = "refused"])
    BY SetRest
  <2>3. QED  BY <1>0, <1>6, <2>1, <2>2, OnePage DEF Call
<1>7. CASE SignOut(t)
  <2> PICK h \in Hooks : h = IF p.hook = "refused" THEN "stray" ELSE "off"
    BY DEF Hooks
  <2>1. tab' = [tab EXCEPT ![t] = SignedOut(p, h)] /\ stored' = None
    BY <1>7, SignedOutIs
  <2>2. PageOK(SignedOut(p, h))
    BY SignedOutOK
  <2>3. QED  BY <1>0, <1>7, <2>1, <2>2, OnePage DEF SignOut
<1>8. QED
  BY <1>1, <1>2, <1>3, <1>4, <1>5, <1>6, <1>7, ServerType DEF Environment, HookStep

LEMMA OrphanType ==
  ASSUME TypeInv, NEW k \in orphans, ServeOrphan(k)
  PROVE  TypeInv'
<1>1. k \in Token
  BY DEF TypeInv, TypeOK
<1>2. Rotate(k) /\ TypeOK
  BY DEF ServeOrphan, TypeInv
<1>3. broken' \in BOOLEAN
  BY DEF ServeOrphan, TypeInv, TypeOK
<1>4. QED  BY <1>1, <1>2, <1>3, RotateType DEF ServeOrphan, TypeInv, TypeOK

LEMMA OutliveType ==
  ASSUME TypeInv, NEW k \in Token, Outlive(k)
  PROVE  TypeInv'
BY DEF Outlive, TypeInv, TypeOK

LEMMA TypeNext == TypeInv /\ [Next]_vars => TypeInv'
<1> SUFFICES ASSUME TypeInv, [Next]_vars
             PROVE  TypeInv'
  OBVIOUS
<1>1. CASE UNCHANGED vars
  BY <1>1 DEF TypeInv, TypeOK
<1>2. CASE Next
  BY <1>2, ServerType, BrowserType, EnvironmentType, OrphanType, OutliveType DEF Next
<1>3. QED  BY <1>1, <1>2

LEMMA TypeInit == Init => TypeInv
<1>1. Blank \in Page /\ Holds(Blank)
  BY DEF Blank, NoPromise, Page, Promise, Holds
<1>2. QED  BY <1>1 DEF Init, TypeInv, TypeOK

\* Every variable keeps its type; in particular every refresh request presents a
\* token the server issued (lib/api.ts, _doRefresh).
THEOREM TypeCorrect == Spec => []TypeOK
<1>1. TypeInv => TypeOK
  BY DEF TypeInv
<1>2. QED  BY <1>1, TypeInit, TypeNext, PTL DEF Spec

-----------------------------------------------------------------------------
(* Families.  A token's family is named after the token of a login, so a     *)
(* token not yet issued names no family: that is what a new login relies on. *)

FamilyInv ==
  /\ \A x \in Token : family[x] = None => row[x] = "none" /\ x \notin expired
  /\ \A x \in Token : family[x] # None => family[family[x]] # None
  /\ OneValidPerFamily

\* A rotation replaces the valid token of its family.
LEMMA RotateFamily ==
  ASSUME TypeInv, FamilyInv, NEW k \in Token, Rotate(k)
  PROVE  FamilyInv'
<1>1. CASE UNCHANGED serverVars
  BY <1>1 DEF FamilyInv, OneValidPerFamily
<1>2. CASE Rotates(k) /\ Issue([row EXCEPT ![k] = "revoked"], family[k])
  <2> PICK n \in Token : n = NewToken /\ family[n] = None
    BY <1>2, NewTokenIsFree DEF Rotates
  <2>1. /\ row \in [Token -> {"none", "valid", "revoked"}]
        /\ family \in [Token -> Token \cup {None}]
        /\ row[k] = "valid" /\ row[n] = "none" /\ n # k
        /\ family[k] \in Token /\ family[k] # None
    BY <1>2 DEF TypeInv, TypeOK, FamilyInv, Rotates
  <2>2. /\ row' = [[row EXCEPT ![k] = "revoked"] EXCEPT ![n] = "valid"]
        /\ family' = [family EXCEPT ![n] = family[k]]
    BY <1>2 DEF Issue
  <2>3. \A x \in Token : family'[x] = IF x = n THEN family[k] ELSE family[x]
    BY <2>1, <2>2
  <2>4. \A x \in Token : row'[x] = IF x = n THEN "valid" ELSE IF x = k THEN "revoked" ELSE row[x]
    BY <2>1, <2>2
  <2>5. \A x \in Token : family'[x] = None => row'[x] = "none" /\ x \notin expired'
    BY <1>2, <2>1, <2>3, <2>4 DEF FamilyInv, Issue
  <2>6. \A x \in Token : family'[x] # None => family'[family'[x]] # None
    BY <2>1, <2>3 DEF FamilyInv, TypeInv, TypeOK
  <2>7. \A x \in Token : row[x] = "valid" /\ family[x] = family[k] => x = k
    BY <2>1 DEF FamilyInv, OneValidPerFamily
  <2>8. OneValidPerFamily'
    BY <2>1, <2>3, <2>4, <2>7 DEF FamilyInv, OneValidPerFamily
  <2>9. QED  BY <2>5, <2>6, <2>8 DEF FamilyInv
<1>3. QED  BY <1>1, <1>2 DEF Rotate

\* A login starts a family no token has.
LEMMA LoginFamily ==
  ASSUME TypeInv, FamilyInv, CanIssue, IssueLogin
  PROVE  FamilyInv'
<1> PICK n \in Token : n = NewToken /\ family[n] = None
  BY NewTokenIsFree
<1>1. /\ row \in [Token -> {"none", "valid", "revoked"}]
      /\ family \in [Token -> Token \cup {None}]
      /\ n # None
  BY DEF TypeInv, TypeOK, Token
<1>2. \A x \in Token : family'[x] = IF x = n THEN n ELSE family[x]
  BY <1>1 DEF IssueLogin, Issue
<1>3. \A x \in Token : row'[x] = IF x = n THEN "valid" ELSE IF row[x] = "revoked" \/ x \in expired THEN "none" ELSE row[x]
  BY <1>1 DEF IssueLogin, Issue
<1>4. \A x \in Token : family[x] # n
  BY <1>1 DEF FamilyInv
<1>5. \A x \in Token : family'[x] = None => row'[x] = "none" /\ x \notin expired'
  BY <1>1, <1>2, <1>3 DEF FamilyInv, IssueLogin, Issue
<1>6. \A x \in Token : family'[x] # None => family'[family'[x]] # None
  BY <1>1, <1>2 DEF FamilyInv
<1>7. OneValidPerFamily'
  BY <1>1, <1>2, <1>3, <1>4 DEF FamilyInv, OneValidPerFamily
<1>8. QED  BY <1>5, <1>6, <1>7 DEF FamilyInv

LEMMA FamilyNext == TypeInv /\ FamilyInv /\ [Next]_vars => FamilyInv'
<1> SUFFICES ASSUME TypeInv, FamilyInv, [Next]_vars
             PROVE  FamilyInv'
  OBVIOUS
<1>1. ASSUME UNCHANGED serverVars
      PROVE  FamilyInv'
  BY <1>1 DEF FamilyInv, OneValidPerFamily
<1>2. ASSUME NEW t \in Tab, ServeRefresh(t)
      PROVE  FamilyInv'
  <2>1. tab[t].promise.token \in Token /\ Rotate(tab[t].promise.token)
    BY <1>2 DEF ServeRefresh, TypeInv, Holds
  <2>2. QED  BY <2>1, RotateFamily
<1>3. ASSUME NEW t \in Tab, Browser(t)
      PROVE  FamilyInv'
  <2>1. CASE HookStep(t)
    BY <1>1, <2>1, HookMoves
  <2>2. QED
    BY <1>1, <1>3, <2>1 DEF Browser, HookStep, RefreshSettles, CallReturns, CallRefreshes, CallEjects,
                            LoginArrives, Navigate
<1>4. ASSUME NEW t \in Tab, Environment(t)
      PROVE  FamilyInv'
  <2>1. CASE ServeLogin(t)
    BY <2>1, LoginFamily DEF ServeLogin
  <2>2. CASE HookStep(t)
    BY <1>1, <2>2, HookMoves
  <2>3. QED
    BY <1>1, <1>4, <2>1, <2>2 DEF Environment, HookStep, Load, TimedRefresh, Expire, LoseRefresh, Call,
                                  SignOut
<1>5. ASSUME NEW k \in orphans, ServeOrphan(k)
      PROVE  FamilyInv'
  <2>1. k \in Token /\ Rotate(k)
    BY <1>5 DEF ServeOrphan, TypeInv, TypeOK
  <2>2. QED  BY <2>1, RotateFamily
<1>6. ASSUME NEW k \in Token, Outlive(k)
      PROVE  FamilyInv'
  <2>1. row' = row /\ family' = family /\ expired' = expired \cup {k} /\ row[k] = "valid"
    BY <1>6 DEF Outlive
  <2>2. QED  BY <2>1 DEF FamilyInv, OneValidPerFamily
<1>7. QED  BY <1>1, <1>2, <1>3, <1>4, <1>5, <1>6 DEF Next

LEMMA FamilyInit == Init => FamilyInv
BY DEF Init, FamilyInv, OneValidPerFamily

\* SES-03: rotation is atomic, and no family ever has two usable tokens, for any
\* number of tabs, requests presented twice, lost answers and logins
\* (auth_service.py, rotate_refresh_token).
THEOREM OneValid == Spec => []OneValidPerFamily
<1>1. FamilyInv => OneValidPerFamily
  BY DEF FamilyInv
<1>2. QED  BY <1>1, TypeInit, TypeNext, FamilyInit, FamilyNext, PTL DEF Spec

-----------------------------------------------------------------------------
(* The stored token.  A token the server has issued and nobody has heard of is *)
(* known to the one tab it is on its way to, so nothing but its arrival can    *)
(* put it into the storage, and nothing can use it up before.                 *)

Asked(p) == IF p.promise.state = "sent" THEN p.promise.token ELSE None
Heard(p) == IF p.promise.state = "ok" THEN p.promise.token ELSE None

\* Somebody may present k.
Public(k) == k = stored \/ k \in orphans \/ \E t \in Tab : k = tab[t].mem \/ k = Asked(tab[t])

\* The server accepts k, or would if it had not expired.
Good(k) == row[k] = "valid" \/ k \in expired

Hidden(k) == k # None => k \in Token /\ Good(k) /\ ~Public(k)

Secrets ==
  /\ \A k \in Token : Public(k) => family[k] # None
  /\ \A t \in Tab : Hidden(Heard(tab[t])) /\ Hidden(tab[t].signing)
  /\ \A t, u \in Tab :
       /\ Heard(tab[t]) # None /\ Heard(tab[t]) = Heard(tab[u]) => t = u
       /\ tab[t].signing # None /\ tab[t].signing = tab[u].signing => t = u
       /\ Heard(tab[t]) # None => Heard(tab[t]) # tab[u].signing

\* A stored token that is used up is about to be replaced.
Replaced ==
  ~broken /\ stored # None /\ ~Good(stored) => \E t \in Tab : Heard(tab[t]) # None

StoredInv == Secrets /\ Replaced

\* What a page that issues and reveals nothing makes of its tokens.
Within(p, q) ==
  /\ q.mem \in {None, p.mem} /\ q.signing \in {None, p.signing}
  /\ Heard(q) \in {None, Heard(p)} /\ Asked(q) \in {None, Asked(p), p.mem, stored}

SameTokens(p, q) == q.mem = p.mem /\ q.signing = p.signing /\ q.promise = p.promise

LEMMA SameIsWithin ==
  ASSUME NEW p, NEW q, SameTokens(p, q)
  PROVE  Within(p, q) /\ Heard(q) = Heard(p)
BY DEF SameTokens, Within, Heard, Asked

\* A page forgets tokens, presents one, or is replaced by one that does.
LEMMA Shrink ==
  ASSUME TypeInv, StoredInv, NEW t \in Tab, NEW q, tab' = [tab EXCEPT ![t] = q],
         Within(tab[t], q), UNCHANGED serverVars, stored' \in {None, stored},
         orphans' \subseteq orphans \cup {Asked(tab[t])}, broken => broken',
         stored' = None \/ broken' \/ Heard(q) = Heard(tab[t])
  PROVE  StoredInv'
<1>1. tab'[t] = q /\ \A u \in Tab \ {t} : tab'[u] = tab[u]
  BY DEF TypeInv, TypeOK
<1>2. \A u \in Tab : Heard(tab'[u]) \in {None, Heard(tab[u])} /\ tab'[u].signing \in {None, tab[u].signing}
  BY <1>1 DEF Within
<1>3. \A k \in Token : Public(k)' => Public(k)
  <2> SUFFICES ASSUME NEW k \in Token, Public(k)'
               PROVE  Public(k)
    OBVIOUS
  <2>0. k # None
    BY DEF Token
  <2>1. CASE k = stored' \/ k \in orphans'
    BY <2>0, <2>1 DEF Public
  <2>2. ASSUME NEW u \in Tab, k = tab'[u].mem \/ k = Asked(tab'[u])
        PROVE  Public(k)
    BY <2>0, <2>2, <1>1 DEF Public, Within
  <2>3. QED  BY <2>1, <2>2 DEF Public
<1>4. Secrets'
  <2>1. \A k \in Token : Public(k)' => family'[k] # None
    BY <1>3 DEF StoredInv, Secrets
  <2>2. \A u \in Tab : Hidden(Heard(tab[u]))' /\ Hidden(tab[u].signing)'
    BY <1>2, <1>3 DEF StoredInv, Secrets, Hidden, Good
  <2>3. QED  BY <1>2, <2>1, <2>2 DEF StoredInv, Secrets
<1>5. Replaced'
  <2>1. CASE Heard(q) = Heard(tab[t])
    BY <1>1, <2>1 DEF StoredInv, Replaced, Good
  <2>2. QED  BY <2>1 DEF Replaced
<1>6. QED  BY <1>4, <1>5 DEF StoredInv

\* A token on its way arrives: it is stored, and still good.
LEMMA Reveal ==
  ASSUME TypeInv, FamilyInv, StoredInv, NEW t \in Tab, NEW q, tab' = [tab EXCEPT ![t] = q],
         NEW k \in Token, stored' = k, q.mem = k, Asked(q) \in {None, Asked(tab[t])},
         \/ Heard(tab[t]) = k /\ Heard(q) = None /\ q.signing = tab[t].signing
         \/ tab[t].signing = k /\ q.signing = None /\ Heard(q) = Heard(tab[t]),
         UNCHANGED <<serverVars, orphans>>
  PROVE  StoredInv'
<1>1. tab'[t] = q /\ \A u \in Tab \ {t} : tab'[u] = tab[u]
  BY DEF TypeInv, TypeOK
<1>2. k # None /\ Hidden(k) /\ Good(k) /\ family[k] # None
  <2>1. k # None
    BY DEF Token
  <2>2. Hidden(k)
    BY <2>1 DEF StoredInv, Secrets
  <2>3. QED  BY <2>1, <2>2 DEF Hidden, FamilyInv, Good
<1>3. \A j \in Token : Public(j)' => Public(j) \/ j = k
  <2> SUFFICES ASSUME NEW j \in Token, Public(j)', j # k
               PROVE  Public(j)
    OBVIOUS
  <2>1. j # None
    BY DEF Token
  <2>2. QED  BY <1>1, <2>1 DEF Public
<1>4. \A u \in Tab : Heard(tab'[u]) \in {None, Heard(tab[u])} /\ tab'[u].signing \in {None, tab[u].signing}
  BY <1>1
<1>5. \A u \in Tab : Heard(tab'[u]) # k /\ tab'[u].signing # k
  BY <1>1, <1>2 DEF StoredInv, Secrets
<1>6. Secrets'
  <2>1. \A j \in Token : Public(j)' => family'[j] # None
    BY <1>2, <1>3 DEF StoredInv, Secrets
  <2>2. \A u \in Tab : Hidden(Heard(tab[u]))' /\ Hidden(tab[u].signing)'
    BY <1>3, <1>4, <1>5 DEF StoredInv, Secrets, Hidden, Good
  <2>3. QED  BY <1>4, <2>1, <2>2 DEF StoredInv, Secrets
<1>7. Replaced'
  BY <1>2 DEF Replaced, Good
<1>8. QED  BY <1>6, <1>7 DEF StoredInv

\* A new token is on its way to at most one tab, and no hidden one is used up.
LEMMA Issued ==
  ASSUME TypeInv, FamilyInv, StoredInv, NEW n \in Token, family[n] = None,
         Good(n)', \A x \in Token \ {n} : family'[x] = family[x],
         \A x \in Token \ {n} : Good(x) /\ ~Public(x) => Good(x)',
         stored' = stored, orphans' \subseteq orphans, NEW t,
         \A u \in Tab : tab'[u].mem = tab[u].mem /\ Asked(tab'[u]) \in {None, Asked(tab[u])},
         \A u \in Tab : Heard(tab'[u]) = Heard(tab[u]) \/ (u = t /\ Heard(tab'[u]) = n),
         \A u \in Tab : tab'[u].signing = tab[u].signing \/ (u = t /\ tab'[u].signing = n),
         t \in Tab => Heard(tab'[t]) # n \/ tab'[t].signing # n,
         \/ broken' \/ \E u \in Tab : Heard(tab'[u]) # None
         \/ broken' = broken /\ \A x \in Token \ {n} : Good(x) => Good(x)'
  PROVE  StoredInv'
<1>1. n # None /\ ~Public(n)
  <2>1. n # None
    BY DEF Token
  <2>2. QED  BY <2>1 DEF StoredInv, Secrets
<1>2. \A u \in Tab : Heard(tab[u]) # n /\ tab[u].signing # n
  <2> SUFFICES ASSUME Good(n)
               PROVE  FALSE
    BY <1>1 DEF StoredInv, Secrets, Hidden
  <2>1. QED  BY DEF FamilyInv, Good
<1>3. \A k \in Token : Public(k)' => Public(k)
  <2> SUFFICES ASSUME NEW k \in Token, Public(k)'
               PROVE  Public(k)
    OBVIOUS
  <2>1. k # None
    BY DEF Token
  <2>2. QED  BY <2>1 DEF Public
<1>4. \A k \in Token \ {n} : Hidden(k) => Hidden(k)'
  BY <1>3 DEF Hidden
<1>5. Hidden(n)' /\ Hidden(None)'
  BY <1>1, <1>3 DEF Hidden
<1>6. Secrets'
  <2>1. \A k \in Token : Public(k)' => family'[k] # None
    BY <1>1, <1>3 DEF StoredInv, Secrets
  <2>2. ASSUME NEW u \in Tab
        PROVE  Hidden(Heard(tab[u]))' /\ Hidden(tab[u].signing)'
    <3>1. Hidden(Heard(tab[u])) /\ Hidden(tab[u].signing)
      BY DEF StoredInv, Secrets
    <3>2. ASSUME NEW k, Hidden(k), k # n
          PROVE  Hidden(k)'
      BY <1>4, <1>5, <3>2 DEF Hidden
    <3>3. Heard(tab'[u]) \in {Heard(tab[u]), n} /\ tab'[u].signing \in {tab[u].signing, n}
      OBVIOUS
    <3>4. QED  BY <1>2, <1>5, <3>1, <3>2, <3>3
  <2>3. \A u, v \in Tab :
          /\ Heard(tab'[u]) # None /\ Heard(tab'[u]) = Heard(tab'[v]) => u = v
          /\ tab'[u].signing # None /\ tab'[u].signing = tab'[v].signing => u = v
          /\ Heard(tab'[u]) # None => Heard(tab'[u]) # tab'[v].signing
    BY <1>1, <1>2 DEF StoredInv, Secrets
  <2>4. QED  BY <2>1, <2>2, <2>3 DEF Secrets
<1>7. Replaced'
  <2>1. CASE broken' \/ \E u \in Tab : Heard(tab'[u]) # None
    BY <2>1 DEF Replaced
  <2>2. CASE ~broken' /\ (\A u \in Tab : Heard(tab'[u]) = None) /\ stored # None
    <3>1. \A u \in Tab : Heard(tab[u]) = None
      BY <1>1, <2>2
    <3>2. stored \in Token /\ stored # n
      BY <1>1, <2>2 DEF TypeInv, TypeOK, Public
    <3>3. Good(stored)
      BY <2>2, <3>1, <3>2 DEF StoredInv, Replaced
    <3>4. QED  BY <2>2, <3>2, <3>3 DEF Replaced
  <2>3. QED  BY <2>1, <2>2 DEF Replaced
<1>8. QED  BY <1>6, <1>7 DEF StoredInv

\* The functions of lib/api.ts.
LEMMA ViewLoaded ==
  ASSUME NEW p, NEW page, NEW kept \in {None, stored}
  PROVE  Within(p, Loaded(p, page, kept)) /\ Heard(Loaded(p, page, kept)) = None
BY DEF Loaded, Blank, NoPromise, Within, Asked, Heard

LEMMA ViewEntered ==
  ASSUME NEW t, NEW p \in Page
  PROVE  SameTokens(p, Entered(t, p))
BY DEF Entered, SameTokens, Page

LEMMA ViewAskRefresh ==
  ASSUME NEW p \in Page
  PROVE  Within(p, AskRefresh(p)) /\ Heard(AskRefresh(p)) = Heard(p)
<1>1. CASE p.promise.state # "none"
  BY <1>1 DEF AskRefresh, Within
<1>2. CASE p.promise.state = "none"
  <2> DEFINE r == [state |-> "sent", token |-> StoredOf(p)]
             q == [p EXCEPT !.promise = r]
  <2>1. q.promise = r /\ q.mem = p.mem /\ q.signing = p.signing
    BY DEF Page
  <2>2. r.token \in {p.mem, stored} /\ r.state = "sent"
    BY DEF StoredOf
  <2>3. AskRefresh(p) = q
    BY <1>2 DEF AskRefresh
  <2> HIDE DEF q, r
  <2>4. QED  BY <1>2, <2>1, <2>2, <2>3 DEF Within, Asked, Heard
<1>3. QED  BY <1>1, <1>2

LEMMA AskRefreshPage ==
  ASSUME TypeInv, NEW p \in Page
  PROVE  AskRefresh(p) \in Page
<1>1. CASE p.promise.state # "none"
  BY <1>1 DEF AskRefresh
<1>2. CASE p.promise.state = "none"
  <2>1. [state |-> "sent", token |-> StoredOf(p)] \in Promise
    BY DEF StoredOf, Promise, Page, TypeInv, TypeOK
  <2>2. QED  BY <1>2, <2>1, SetPromise DEF AskRefresh
<1>3. QED  BY <1>1, <1>2

LEMMA ViewResumed ==
  ASSUME NEW t, NEW p \in Page
  PROVE  \/ SameTokens(p, Resumed(t, p))
         \/ p.access = "none" /\ Resumed(t, p) = Ejected(p)
<1>1. CASE p.call = "waiting" /\ p.access = "none"
  BY <1>1 DEF Resumed
<1>2. CASE ~(p.call = "waiting" /\ p.access = "none")
  <2> PICK q : q = Settled(p)
    OBVIOUS
  <2>1. SameTokens(p, q)
    BY DEF SameTokens, Settled, Page
  <2>2. Resumed(t, p) = IF p.page = "loading" THEN Entered(t, q) ELSE q
    BY <1>2, ResumedIs
  <2>3. SameTokens(q, Entered(t, q))
    BY DEF Entered, SameTokens, Settled, Page
  <2>4. QED  BY <2>1, <2>2, <2>3 DEF SameTokens
<1>3. QED  BY <1>1, <1>2

-----------------------------------------------------------------------------
(* The steps.                                                                 *)

LEMMA PlainStored ==
  ASSUME TypeInv, StoredInv, NEW t \in Tab, NEW q, tab' = [tab EXCEPT ![t] = q],
         Within(tab[t], q), Heard(q) = Heard(tab[t]), stored' \in {None, stored},
         UNCHANGED <<serverVars, orphans, broken>>
  PROVE  StoredInv'
BY Shrink

\* What a rotation does to the table.
LEMMA RotateRows ==
  ASSUME TypeInv, NEW k \in Token, Rotate(k), Rotates(k)
  PROVE  /\ NewToken \in Token /\ family[NewToken] = None /\ row'[NewToken] = "valid"
         /\ \A x \in Token \ {NewToken} : family'[x] = family[x]
         /\ \A x \in Token \ {NewToken, k} : row'[x] = row[x]
         /\ expired' = expired
<1>1. NewToken \in Token /\ family[NewToken] = None
  BY NewTokenIsFree DEF Rotates
<1>2. Issue([row EXCEPT ![k] = "revoked"], family[k])
  BY DEF Rotate
<1>3. row \in [Token -> {"none", "valid", "revoked"}] /\ family \in [Token -> Token \cup {None}]
  BY DEF TypeInv, TypeOK
<1>4. QED  BY <1>1, <1>2, <1>3 DEF Issue

LEMMA ServeRefreshStored ==
  ASSUME TypeInv, FamilyInv, StoredInv, NEW t \in Tab, ServeRefresh(t)
  PROVE  StoredInv'
<1> PICK p \in Page : p = tab[t] /\ Holds(p)
  BY PageHere
<1> DEFINE k == p.promise.token
<1>1. p.promise.state = "sent" /\ k \in Token /\ Rotate(k) /\ Asked(p) = k /\ Heard(p) = None
  BY DEF ServeRefresh, Holds, Asked, Heard
<1>2. UNCHANGED <<stored, orphans>> /\ (broken => broken')
  BY DEF ServeRefresh
<1>3. PICK r : /\ tab' = [tab EXCEPT ![t] = [p EXCEPT !.promise = r]]
               /\ r = IF Rotates(k) THEN [state |-> "ok", token |-> NewToken]
                      ELSE [state |-> IF k \in expired THEN "lapsed" ELSE "refused", token |-> None]
  BY DEF ServeRefresh, TypeInv, TypeOK
<1> DEFINE q == [p EXCEPT !.promise = r]
<1>4. q.mem = p.mem /\ q.signing = p.signing /\ q.promise = r
  BY DEF Page
<1>5. tab' = [tab EXCEPT ![t] = q]
  BY <1>3
<1> HIDE DEF k, q
<1>6. CASE Rotates(k)
  <2> PICK n \in Token : n = NewToken /\ family[n] = None
    BY <1>1, <1>6, RotateRows
  <2>1. /\ Good(n)'
        /\ \A x \in Token \ {n} : family'[x] = family[x]
        /\ \A x \in Token \ {n} : Good(x) /\ ~Public(x) => Good(x)'
    <3>1. Public(k)
      BY <1>1 DEF Public
    <3>2. QED  BY <1>1, <1>6, <3>1, RotateRows DEF Good
  <2>2. Heard(q) = n /\ Asked(q) = None
    BY <1>3, <1>4, <1>6 DEF Heard, Asked
  <2>3. q.signing # n
    BY <1>4 DEF StoredInv, Secrets, Hidden, FamilyInv, Token, Good
  <2>4. tab'[t] = q /\ \A u \in Tab \ {t} : tab'[u] = tab[u]
    BY <1>5 DEF TypeInv, TypeOK
  <2>5. n # None
    BY DEF Token
  <2>6. /\ \A u \in Tab : tab'[u].mem = tab[u].mem /\ Asked(tab'[u]) \in {None, Asked(tab[u])}
        /\ \A u \in Tab : Heard(tab'[u]) = Heard(tab[u]) \/ (u = t /\ Heard(tab'[u]) = n)
        /\ \A u \in Tab : tab'[u].signing = tab[u].signing \/ (u = t /\ tab'[u].signing = n)
        /\ Heard(tab'[t]) # n \/ tab'[t].signing # n
        /\ \E u \in Tab : Heard(tab'[u]) # None
    <3>1. tab'[t].mem = tab[t].mem /\ tab'[t].signing = tab[t].signing /\ tab'[t].signing # n
          /\ Asked(tab'[t]) = None /\ Heard(tab'[t]) = n
      BY <1>4, <2>2, <2>3, <2>4
    <3>2. \A u \in Tab : u # t => tab'[u] = tab[u]
      BY <2>4
    <3>3. \A u \in Tab : tab'[u].mem = tab[u].mem
      BY <3>1, <3>2
    <3>4. \A u \in Tab : Asked(tab'[u]) \in {None, Asked(tab[u])}
      BY <3>1, <3>2 DEF Asked
    <3>5. \A u \in Tab : Heard(tab'[u]) = Heard(tab[u]) \/ (u = t /\ Heard(tab'[u]) = n)
      BY <3>1, <3>2 DEF Heard
    <3>6. \A u \in Tab : tab'[u].signing = tab[u].signing \/ (u = t /\ tab'[u].signing = n)
      BY <3>1, <3>2
    <3>7. \E u \in Tab : Heard(tab'[u]) # None
      BY <2>5, <3>1
    <3>8. QED  BY <3>1, <3>3, <3>4, <3>5, <3>6, <3>7, Zenon
  <2>7. QED  BY <1>2, <2>1, <2>6, Issued
<1>7. CASE ~Rotates(k)
  <2>1. UNCHANGED serverVars
    BY <1>1, <1>7 DEF Rotate
  <2>2. Heard(q) = None /\ Asked(q) = None
    BY <1>3, <1>4, <1>7 DEF Heard, Asked
  <2>3. Within(tab[t], q) /\ Heard(q) = Heard(tab[t])
    BY <1>1, <1>4, <2>2 DEF Within
  <2>4. QED  BY <1>2, <1>5, <2>1, <2>3, Shrink
<1>8. QED  BY <1>6, <1>7

LEMMA ServeLoginStored ==
  ASSUME TypeInv, FamilyInv, StoredInv, NEW t \in Tab, ServeLogin(t)
  PROVE  StoredInv'
<1> PICK p \in Page : p = tab[t] /\ Holds(p)
  BY PageHere
<1> PICK n \in Token : n = NewToken /\ family[n] = None
  BY NewTokenIsFree DEF ServeLogin
<1>1. UNCHANGED <<stored, orphans, broken>> /\ tab' = [tab EXCEPT ![t] = [p EXCEPT !.signing = n]]
  BY DEF ServeLogin
<1> DEFINE q == [p EXCEPT !.signing = n]
<1>2. q.mem = p.mem /\ q.promise = p.promise /\ q.signing = n
  BY DEF Page
<1>3. tab' = [tab EXCEPT ![t] = q]
  BY <1>1
<1> HIDE DEF q
<1>4. row \in [Token -> {"none", "valid", "revoked"}] /\ family \in [Token -> Token \cup {None}]
  BY DEF TypeInv, TypeOK
<1>5. /\ Good(n)'
      /\ \A x \in Token \ {n} : family'[x] = family[x]
      /\ \A x \in Token \ {n} : Good(x) => Good(x)'
  BY <1>4 DEF ServeLogin, IssueLogin, Issue, Good
<1>6. tab'[t] = q /\ \A u \in Tab \ {t} : tab'[u] = tab[u]
  BY <1>3 DEF TypeInv, TypeOK
<1>7. Heard(q) = Heard(p) /\ Asked(q) = Asked(p) /\ Heard(p) # n
  <2>1. Heard(q) = Heard(p) /\ Asked(q) = Asked(p)
    BY <1>2 DEF Heard, Asked
  <2>2. Hidden(Heard(p)) /\ n # None /\ ~Good(n)
    BY DEF StoredInv, Secrets, FamilyInv, Token, Good
  <2>3. QED  BY <2>1, <2>2 DEF Hidden
<1>8. /\ \A u \in Tab : tab'[u].mem = tab[u].mem /\ Asked(tab'[u]) \in {None, Asked(tab[u])}
      /\ \A u \in Tab : Heard(tab'[u]) = Heard(tab[u]) \/ (u = t /\ Heard(tab'[u]) = n)
      /\ \A u \in Tab : tab'[u].signing = tab[u].signing \/ (u = t /\ tab'[u].signing = n)
      /\ Heard(tab'[t]) # n \/ tab'[t].signing # n
  <2>1. tab'[t].mem = tab[t].mem /\ tab'[t].signing = n /\ Asked(tab'[t]) = Asked(tab[t])
        /\ Heard(tab'[t]) = Heard(tab[t]) /\ Heard(tab'[t]) # n
    BY <1>2, <1>6, <1>7
  <2>2. \A u \in Tab : u # t => tab'[u] = tab[u]
    BY <1>6
  <2>3. \A u \in Tab : tab'[u].mem = tab[u].mem
    BY <2>1, <2>2
  <2>4. \A u \in Tab : Asked(tab'[u]) \in {None, Asked(tab[u])}
    BY <2>1, <2>2 DEF Asked
  <2>5. \A u \in Tab : Heard(tab'[u]) = Heard(tab[u]) \/ (u = t /\ Heard(tab'[u]) = n)
    BY <2>1, <2>2 DEF Heard
  <2>6. \A u \in Tab : tab'[u].signing = tab[u].signing \/ (u = t /\ tab'[u].signing = n)
    BY <2>1, <2>2
  <2>7. QED  BY <2>1, <2>3, <2>4, <2>5, <2>6, Zenon
<1>9. QED  BY <1>1, <1>5, <1>8, Issued

LEMMA ServeOrphanStored ==
  ASSUME TypeInv, FamilyInv, StoredInv, NEW k \in orphans, ServeOrphan(k)
  PROVE  StoredInv'
<1>1. k \in Token /\ Rotate(k) /\ Public(k) /\ UNCHANGED <<tab, stored>> /\ orphans' \subseteq orphans
  BY DEF ServeOrphan, TypeInv, TypeOK, Public
<1>2. CASE Rotates(k)
  <2> PICK n \in Token : n = NewToken /\ family[n] = None
    BY <1>1, <1>2, RotateRows
  <2>1. /\ Good(n)'
        /\ \A x \in Token \ {n} : family'[x] = family[x]
        /\ \A x \in Token \ {n} : Good(x) /\ ~Public(x) => Good(x)'
    BY <1>1, <1>2, RotateRows DEF Good
  <2>2. broken'
    BY <1>2 DEF ServeOrphan
  <2>3. \A u \in Tab : tab[u].signing # n
    <3>1. n # None /\ ~Good(n)
      BY DEF FamilyInv, Token, Good
    <3>2. QED  BY <3>1 DEF StoredInv, Secrets, Hidden
  <2>4. /\ \A u \in Tab : tab'[u].mem = tab[u].mem /\ Asked(tab'[u]) \in {None, Asked(tab[u])}
        /\ \A u \in Tab : Heard(tab'[u]) = Heard(tab[u]) \/ (u = k /\ Heard(tab'[u]) = n)
        /\ \A u \in Tab : tab'[u].signing = tab[u].signing \/ (u = k /\ tab'[u].signing = n)
        /\ k \in Tab => Heard(tab'[k]) # n \/ tab'[k].signing # n
    <3>1. tab' = tab
      BY <1>1
    <3>2. \A u \in Tab : tab'[u].mem = tab[u].mem /\ Asked(tab'[u]) \in {None, Asked(tab[u])}
      BY <3>1 DEF Asked
    <3>3. \A u \in Tab : Heard(tab'[u]) = Heard(tab[u]) \/ (u = k /\ Heard(tab'[u]) = n)
      BY <3>1 DEF Heard
    <3>4. \A u \in Tab : tab'[u].signing = tab[u].signing \/ (u = k /\ tab'[u].signing = n)
      BY <3>1
    <3>5. k \in Tab => Heard(tab'[k]) # n \/ tab'[k].signing # n
      BY <2>3, <3>1
    <3>6. QED  BY <3>2, <3>3, <3>4, <3>5, Zenon
  <2>5. QED  BY <1>1, <2>1, <2>2, <2>4, Issued
<1>3. CASE ~Rotates(k)
  <2>1. UNCHANGED serverVars /\ broken' = broken
    BY <1>1, <1>3 DEF Rotate, ServeOrphan, TypeInv, TypeOK
  <2>2. \A j \in Token : Public(j)' => Public(j)
    BY <1>1 DEF Public
  <2>3. Secrets'
    BY <1>1, <2>1, <2>2 DEF StoredInv, Secrets, Hidden, Good
  <2>4. Replaced'
    BY <1>1, <2>1 DEF StoredInv, Replaced, Good
  <2>5. QED  BY <2>3, <2>4 DEF StoredInv
<1>4. QED  BY <1>2, <1>3

\* The fields that hold no token.
LEMMA KeepsTokens ==
  ASSUME NEW p \in Page, NEW v
  PROVE  /\ SameTokens(p, [p EXCEPT !.page = v]) /\ SameTokens(p, [p EXCEPT !.access = v])
         /\ SameTokens(p, [p EXCEPT !.call = v]) /\ SameTokens(p, [p EXCEPT !.hook = v])
BY DEF SameTokens, Page

\* A page whose tokens stay, or that joins or starts a refresh.
LEMMA QuietStored ==
  ASSUME TypeInv, StoredInv, NEW t \in Tab, NEW r, NEW q,
         r = tab[t] \/ r = AskRefresh(tab[t]), SameTokens(r, q), tab' = [tab EXCEPT ![t] = q],
         UNCHANGED <<stored, serverVars, orphans, broken>>
  PROVE  StoredInv'
<1>1. PICK p \in Page : p = tab[t]
  BY PageHere
<1>2. Within(p, r) /\ Heard(r) = Heard(p)
  <2>1. CASE r = p
    BY <2>1 DEF Within
  <2>2. CASE r = AskRefresh(p)
    BY <2>2, ViewAskRefresh
  <2>3. QED  BY <1>1, <2>1, <2>2
<1>3. q.mem = r.mem /\ q.signing = r.signing /\ Heard(q) = Heard(r) /\ Asked(q) = Asked(r)
  BY DEF SameTokens, Heard, Asked
<1>4. Within(p, q) /\ Heard(q) = Heard(p)
  BY <1>2, <1>3 DEF Within
<1>5. QED  BY <1>1, <1>4, PlainStored

LEMMA SettleStored ==
  ASSUME TypeInv, FamilyInv, StoredInv, NEW t \in Tab, RefreshSettles(t)
  PROVE  StoredInv'
<1> PICK p \in Page : p = tab[t]
  BY PageHere
<1>1. UNCHANGED <<serverVars, orphans, broken>> /\ p.promise.state \in {"ok", "refused", "lapsed"}
  BY Settles
<1> PICK w \in Page : /\ tab' = [tab EXCEPT ![t] = Resumed(t, w)]
                      /\ w.promise = NoPromise /\ w.signing = p.signing
                      /\ IF p.promise.state = "ok" THEN SettledOK(t, p, w) ELSE SettledBad(t, p, w)
  BY Settles
<1> PICK r : r = Resumed(t, w)
  OBVIOUS
<1>2. CASE p.promise.state = "ok"
  <2> PICK k \in Token : k = p.promise.token
    BY <1>2 DEF SettledOK
  <2>1. w.mem = k /\ w.access # "none" /\ stored' = k
    BY <1>2 DEF SettledOK
  <2>2. SameTokens(w, r)
    BY <2>1, ViewResumed
  <2>3. r.mem = k /\ r.signing = p.signing /\ r.promise = NoPromise
    BY <2>1, <2>2 DEF SameTokens
  <2>4. Heard(r) = None /\ Asked(r) = None /\ Heard(p) = k
    BY <1>2, <2>3 DEF Heard, Asked, NoPromise
  <2>5. QED  BY <1>1, <2>1, <2>3, <2>4, Reveal
<1>3. CASE p.promise.state # "ok"
  <2>1. w.mem = None /\ stored' = None
    BY <1>3 DEF SettledBad
  <2>2. CASE SameTokens(w, r)
    <3>1. r.mem = None /\ r.signing = p.signing /\ Heard(r) = None /\ Asked(r) = None
      BY <2>1, <2>2 DEF SameTokens, Heard, Asked, NoPromise
    <3>2. Within(p, r) /\ Heard(r) = Heard(p)
      BY <1>3, <3>1 DEF Within, Heard
    <3>3. QED  BY <1>1, <2>1, <3>2, PlainStored
  <2>3. CASE r = Loaded(w, "/login", None)
    <3>1. r.mem = None /\ r.signing = None /\ Heard(r) = None /\ Asked(r) = None
      BY <2>3 DEF Loaded, Blank, NoPromise, Heard, Asked
    <3>2. Within(p, r) /\ Heard(r) = Heard(p)
      BY <1>3, <3>1 DEF Within, Heard
    <3>3. QED  BY <1>1, <2>1, <3>2, PlainStored
  <2>4. QED  BY <2>2, <2>3, ViewResumed DEF Ejected
<1>4. QED  BY <1>2, <1>3

LEMMA LoginStored ==
  ASSUME TypeInv, FamilyInv, StoredInv, NEW t \in Tab, LoginArrives(t)
  PROVE  StoredInv'
<1> PICK p \in Page : p = tab[t]
  BY PageHere
<1> PICK k \in Token : k = p.signing
  BY DEF LoginArrives, Page
<1> DEFINE q == [WithTokens(p, k) EXCEPT !.signing = None, !.page = "leaving"]
<1>1. q.mem = k /\ q.promise = p.promise /\ q.signing = None
  BY DEF WithTokens, Page
<1>2. tab' = [tab EXCEPT ![t] = q] /\ stored' = k /\ UNCHANGED <<serverVars, orphans>>
  BY DEF LoginArrives, Saved
<1> HIDE DEF q
<1>3. Heard(q) = Heard(p) /\ Asked(q) = Asked(p)
  BY <1>1 DEF Heard, Asked
<1>4. QED  BY <1>1, <1>2, <1>3, Reveal

\* A document is unloaded, with what it was waiting for.
LEMMA UnloadStored ==
  ASSUME TypeInv, StoredInv, NEW t \in Tab, Unload(tab[t]), NEW page, NEW kept \in {None, stored},
         tab' = [tab EXCEPT ![t] = Loaded(tab[t], page, kept)], stored' \in {None, stored},
         UNCHANGED serverVars
  PROVE  StoredInv'
<1> PICK q : q = Loaded(tab[t], page, kept)
  OBVIOUS
<1>1. Within(tab[t], q) /\ Heard(q) = None
  BY ViewLoaded
<1>2. orphans' \subseteq orphans \cup {Asked(tab[t])} /\ (broken => broken')
  BY DEF Unload, Asked
<1>3. broken' \/ Heard(q) = Heard(tab[t])
  BY <1>1 DEF Unload, Heard
<1>4. QED  BY <1>1, <1>2, <1>3, Shrink

LEMMA HookStored ==
  ASSUME TypeInv, StoredInv, NEW t \in Tab, HookStep(t)
  PROVE  StoredInv'
<1> PICK p \in Page : p = tab[t]
  BY PageHere
<1> PICK h : Moved(t, h) \/ Joined(t, h)
  BY HookMoves
<1> PICK a \in Page : a = AskRefresh(p)
  BY AskRefreshPage
<1>1. SameTokens(p, [p EXCEPT !.hook = h]) /\ SameTokens(a, [a EXCEPT !.hook = h])
  BY KeepsTokens
<1>2. UNCHANGED <<stored, serverVars, orphans, broken>>
  BY HookMoves
<1>3. CASE Moved(t, h)
  BY <1>1, <1>2, <1>3, QuietStored DEF Moved
<1>4. CASE Joined(t, h)
  BY <1>1, <1>2, <1>4, QuietStored DEF Joined
<1>5. QED  BY <1>3, <1>4

LEMMA BrowserStored ==
  ASSUME TypeInv, FamilyInv, StoredInv, NEW t \in Tab, Browser(t)
  PROVE  StoredInv'
<1> PICK p \in Page : p = tab[t]
  BY PageHere
<1>1. CASE CallReturns(t)
  <2>1. tab' = [tab EXCEPT ![t] = [p EXCEPT !.call = "none"]]
    BY <1>1 DEF CallReturns
  <2>2. QED  BY <1>1, <2>1, KeepsTokens, QuietStored DEF CallReturns
<1> PICK a \in Page : a = AskRefresh(p)
  BY AskRefreshPage
<1>2. CASE CallRefreshes(t)
  <2>1. tab' = [tab EXCEPT ![t] = [a EXCEPT !.call = "waiting"]]
    BY <1>2 DEF CallRefreshes
  <2>2. SameTokens(a, [a EXCEPT !.call = "waiting"])
    BY KeepsTokens
  <2>3. QED  BY <1>2, <2>1, <2>2, QuietStored DEF CallRefreshes
<1>3. CASE CallEjects(t)
  BY <1>3, UnloadStored DEF CallEjects, Ejected
<1>4. CASE HookStep(t)
  BY <1>4, HookStored
<1>6. CASE Navigate(t)
  <2>1. SameTokens(p, [p EXCEPT !.page = "loading"]) /\ SameTokens(p, Entered(t, p))
    BY KeepsTokens, ViewEntered
  <2>2. PICK q : SameTokens(p, q) /\ tab' = [tab EXCEPT ![t] = q]
    BY <1>6, <2>1 DEF Navigate
  <2>3. QED  BY <1>6, <2>2, QuietStored DEF Navigate
<1>7. QED
  BY <1>1, <1>2, <1>3, <1>4, <1>6, SettleStored, LoginStored DEF Browser, HookStep

LEMMA EnvironmentStored ==
  ASSUME TypeInv, FamilyInv, StoredInv, NEW t \in Tab, Environment(t)
  PROVE  StoredInv'
<1> PICK p \in Page : p = tab[t]
  BY PageHere
<1>1. ASSUME NEW page, Load(t, page)
      PROVE  StoredInv'
  BY <1>1, UnloadStored DEF Load
<1>2. CASE TimedRefresh(t)
  <2>1. tab' = [tab EXCEPT ![t] = AskRefresh(p)]
    BY <1>2 DEF TimedRefresh
  <2>2. SameTokens(AskRefresh(p), AskRefresh(p))
    BY DEF SameTokens
  <2>3. QED  BY <1>2, <2>1, <2>2, QuietStored DEF TimedRefresh
<1>3. CASE Expire(t)
  <2>1. tab' = [tab EXCEPT ![t] = [p EXCEPT !.access = "expired"]]
    BY <1>3 DEF Expire
  <2>2. SameTokens(p, [p EXCEPT !.access = "expired"])
    BY KeepsTokens
  <2>3. QED  BY <1>3, <2>1, <2>2, QuietStored DEF Expire
<1>4. CASE LoseRefresh(t)
  <2> PICK r : r = [state |-> "refused", token |-> None]
    OBVIOUS
  <2> DEFINE q == [p EXCEPT !.promise = r]
  <2>1. q.mem = p.mem /\ q.signing = p.signing /\ q.promise = r
    BY DEF Page
  <2>2. tab' = [tab EXCEPT ![t] = q]
    BY <1>4 DEF LoseRefresh
  <2> HIDE DEF q
  <2>3. Within(p, q)
    BY <2>1 DEF Within, Heard, Asked
  <2>4. QED  BY <1>4, <2>2, <2>3, Shrink DEF LoseRefresh
<1>5. CASE HookStep(t)
  BY <1>5, HookStored
<1>7. CASE Call(t)
  <2>1. tab' = [tab EXCEPT ![t] = [p EXCEPT !.call = "refused"]]
    BY <1>7 DEF Call
  <2>2. SameTokens(p, [p EXCEPT !.call = "refused"])
    BY KeepsTokens
  <2>3. QED  BY <1>7, <2>1, <2>2, QuietStored DEF Call
<1>8. CASE SignOut(t)
  <2> PICK h \in Hooks : h = IF p.hook = "refused" THEN "stray" ELSE "off"
    BY DEF Hooks
  <2> PICK q : q = SignedOut(p, h)
    OBVIOUS
  <2>1. q.mem = None /\ q.signing = p.signing /\ q.promise = p.promise
    BY SignedOutOK, PageHere
  <2>2. tab' = [tab EXCEPT ![t] = q] /\ stored' = None /\ UNCHANGED <<serverVars, orphans, broken>>
    BY <1>8, SignedOutIs
  <2>3. Within(p, q) /\ Heard(q) = Heard(p)
    BY <2>1 DEF Within, Heard, Asked
  <2>4. QED  BY <2>2, <2>3, PlainStored
<1>9. QED
  BY <1>1, <1>2, <1>3, <1>4, <1>5, <1>7, <1>8, ServeLoginStored DEF Environment, HookStep

\* A token that expires is as good as before.
LEMMA OutliveStored ==
  ASSUME TypeInv, StoredInv, NEW k \in Token, Outlive(k)
  PROVE  StoredInv'
<1>1. /\ UNCHANGED <<tab, stored, row, family, orphans, broken>>
      /\ \A x : Good(x) => Good(x)'
  BY DEF Outlive, Good
<1>2. \A x : Public(x)' <=> Public(x)
  BY <1>1 DEF Public
<1>3. \A x : Hidden(x) => Hidden(x)'
  BY <1>1, <1>2 DEF Hidden
<1>4. Secrets'
  BY <1>1, <1>2, <1>3 DEF StoredInv, Secrets
<1>5. Replaced'
  BY <1>1 DEF StoredInv, Replaced
<1>6. QED  BY <1>4, <1>5 DEF StoredInv

LEMMA StoredNext == TypeInv /\ FamilyInv /\ StoredInv /\ [Next]_vars => StoredInv'
<1> SUFFICES ASSUME TypeInv, FamilyInv, StoredInv, [Next]_vars
             PROVE  StoredInv'
  OBVIOUS
<1>1. CASE UNCHANGED vars
  <2>1. /\ tab' = tab /\ stored' = stored /\ row' = row
        /\ family' = family /\ expired' = expired /\ orphans' = orphans /\ broken' = broken
    BY <1>1 DEF vars
  <2>2. Secrets'
    BY <2>1 DEF StoredInv, Secrets, Hidden, Public, Good
  <2>3. Replaced'
    BY <2>1 DEF StoredInv, Replaced, Good
  <2>4. QED  BY <2>2, <2>3 DEF StoredInv
<1>2. QED
  BY <1>1, ServeRefreshStored, BrowserStored, EnvironmentStored, ServeOrphanStored, OutliveStored DEF Next

LEMMA StoredInit == Init => StoredInv
<1> SUFFICES ASSUME Init
             PROVE  StoredInv
  OBVIOUS
<1>1. \A t \in Tab : Heard(tab[t]) = None /\ Asked(tab[t]) = None
  BY DEF Init, Blank, NoPromise, Heard, Asked
<1>2. \A t \in Tab : tab[t].signing = None /\ tab[t].mem = None
  BY DEF Init, Blank
<1>3. \A k \in Token : ~Public(k)
  <2> SUFFICES ASSUME NEW k \in Token, Public(k)
               PROVE  FALSE
    OBVIOUS
  <2>1. k # None
    BY DEF Token
  <2>2. QED  BY <1>1, <1>2, <2>1 DEF Public, Init
<1>4. Secrets
  BY <1>1, <1>2, <1>3 DEF Secrets, Hidden
<1>5. Replaced
  BY DEF Replaced, Init
<1>6. QED  BY <1>4, <1>5 DEF StoredInv

\* With no refresh in flight and none ever cut off, the token in localStorage is one
\* the server accepts until it expires, for any number of tabs that rotate it and sign in and out
\* (lib/api.ts, setTokens and clearTokens; auth_service.py, rotate_refresh_token).
THEOREM StoredUsable == Spec => []StoredIsUsable
<1>1. StoredInv => StoredIsUsable
  BY DEF StoredInv, Replaced, StoredIsUsable, Heard, Good
<1>2. QED  BY <1>1, TypeInit, TypeNext, FamilyInit, FamilyNext, StoredInit, StoredNext, PTL DEF Spec

-----------------------------------------------------------------------------
(* The lone tab.  As long as one tab is open and no refresh was cut off, what   *)
(* its page would present next is good or has expired, so nothing it asks for  *)
(* is refused for another reason than its age.                                 *)

GoodIn(k, rows, old) == k # None => rows[k] = "valid" \/ k \in old

\* The hook belongs to the dashboard and has a token to go on with, or lost it by age;
\* once it has given up, nothing is there to ask for another.
HookFit(p) ==
  /\ p.hook \notin {"off", "stray"} => p.page = "dashboard" /\ (p.access # "none" \/ p.lapsed)
  /\ p.hook = "quit" => p.lapsed /\ p.access = "none" /\ p.promise.state = "none"

Fit(p, kept, rows, old) ==
  /\ p.promise.state # "refused"
  /\ p.promise.state = "sent" => GoodIn(p.promise.token, rows, old)
  /\ p.promise.state # "ok" => GoodIn(p.mem, rows, old) /\ GoodIn(kept, rows, old)
  /\ HookFit(p)

LoneInv ==
  /\ \A t \in Tab : tab[t].page = "closed" => tab[t] = Blank
  /\ Open = {} => stored = None
  /\ IsFiniteSet(Open)
  /\ ~broken /\ (\A t, u \in Open : t = u) => \A t \in Open : Fit(tab[t], stored, row, expired)

\* A step of one page, if it is fit when it was and nobody else is there.
LEMMA PageLone ==
  ASSUME TypeInv, LoneInv, NEW t \in Tab, NEW q, tab' = [tab EXCEPT ![t] = q], q.page # "closed",
         broken => broken',
         /\ ~broken' /\ (t \in Open => Fit(tab[t], stored, row, expired)) /\ (t \notin Open => stored = None)
         => Fit(q, stored', row', expired')
  PROVE  LoneInv'
<1>1. tab'[t] = q /\ \A u \in Tab \ {t} : tab'[u] = tab[u]
  BY DEF TypeInv, TypeOK
<1>2. Open' = Open \cup {t}
  BY <1>1 DEF Open
<1>3. \A u \in Tab : tab'[u].page = "closed" => tab'[u] = Blank
  BY <1>1 DEF LoneInv
<1>4. IsFiniteSet(Open')
  BY <1>2, FS_AddElement DEF LoneInv
<1>5. ASSUME ~broken', \A u, v \in Open' : u = v
      PROVE  \A u \in Open' : Fit(tab'[u], stored', row', expired')
  <2>1. Open \subseteq {t} /\ Open' = {t}
    BY <1>2, <1>5
  <2>2. t \in Open => Fit(tab[t], stored, row, expired)
    BY <1>5, <2>1 DEF LoneInv
  <2>3. t \notin Open => stored = None
    BY <2>1 DEF LoneInv
  <2>4. Fit(q, stored', row', expired')
    BY <1>5, <2>2, <2>3
  <2>5. QED  BY <1>1, <2>1, <2>4
<1>6. QED
  BY <1>2, <1>3, <1>4, <1>5 DEF LoneInv

\* What Fit looks at, apart from the hook.
Keeps(p, q) == q.promise = p.promise /\ q.mem = p.mem /\ q.page # "closed"

\* A page that keeps its tokens, or asks for new ones.
LEMMA QuietLone ==
  ASSUME TypeInv, LoneInv, NEW t \in Tab, tab[t].page # "closed", NEW r, NEW q,
         r = tab[t] \/ r = AskRefresh(tab[t]), Keeps(r, q), tab' = [tab EXCEPT ![t] = q],
         HookFit(tab[t]) /\ Holds(tab[t]) => HookFit(q),
         UNCHANGED <<stored, serverVars>>, broken' = broken
  PROVE  LoneInv'
<1> PICK p \in Page : p = tab[t] /\ Holds(p)
  BY PageHere
<1>1. q.page # "closed" /\ t \in Open
  BY DEF Keeps, Open
<1>2. ASSUME Fit(p, stored, row, expired)
      PROVE  Fit(q, stored, row, expired)
  <2>1. /\ r.mem = p.mem
        /\ r.promise = p.promise \/ (p.promise.state = "none" /\ r.promise = [state |-> "sent", token |-> StoredOf(p)])
    BY DEF AskRefresh, Page
  <2>2. q.mem = p.mem /\ q.promise = r.promise
    BY <2>1 DEF Keeps
  <2>3. HookFit(q)
    BY <1>2 DEF Fit
  <2>4. CASE r.promise = p.promise
    BY <1>2, <2>2, <2>3, <2>4 DEF Fit
  <2>5. CASE p.promise.state = "none" /\ r.promise = [state |-> "sent", token |-> StoredOf(p)]
    <3>1. GoodIn(p.mem, row, expired) /\ GoodIn(stored, row, expired) /\ GoodIn(StoredOf(p), row, expired)
      BY <1>2, <2>5 DEF Fit, StoredOf
    <3>2. q.promise.state = "sent" /\ q.promise.token = StoredOf(p)
      BY <2>2, <2>5
    <3>3. QED  BY <2>2, <2>3, <3>1, <3>2 DEF Fit
  <2>6. QED  BY <2>1, <2>4, <2>5
<1>3. QED  BY <1>1, <1>2, PageLone

\* The hook moves on; it gives up only for want of any token, and joins a refresh
\* without leaving the dashboard.
LEMMA HookLone ==
  ASSUME TypeInv, LoneInv, NEW t \in Tab, HookStep(t)
  PROVE  LoneInv'
<1> PICK p \in Page : p = tab[t] /\ Holds(p)
  BY PageHere
<1>1. p.page # "closed"
  BY HookMoves DEF LoneInv, Blank
<1>2. UNCHANGED <<stored, serverVars>> /\ broken' = broken /\ p.hook # "off"
  BY HookMoves
<1> PICK h \in Hooks : Moved(t, h) \/ Joined(t, h)
  BY HookMoves
<1>3. CASE Moved(t, h)
  <2> PICK q : q = [p EXCEPT !.hook = h]
    OBVIOUS
  <2>1. q.page = p.page /\ q.access = p.access /\ q.lapsed = p.lapsed /\ q.hook = h
        /\ q.promise = p.promise /\ q.mem = p.mem
    BY DEF Page
  <2>2. /\ p.access # "none" => CanRefresh(p)
        /\ p.promise.state # "none" => CanRefresh(p)
    BY DEF Holds, CanRefresh, StoredOf, Token
  <2>3. HookFit(p) => HookFit(q)
    BY <1>2, <1>3, <2>1, <2>2 DEF HookFit, Moved, Hooks
  <2>4. Keeps(p, q)
    BY <1>1, <2>1 DEF Keeps
  <2>5. tab' = [tab EXCEPT ![t] = q]
    BY <1>3 DEF Moved
  <2>6. QED  BY <1>1, <1>2, <2>3, <2>4, <2>5, QuietLone
<1>4. CASE Joined(t, h)
  <2> PICK a \in Page : a = AskRefresh(p)
    BY AskRefreshPage
  <2>0. a.page = p.page /\ a.access = p.access /\ a.lapsed = p.lapsed
    BY DEF AskRefresh, Page
  <2> PICK q : q = [a EXCEPT !.hook = h]
    OBVIOUS
  <2>1. q.page = p.page /\ q.access = p.access /\ q.lapsed = p.lapsed /\ q.hook = h
        /\ q.promise = a.promise /\ q.mem = a.mem
    BY <2>0 DEF Page
  <2>2. HookFit(p) => HookFit(q)
    BY <1>2, <1>4, <2>1 DEF HookFit, Joined
  <2>3. Keeps(a, q)
    BY <1>1, <2>1 DEF Keeps
  <2>4. tab' = [tab EXCEPT ![t] = q]
    BY <1>4 DEF Joined
  <2>5. QED  BY <1>1, <1>2, <2>2, <2>3, <2>4, QuietLone
<1>5. QED  BY <1>3, <1>4

LEMMA BlankLone ==
  ASSUME TypeInv, LoneInv, NEW t \in Tab, NEW page, NEW kept \in {None, stored},
         tab' = [tab EXCEPT ![t] = Loaded(tab[t], page, kept)], stored' = kept,
         UNCHANGED serverVars, Unload(tab[t])
  PROVE  LoneInv'
<1> PICK p \in Page : p = tab[t]
  BY PageHere
<1> PICK q : q = Loaded(p, page, kept)
  OBVIOUS
<1>1. q.page # "closed" /\ q.mem = None /\ q.hook = "off"
      /\ (q.promise.state = "none" \/ (q.promise.state = "sent" /\ q.promise.token = kept))
      /\ (q.promise.state = "none" => kept = None)
  BY DEF Loaded, Blank, NoPromise
<1>2. (broken => broken') /\ (~broken' => p.promise.state # "ok")
  BY DEF Unload
<1>3. ASSUME ~broken', t \in Open => Fit(tab[t], stored, row, expired), t \notin Open => stored = None
      PROVE  Fit(q, stored', row', expired')
  <2>1. GoodIn(None, row, expired)
    BY DEF GoodIn
  <2>2. GoodIn(stored, row, expired)
    BY <1>2, <1>3, <2>1 DEF Fit
  <2>3. GoodIn(kept, row, expired)
    BY <2>1, <2>2
  <2>4. QED  BY <1>1, <2>1, <2>3 DEF Fit, HookFit
<1>4. QED  BY <1>1, <1>2, <1>3, PageLone

\* The page after a refresh has settled.
LEMMA EnteredFit ==
  ASSUME NEW t, NEW p \in Page
  PROVE  /\ Entered(t, p).page # "closed" /\ Entered(t, p).promise = p.promise
         /\ Entered(t, p).mem = p.mem
         /\ p.hook \in {"off", "stray"} => HookFit(Entered(t, p))
BY DEF Entered, Page, HookFit

LEMMA ResumedFit ==
  ASSUME NEW t, NEW p \in Page, p.page # "closed"
  PROVE  /\ Resumed(t, p).page # "closed"
         /\ Resumed(t, p).mem \in {None, p.mem}
         /\ Resumed(t, p).promise \in {NoPromise, p.promise}
         /\ HookFit(p) /\ p.hook # "quit" /\ p.promise = NoPromise => HookFit(Resumed(t, p))
<1>1. CASE p.call = "waiting" /\ p.access = "none"
  BY <1>1 DEF Resumed, Ejected, Loaded, Blank, HookFit
<1>2. CASE ~(p.call = "waiting" /\ p.access = "none")
  <2> PICK q : q = Settled(p)
    OBVIOUS
  <2>1. /\ q.page = p.page /\ q.mem = p.mem /\ q.promise = p.promise /\ q.access = p.access
        /\ q.lapsed = p.lapsed /\ q.hook = NextHook(p)
    BY DEF Settled, Page
  <2>2. q \in Page
    BY NextHookIs DEF Settled, Page, Hooks
  <2>3. Resumed(t, p) = IF p.page = "loading" THEN Entered(t, q) ELSE q
    BY <1>2, ResumedIs
  <2>4. ASSUME HookFit(p), p.hook # "quit", p.promise = NoPromise
        PROVE  HookFit(Resumed(t, p))
    <3>1. HookFit(q)
      BY <2>1, <2>4, NextHookIs DEF HookFit, NoPromise
    <3>2. p.page = "loading" => q.hook \in {"off", "stray"}
      BY <2>1, <2>4, NextHookIs DEF HookFit
    <3>3. QED  BY <2>2, <2>3, <3>1, <3>2, EnteredFit
  <2>5. QED  BY <2>1, <2>2, <2>3, <2>4, EnteredFit
<1>3. QED  BY <1>1, <1>2

LEMMA SettleLone ==
  ASSUME TypeInv, StoredInv, LoneInv, NEW t \in Tab, RefreshSettles(t)
  PROVE  LoneInv'
<1> PICK p \in Page : p = tab[t] /\ p.page # "closed"
  BY PageHere DEF RefreshSettles, LoneInv, Blank, NoPromise
<1>1. UNCHANGED <<row, expired, broken>> /\ t \in Open /\ p.promise.state \in {"ok", "refused", "lapsed"}
  BY Settles DEF Open
<1> PICK w \in Page : /\ tab' = [tab EXCEPT ![t] = Resumed(t, w)]
                      /\ w.promise = NoPromise /\ w.hook = p.hook /\ w.page = p.page
                      /\ IF p.promise.state = "ok" THEN SettledOK(t, p, w) ELSE SettledBad(t, p, w)
  BY Settles
<1> PICK r : r = Resumed(t, w)
  OBVIOUS
<1>2. /\ r.page # "closed" /\ r.promise = NoPromise /\ r.mem \in {None, w.mem}
      /\ HookFit(w) /\ w.hook # "quit" => HookFit(r)
  BY ResumedFit
<1>3. ASSUME Fit(p, stored, row, expired)
      PROVE  Fit(r, stored', row', expired')
  <2>1. CASE p.promise.state = "ok"
    <3> PICK k \in Token : k = p.promise.token
      BY <2>1 DEF SettledOK
    <3>1. w.mem = k /\ stored' = k /\ w.access = "valid"
      BY <2>1 DEF SettledOK
    <3>2. Heard(p) = k /\ k # None /\ Hidden(k)
      BY <2>1 DEF StoredInv, Secrets, Heard, Token
    <3>3. GoodIn(k, row, expired) /\ GoodIn(None, row, expired)
      BY <3>2 DEF Hidden, Good, GoodIn
    <3>4. HookFit(r)
      BY <1>2, <1>3, <2>1, <3>1 DEF Fit, HookFit
    <3>5. QED  BY <1>1, <1>2, <3>1, <3>3, <3>4 DEF Fit, NoPromise
  <2>2. CASE p.promise.state = "lapsed"
    <3>1. w.mem = None /\ stored' = None /\ (p.page = "dashboard" => w.lapsed)
      BY <2>2, Zenon DEF SettledBad, Lapses
    <3>2. HookFit(r)
      <4>1. HookFit(p) /\ p.hook # "quit"
        BY <1>3, <2>2 DEF Fit, HookFit
      <4>2. HookFit(w)
        BY <3>1, <4>1 DEF HookFit
      <4>3. QED  BY <1>2, <4>1, <4>2
    <3>3. GoodIn(None, row, expired)
      BY DEF GoodIn
    <3>4. QED  BY <1>1, <1>2, <3>1, <3>2, <3>3 DEF Fit, NoPromise
  <2>3. QED  BY <1>1, <1>3, <2>1, <2>2 DEF Fit
<1>4. QED  BY <1>1, <1>2, <1>3, PageLone

LEMMA ServeLone ==
  ASSUME TypeInv, LoneInv, NEW t \in Tab, ServeRefresh(t) \/ ServeLogin(t)
  PROVE  LoneInv'
<1> PICK p \in Page : p = tab[t] /\ Holds(p) /\ p.page # "closed"
  BY PageHere DEF ServeRefresh, ServeLogin, LoneInv, Blank, NoPromise
<1>0. t \in Open /\ stored' = stored
  BY DEF Open, ServeRefresh, ServeLogin
<1>1. CASE ServeRefresh(t)
  <2> PICK k \in Token : k = p.promise.token
    BY <1>1 DEF ServeRefresh, Holds
  <2>1. PICK r : /\ tab' = [tab EXCEPT ![t] = [p EXCEPT !.promise = r]]
                 /\ r = IF Rotates(k) THEN [state |-> "ok", token |-> NewToken]
                        ELSE [state |-> IF k \in expired THEN "lapsed" ELSE "refused", token |-> None]
    BY <1>1 DEF ServeRefresh, TypeInv, TypeOK
  <2> PICK q : q = [p EXCEPT !.promise = r]
    OBVIOUS
  <2>2. /\ q.promise = r /\ q.hook = p.hook /\ q.access = p.access /\ q.page = p.page /\ q.mem = p.mem
        /\ q.lapsed = p.lapsed
    BY DEF Page
  <2>3. tab' = [tab EXCEPT ![t] = q]
    BY <2>1
  <2>4. (broken => broken') /\ p.promise.state = "sent"
        /\ (~broken' => ~(row[k] = "valid" /\ k \notin expired /\ ~CanIssue))
    BY <1>1 DEF ServeRefresh
  <2>5. ASSUME ~broken', Fit(p, stored, row, expired)
        PROVE  Fit(q, stored', row', expired')
    <3>1. row[k] = "valid" \/ k \in expired
      BY <2>4, <2>5 DEF Fit, GoodIn, Token
    <3>2. Rotates(k) \/ (~Rotates(k) /\ k \in expired)
      BY <2>4, <2>5, <3>1 DEF Rotates
    <3>3. HookFit(q)
      BY <2>2, <2>4, <2>5 DEF Fit, HookFit
    <3>4. CASE Rotates(k)
      <4>1. r.state = "ok"
        BY <2>1, <3>4
      <4>2. QED  BY <2>2, <3>3, <4>1 DEF Fit
    <3>5. CASE ~Rotates(k) /\ k \in expired
      <4>1. r.state = "lapsed"
        BY <2>1, <3>5
      <4>2. UNCHANGED serverVars
        BY <1>1, <3>5 DEF ServeRefresh, Rotate
      <4>3. QED  BY <1>0, <2>2, <2>4, <2>5, <3>3, <4>1, <4>2 DEF Fit
    <3>6. QED  BY <3>2, <3>4, <3>5
  <2>6. QED  BY <1>0, <2>2, <2>3, <2>4, <2>5, PageLone
<1>2. CASE ServeLogin(t)
  <2> PICK n \in Token : n = NewToken
    BY <1>2, NewTokenIsFree DEF ServeLogin
  <2> PICK q : q = [p EXCEPT !.signing = n]
    OBVIOUS
  <2>1. /\ q.promise = p.promise /\ q.mem = p.mem /\ q.hook = p.hook /\ q.access = p.access /\ q.page = p.page
        /\ q.lapsed = p.lapsed
    BY DEF Page
  <2>2. tab' = [tab EXCEPT ![t] = q] /\ broken' = broken
    BY <1>2 DEF ServeLogin
  <2>3. row \in [Token -> {"none", "valid", "revoked"}] /\ stored \in Token \cup {None}
    BY DEF TypeInv, TypeOK
  <2>4. \A x \in Token : row[x] = "valid" \/ x \in expired => row'[x] = "valid" \/ x \in expired'
    BY <1>2, <2>3 DEF ServeLogin, IssueLogin, Issue
  <2>5. \A x \in Token \cup {None} : GoodIn(x, row, expired) => GoodIn(x, row', expired')
    BY <2>4 DEF GoodIn
  <2>6. p.mem \in Token \cup {None} /\ p.promise.token \in Token \cup {None}
    BY DEF Page, Promise
  <2>7. Fit(p, stored, row, expired) => Fit(q, stored', row', expired')
    BY <1>0, <2>1, <2>3, <2>5, <2>6 DEF Fit, HookFit
  <2>8. QED  BY <1>0, <2>1, <2>2, <2>7, PageLone
<1>3. QED  BY <1>1, <1>2

LEMMA BrowserLone ==
  ASSUME TypeInv, StoredInv, LoneInv, NEW t \in Tab, Browser(t)
  PROVE  LoneInv'
<1> PICK p \in Page : p = tab[t]
  BY PageHere
<1>0. p.page # "closed"
  BY HookMoves DEF LoneInv, Blank, NoPromise, Browser, HookStep, RefreshSettles, CallReturns, CallRefreshes,
                   CallEjects, LoginArrives, Navigate
<1> PICK a \in Page : a = AskRefresh(p)
  BY AskRefreshPage
<1>a. a.page = p.page /\ a.hook = p.hook /\ a.access = p.access /\ a.lapsed = p.lapsed
  BY DEF AskRefresh, Page
<1>1. CASE CallReturns(t)
  <2> PICK q : q = [p EXCEPT !.call = "none"]
    OBVIOUS
  <2>1. tab' = [tab EXCEPT ![t] = q]
    BY <1>1 DEF CallReturns
  <2>2. Keeps(p, q) /\ (HookFit(p) => HookFit(q))
    BY <1>0 DEF Keeps, HookFit, Page
  <2>3. QED  BY <1>0, <1>1, <2>1, <2>2, QuietLone DEF CallReturns
<1>2. CASE CallRefreshes(t)
  <2> PICK q : q = [a EXCEPT !.call = "waiting"]
    OBVIOUS
  <2>1. tab' = [tab EXCEPT ![t] = q] /\ p.access # "none"
    BY <1>2 DEF CallRefreshes
  <2>2. Keeps(a, q) /\ q.page = p.page /\ q.hook = p.hook /\ q.access = p.access /\ q.lapsed = p.lapsed
    BY <1>0, <1>a DEF Keeps, Page
  <2>3. HookFit(p) => HookFit(q)
    BY <2>1, <2>2 DEF HookFit
  <2>4. QED  BY <1>0, <1>2, <2>1, <2>2, <2>3, QuietLone DEF CallRefreshes
<1>3. CASE CallEjects(t)
  BY <1>3, BlankLone DEF CallEjects, Ejected
<1>4. CASE HookStep(t)
  BY <1>4, HookLone
<1>6. CASE LoginArrives(t)
  <2> PICK k \in Token : k = p.signing
    BY <1>6 DEF LoginArrives, Page
  <2> DEFINE q == [WithTokens(p, k) EXCEPT !.signing = None, !.page = "leaving"]
  <2>1. q.mem = k /\ q.promise = p.promise /\ q.hook = p.hook /\ q.access = "valid" /\ q.page = "leaving"
    BY DEF WithTokens, Page
  <2>2. tab' = [tab EXCEPT ![t] = q] /\ stored' = k /\ UNCHANGED <<row, expired, broken>> /\ p.page = "login"
    BY <1>6 DEF LoginArrives, Saved
  <2> HIDE DEF q
  <2>3. GoodIn(k, row, expired)
    <3>1. Hidden(k)
      BY DEF StoredInv, Secrets
    <3>2. QED  BY <3>1 DEF Hidden, Good, GoodIn
  <2>4. t \in Open
    BY <1>0 DEF Open
  <2>5. HookFit(p) => HookFit(q)
    BY <2>1, <2>2 DEF HookFit
  <2>6. Fit(p, stored, row, expired) => Fit(q, stored', row', expired')
    BY <2>1, <2>2, <2>3, <2>5 DEF Fit
  <2>7. QED  BY <2>1, <2>2, <2>4, <2>6, PageLone
<1>7. CASE Navigate(t)
  <2>0. UNCHANGED <<stored, row, expired, broken>> /\ t \in Open /\ p.page = "leaving"
    BY <1>0, <1>7 DEF Navigate, Open
  <2>1. CASE tab' = [tab EXCEPT ![t] = [p EXCEPT !.page = "loading"]]
    <3> PICK q : q = [p EXCEPT !.page = "loading"]
      OBVIOUS
    <3>1. Keeps(p, q) /\ q.hook = p.hook /\ q.page = "loading"
      BY DEF Keeps, Page
    <3>2. HookFit(p) => HookFit(q)
      BY <2>0, <3>1 DEF HookFit
    <3>3. QED  BY <1>0, <1>7, <2>1, <3>1, <3>2, QuietLone DEF Navigate
  <2>2. CASE tab' = [tab EXCEPT ![t] = Entered(t, p)]
    <3> PICK q : q = Entered(t, p)
      OBVIOUS
    <3>1. /\ q.page # "closed" /\ q.promise = p.promise /\ q.mem = p.mem
          /\ p.hook \in {"off", "stray"} => HookFit(q)
      BY EnteredFit
    <3>2. HookFit(p) => HookFit(q)
      BY <2>0, <3>1 DEF HookFit
    <3>3. Fit(p, stored, row, expired) => Fit(q, stored', row', expired')
      BY <2>0, <3>1, <3>2 DEF Fit
    <3>4. QED  BY <2>0, <2>2, <3>1, <3>3, PageLone
  <2>3. QED  BY <1>7, <2>1, <2>2 DEF Navigate
<1>8. QED
  BY <1>1, <1>2, <1>3, <1>4, <1>6, <1>7, SettleLone DEF Browser, HookStep

LEMMA EnvironmentLone ==
  ASSUME TypeInv, StoredInv, LoneInv, NEW t \in Tab, Environment(t)
  PROVE  LoneInv'
<1> PICK p \in Page : p = tab[t]
  BY PageHere
<1>1. ASSUME NEW page, Load(t, page)
      PROVE  LoneInv'
  BY <1>1, BlankLone DEF Load
<1>2. ASSUME TimedRefresh(t) \/ Expire(t) \/ LoseRefresh(t) \/ Call(t) \/ SignOut(t)
      PROVE  p.page # "closed" /\ t \in Open
  <2>1. p.page # "closed"
    BY <1>2 DEF LoneInv, Blank, NoPromise, TimedRefresh, Expire, LoseRefresh, Call, SignOut
  <2>2. QED  BY <2>1 DEF Open
<1>3. CASE TimedRefresh(t)
  <2> PICK a \in Page : a = AskRefresh(p)
    BY AskRefreshPage
  <2>1. /\ a.page = p.page /\ a.hook = p.hook /\ a.access = p.access /\ a.lapsed = p.lapsed
        /\ tab' = [tab EXCEPT ![t] = a] /\ p.access # "none"
    BY <1>3 DEF AskRefresh, Page, TimedRefresh
  <2>2. Keeps(a, a) /\ (HookFit(p) => HookFit(a))
    BY <1>2, <1>3, <2>1 DEF Keeps, HookFit
  <2>3. QED  BY <1>2, <1>3, <2>1, <2>2, QuietLone DEF TimedRefresh
<1>4. CASE Expire(t)
  <2> PICK q : q = [p EXCEPT !.access = "expired"]
    OBVIOUS
  <2>1. /\ q.mem = p.mem /\ q.promise = p.promise /\ q.hook = p.hook /\ q.access = "expired" /\ q.page = p.page
        /\ q.lapsed = p.lapsed
    BY DEF Page
  <2>2. tab' = [tab EXCEPT ![t] = q] /\ UNCHANGED <<stored, row, expired, broken>> /\ p.access = "valid"
    BY <1>4 DEF Expire
  <2>3. Fit(p, stored, row, expired) => Fit(q, stored', row', expired')
    BY <2>1, <2>2 DEF Fit, HookFit
  <2>4. QED  BY <1>2, <1>4, <2>1, <2>2, <2>3, PageLone
<1>5. CASE LoseRefresh(t)
  <2> PICK r : r = [state |-> "refused", token |-> None]
    OBVIOUS
  <2> DEFINE q == [p EXCEPT !.promise = r]
  <2>1. q.page = p.page
    BY DEF Page
  <2>2. tab' = [tab EXCEPT ![t] = q] /\ broken'
    BY <1>5 DEF LoseRefresh
  <2> HIDE DEF q
  <2>3. QED  BY <1>2, <1>5, <2>1, <2>2, PageLone
<1>6. CASE HookStep(t)
  BY <1>6, HookLone
<1>7. CASE Call(t)
  <2> PICK q : q = [p EXCEPT !.call = "refused"]
    OBVIOUS
  <2>1. tab' = [tab EXCEPT ![t] = q]
    BY <1>7 DEF Call
  <2>2. Keeps(p, q) /\ (HookFit(p) => HookFit(q))
    BY <1>2, <1>7 DEF Keeps, HookFit, Page
  <2>3. QED  BY <1>2, <1>7, <2>1, <2>2, QuietLone DEF Call
<1>8. CASE SignOut(t)
  <2> PICK h \in Hooks : h = IF p.hook = "refused" THEN "stray" ELSE "off"
    BY DEF Hooks
  <2> PICK q : q = SignedOut(p, h)
    OBVIOUS
  <2>1. q.mem = None /\ q.promise = p.promise /\ q.hook \in {"off", "stray"} /\ q.page = "login"
    BY SignedOutOK, PageHere
  <2>2. tab' = [tab EXCEPT ![t] = q] /\ stored' = None /\ UNCHANGED <<row, expired, broken>>
    BY <1>8, SignedOutIs
  <2>3. Fit(p, stored, row, expired) => Fit(q, stored', row', expired')
    BY <2>1, <2>2 DEF Fit, HookFit, GoodIn
  <2>4. QED  BY <1>2, <1>8, <2>1, <2>2, <2>3, PageLone
<1>9. QED
  BY <1>1, <1>3, <1>4, <1>5, <1>6, <1>7, <1>8, ServeLone DEF Environment, HookStep

LEMMA LoneNext == TypeInv /\ StoredInv /\ LoneInv /\ [Next]_vars => LoneInv'
<1> SUFFICES ASSUME TypeInv, StoredInv, LoneInv, [Next]_vars
             PROVE  LoneInv'
  OBVIOUS
<1>0. ASSUME tab' = tab, stored' = stored, broken' \/ UNCHANGED <<row, expired, broken>>
      PROVE  LoneInv'
  <2>1. Open' = Open
    BY <1>0 DEF Open
  <2>2. QED  BY <1>0, <2>1 DEF LoneInv
<1>1. CASE UNCHANGED vars
  BY <1>0, <1>1 DEF vars
<1>2. ASSUME NEW k \in orphans, ServeOrphan(k)
      PROVE  LoneInv'
  <2>1. ~Rotates(k) => UNCHANGED <<row, expired, broken>>
    BY <1>2 DEF ServeOrphan, Rotate, TypeInv, TypeOK
  <2>2. QED  BY <1>0, <1>2, <2>1 DEF ServeOrphan
<1>3. ASSUME NEW k \in Token, Outlive(k)
      PROVE  LoneInv'
  <2>1. UNCHANGED <<tab, stored, row, broken>> /\ expired \subseteq expired'
    BY <1>3 DEF Outlive
  <2>2. Open' = Open
    BY <2>1 DEF Open
  <2>3. \A x : GoodIn(x, row, expired) => GoodIn(x, row', expired')
    BY <2>1 DEF GoodIn
  <2>4. \A p : Fit(p, stored, row, expired) => Fit(p, stored', row', expired')
    BY <2>1, <2>3 DEF Fit
  <2>5. QED  BY <2>1, <2>2, <2>4 DEF LoneInv
<1>4. QED
  BY <1>1, <1>2, <1>3, ServeLone, BrowserLone, EnvironmentLone DEF Next

LEMMA LoneInit == Init => LoneInv
<1> SUFFICES ASSUME Init
             PROVE  LoneInv
  OBVIOUS
<1>1. \A t \in Tab : tab[t] = Blank
  BY DEF Init
<1>2. Open = {}
  BY <1>1 DEF Open, Blank
<1>3. QED  BY <1>1, <1>2, FS_EmptySet DEF LoneInv, Init

\* A lone tab is the only one.
LEMMA LoneIsAlone ==
  ASSUME LoneInv, Lone
  PROVE  \A t, u \in Open : t = u
<1> SUFFICES ASSUME NEW t \in Open, NEW u \in Open, t # u
             PROVE  FALSE
  OBVIOUS
<1>1. IsFiniteSet({t}) /\ Cardinality({t}) = 1
  BY FS_Singleton
<1>2. IsFiniteSet({t, u}) /\ Cardinality({t, u}) = 2
  <2>1. {t, u} = {t} \cup {u} /\ u \notin {t}
    OBVIOUS
  <2>2. QED  BY <1>1, <2>1, FS_AddElement
<1>3. Cardinality({t, u}) <= Cardinality(Open)
  BY FS_Subset DEF LoneInv
<1>4. Cardinality(Open) \in Nat
  BY FS_CardinalityType DEF LoneInv
<1>5. QED  BY <1>2, <1>3, <1>4 DEF Lone

LEMMA LoneFits ==
  ASSUME LoneInv, Lone, ~broken, NEW t \in Tab
  PROVE  tab[t].promise.state # "refused" /\ (tab[t].hook = "quit" => tab[t].lapsed)
<1>1. CASE t \in Open
  BY <1>1, LoneIsAlone DEF LoneInv, Fit, HookFit
<1>2. CASE t \notin Open
  BY <1>2 DEF LoneInv, Open, Blank, NoPromise
<1>3. QED  BY <1>1, <1>2

LEMMA LoneAlways == Spec => []LoneInv
BY TypeInit, TypeNext, FamilyInit, FamilyNext, StoredInit, StoredNext, LoneInit, LoneNext, PTL DEF Spec

\* SES-05: as long as a user keeps to one tab and no refresh was cut off, a refresh is
\* refused only because its token outlived its seven days, whatever the order of timer,
\* 401s, reconnects, sign-outs and logins (lib/api.ts, refreshAccessToken).
THEOREM LoneAccepted == Spec => []LoneNeverRefused
<1>1. LoneInv => LoneNeverRefused
  BY LoneFits DEF LoneNeverRefused
<1>2. QED  BY <1>1, LoneAlways, PTL

\* WSR-01: an expired access token, a refused ticket or close code 4001 never costs a
\* lone dashboard its socket while its refresh token has not expired itself
\* (hooks/useWebSocket.ts, connect and onclose).
THEOREM LoneConnected == Spec => []LoneKeepsSocket
<1>1. LoneInv => LoneKeepsSocket
  BY LoneFits DEF LoneKeepsSocket
<1>2. QED  BY <1>1, LoneAlways, PTL

-----------------------------------------------------------------------------
(* Whoever waits for a refresh waits for one that is there: the safety part of *)
(* WaitersResume, whose liveness is left to the model checker.                *)

Awaits(p) ==
  /\ p.page = "loading" => p.booting
  /\ p.booting \/ p.call = "waiting" \/ p.hook \in {"waiting", "renewing"} => p.promise.state # "none"

WaiterHasPromise == \A t \in Tab : Awaits(tab[t])

\* Only the fields named here matter.
LEMMA FewerWait ==
  ASSUME NEW p, NEW q, Awaits(p), q.page = "loading" => p.page = "loading" \/ q.booting,
         q.booting = p.booting, q.call = "waiting" => p.call = "waiting",
         q.hook \in {"waiting", "renewing"} => p.hook \in {"waiting", "renewing"},
         p.promise.state # "none" => q.promise.state # "none"
  PROVE  Awaits(q)
BY DEF Awaits

LEMMA LoadedAwaits ==
  ASSUME NEW p, NEW page, NEW kept
  PROVE  Awaits(Loaded(p, page, kept))
BY DEF Awaits, Loaded, Blank, NoPromise

LEMMA EnteredAwaits ==
  ASSUME NEW t, NEW p \in Page, ~p.booting, p.call # "waiting", p.hook \notin {"waiting", "renewing"}
  PROVE  Awaits(Entered(t, p))
BY DEF Awaits, Entered, Page

\* A settled promise leaves nobody waiting.
LEMMA ResumedAwaits ==
  ASSUME NEW t, NEW p \in Page
  PROVE  Awaits(Resumed(t, p))
<1>1. CASE p.call = "waiting" /\ p.access = "none"
  BY <1>1, LoadedAwaits DEF Resumed, Ejected
<1>2. CASE ~(p.call = "waiting" /\ p.access = "none")
  <2> PICK q : q = Settled(p)
    OBVIOUS
  <2>1. q.booting = FALSE /\ q.call # "waiting" /\ q.hook \notin {"waiting", "renewing"} /\ q.page = p.page
    BY NextHookIs DEF Settled, Page
  <2>2. q \in Page
    BY NextHookIs DEF Settled, Page, Hooks
  <2>3. Resumed(t, p) = IF p.page = "loading" THEN Entered(t, q) ELSE q
    BY <1>2, ResumedIs
  <2>4. QED  BY <2>1, <2>2, <2>3, EnteredAwaits DEF Awaits
<1>3. QED  BY <1>1, <1>2

\* Whoever asks for a refresh has one.
LEMMA AskRefreshAwaits ==
  ASSUME NEW p \in Page
  PROVE  /\ AskRefresh(p).promise.state # "none" /\ AskRefresh(p).page = p.page
         /\ AskRefresh(p).booting = p.booting /\ AskRefresh(p).call = p.call /\ AskRefresh(p).hook = p.hook
BY DEF AskRefresh, Page

\* One page changes.
LEMMA PageAwaits ==
  ASSUME TypeInv, WaiterHasPromise, NEW t \in Tab, NEW q, Awaits(q), tab' = [tab EXCEPT ![t] = q]
  PROVE  WaiterHasPromise'
BY DEF WaiterHasPromise, TypeInv, TypeOK

LEMMA HookAwaits ==
  ASSUME TypeInv, WaiterHasPromise, NEW t \in Tab, HookStep(t)
  PROVE  WaiterHasPromise'
<1> PICK p \in Page : p = tab[t] /\ Awaits(p)
  BY PageHere DEF WaiterHasPromise
<1> PICK h : Moved(t, h) \/ Joined(t, h)
  BY HookMoves
<1>1. CASE Moved(t, h)
  <2>1. Awaits([p EXCEPT !.hook = h])
    BY <1>1, FewerWait DEF Moved, Page
  <2>2. QED  BY <1>1, <2>1, PageAwaits DEF Moved
<1>2. CASE Joined(t, h)
  <2>1. PICK q \in Page : q = AskRefresh(p)
    BY AskRefreshPage
  <2>2. Awaits([q EXCEPT !.hook = h])
    BY <2>1, AskRefreshAwaits DEF Awaits, Page
  <2>3. QED  BY <1>2, <2>1, <2>2, PageAwaits DEF Joined
<1>3. QED  BY <1>1, <1>2

LEMMA BrowserAwaits ==
  ASSUME TypeInv, WaiterHasPromise, NEW t \in Tab, Browser(t)
  PROVE  WaiterHasPromise'
<1> PICK p \in Page : p = tab[t] /\ Holds(p) /\ Awaits(p)
  BY PageHere DEF WaiterHasPromise
<1>1. CASE RefreshSettles(t)
  <2> PICK w \in Page : tab' = [tab EXCEPT ![t] = Resumed(t, w)]
    BY <1>1, Settles
  <2>1. QED  BY ResumedAwaits, PageAwaits
<1>2. CASE CallReturns(t)
  <2>1. Awaits([p EXCEPT !.call = "none"])
    BY FewerWait DEF Page
  <2>2. QED  BY <1>2, <2>1, PageAwaits DEF CallReturns
<1>3. CASE CallRefreshes(t)
  <2>1. PICK q \in Page : q = AskRefresh(p)
    BY AskRefreshPage
  <2>2. Awaits([q EXCEPT !.call = "waiting"])
    BY <2>1, AskRefreshAwaits DEF Awaits, Page
  <2>3. tab' = [tab EXCEPT ![t] = [q EXCEPT !.call = "waiting"]]
    BY <1>3, <2>1 DEF CallRefreshes
  <2>4. QED  BY <2>2, <2>3, PageAwaits
<1>4. CASE CallEjects(t)
  BY <1>4, LoadedAwaits, PageAwaits DEF CallEjects, Ejected
<1>5. CASE HookStep(t)
  BY <1>5, HookAwaits
<1>7. CASE LoginArrives(t)
  <2> DEFINE q == WithTokens(p, p.signing)
             r == [q EXCEPT !.signing = None]
  <2>1. p.signing \in Token
    BY <1>7 DEF LoginArrives, Page
  <2>2. PageOK(q)
    BY <2>1, WithTokensOK
  <2>3. q.booting = p.booting /\ q.call = p.call /\ q.hook = p.hook /\ q.promise = p.promise
    BY DEF WithTokens, Page
  <2>4. tab' = [tab EXCEPT ![t] = [r EXCEPT !.page = "leaving"]]
    BY <1>7 DEF LoginArrives
  <2> HIDE DEF q
  <2>5. PageOK(r) /\ r.booting = q.booting /\ r.call = q.call /\ r.hook = q.hook /\ r.promise = q.promise
    <3>1. PageOK(r)
      BY <2>2, SetRest
    <3>2. r.booting = q.booting /\ r.call = q.call /\ r.hook = q.hook /\ r.promise = q.promise
      BY <2>2 DEF PageOK, Page
    <3>3. QED  BY <3>1, <3>2
  <2> HIDE DEF r
  <2>6. Awaits([r EXCEPT !.page = "leaving"])
    BY <2>3, <2>5 DEF Awaits, PageOK, Page
  <2>7. QED  BY <2>4, <2>6, PageAwaits
<1>8. CASE Navigate(t)
  <2>1. CASE p.booting
    <3>1. Awaits([p EXCEPT !.page = "loading"])
      BY <2>1 DEF Awaits, Page
    <3>2. QED  BY <1>8, <2>1, <3>1, PageAwaits DEF Navigate
  <2>2. CASE ~p.booting
    <3>1. Awaits(Entered(t, p))
      <4>1. Entered(t, p).page # "loading" /\ Entered(t, p).promise = p.promise
            /\ Entered(t, p).booting = p.booting /\ Entered(t, p).call = p.call
            /\ Entered(t, p).hook \in {p.hook, "due", "off"}
        BY DEF Entered, Page
      <4>2. QED  BY <4>1 DEF Awaits
    <3>2. QED  BY <1>8, <2>2, <3>1, PageAwaits DEF Navigate
  <2>3. QED  BY <2>1, <2>2
<1>9. QED
  BY <1>1, <1>2, <1>3, <1>4, <1>5, <1>7, <1>8 DEF Browser, HookStep

LEMMA OthersAwait ==
  ASSUME TypeInv, WaiterHasPromise, NEW t \in Tab, ServeRefresh(t) \/ Environment(t)
  PROVE  WaiterHasPromise'
<1> PICK p \in Page : p = tab[t] /\ Holds(p) /\ Awaits(p)
  BY PageHere DEF WaiterHasPromise
<1>1. ASSUME NEW page, Load(t, page)
      PROVE  WaiterHasPromise'
  BY <1>1, LoadedAwaits, PageAwaits DEF Load
<1>2. CASE TimedRefresh(t)
  <2>1. Awaits(AskRefresh(p))
    BY AskRefreshAwaits DEF Awaits
  <2>2. QED  BY <1>2, <2>1, PageAwaits DEF TimedRefresh
<1>3. CASE Expire(t)
  <2>1. Awaits([p EXCEPT !.access = "expired"])
    BY FewerWait DEF Page
  <2>2. tab' = [tab EXCEPT ![t] = [p EXCEPT !.access = "expired"]]
    BY <1>3 DEF Expire
  <2>3. QED  BY <2>1, <2>2, PageAwaits
<1>4. CASE ServeRefresh(t) \/ LoseRefresh(t)
  <2>1. PICK r : r.state # "none" /\ tab' = [tab EXCEPT ![t] = [p EXCEPT !.promise = r]]
    <3>1. CASE LoseRefresh(t)
      BY <3>1 DEF LoseRefresh
    <3>2. CASE ServeRefresh(t) /\ Rotates(p.promise.token)
      BY <3>2 DEF ServeRefresh
    <3>3. CASE ServeRefresh(t) /\ ~Rotates(p.promise.token)
      BY <3>3 DEF ServeRefresh
    <3>4. QED  BY <1>4, <3>1, <3>2, <3>3
  <2>2. Awaits([p EXCEPT !.promise = r])
    BY <2>1, FewerWait DEF Page
  <2>3. QED  BY <2>1, <2>2, PageAwaits
<1>5. CASE HookStep(t)
  BY <1>5, HookAwaits
<1>6. CASE Call(t)
  <2>1. Awaits([p EXCEPT !.call = "refused"])
    BY FewerWait DEF Page
  <2>2. QED  BY <1>6, <2>1, PageAwaits DEF Call
<1>7. CASE SignOut(t)
  <2> PICK h \in Hooks : h = IF p.hook = "refused" THEN "stray" ELSE "off"
    BY DEF Hooks
  <2> PICK q : q = SignedOut(p, h)
    OBVIOUS
  <2>1. /\ q.booting = p.booting /\ q.call = p.call /\ q.promise = p.promise /\ q.page = "login"
        /\ q.hook \in {"off", "stray"}
    BY SignedOutOK
  <2>2. tab' = [tab EXCEPT ![t] = q]
    BY <1>7, SignedOutIs
  <2>3. Awaits(q)
    BY <2>1, FewerWait
  <2>4. QED  BY <2>2, <2>3, PageAwaits
<1>8. CASE ServeLogin(t)
  <2>1. Awaits([p EXCEPT !.signing = NewToken])
    BY FewerWait DEF Page
  <2>2. QED  BY <1>8, <2>1, PageAwaits DEF ServeLogin
<1>9. QED
  BY <1>1, <1>2, <1>3, <1>4, <1>5, <1>6, <1>7, <1>8 DEF Environment, HookStep

\* The dashboard guard, an api() call and the socket hook never await a refresh that is
\* not there: as long as one of them waits, the tab has a request on its way or an
\* answer to handle, whatever timers, reconnects, sign-outs and logins share the
\* promise (lib/api.ts, refreshPromise and authReady).
THEOREM NobodyAwaitsNothing == Spec => []WaiterHasPromise
<1>1. Init => WaiterHasPromise
  BY DEF Init, WaiterHasPromise, Awaits, Blank, NoPromise
<1>2. TypeInv /\ WaiterHasPromise /\ [Next]_vars => WaiterHasPromise'
  <2>1. ASSUME NEW k \in orphans, ServeOrphan(k)
        PROVE  WaiterHasPromise => WaiterHasPromise'
    BY <2>1 DEF ServeOrphan, WaiterHasPromise
  <2>2. WaiterHasPromise /\ UNCHANGED vars => WaiterHasPromise'
    BY DEF WaiterHasPromise
  <2>3. \A k : Outlive(k) /\ WaiterHasPromise => WaiterHasPromise'
    BY DEF Outlive, WaiterHasPromise
  <2>4. QED  BY <2>1, <2>2, <2>3, BrowserAwaits, OthersAwait DEF Next
<1>3. QED  BY <1>1, <1>2, TypeInit, TypeNext, PTL DEF Spec
=============================================================================
