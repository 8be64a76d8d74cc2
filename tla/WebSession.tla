----------------------------- MODULE WebSession -----------------------------
(***************************************************************************)
(* Sign-in of the web application: the session each tab keeps in memory    *)
(* (lib/auth/session.ts, session-provider.tsx), the handlers of the Next   *)
(* server that own the refresh cookie (lib/auth/bff.ts), and the rotation  *)
(* of refresh tokens by the API behind them (internal/auth/service.go).    *)
(*                                                                         *)
(* A request carries the cookie of the moment it is sent.  Its handler     *)
(* goes on when the tab that sent it is gone; its answer, and the cookie   *)
(* in it, reach only a tab that still waits.                               *)
(***************************************************************************)
EXTENDS Integers, Sequences, FiniteSets, SequencesExt

CONSTANTS
    Tabs, Locks,                        \* navigator.locks is there
    MaxTokens, MaxRequests,             \* bounds: tokens issued, at once
    MaxFaults, MaxExpiries              \* bounds: mishaps and reexpiries

Tokens   == 1..MaxTokens
Requests == 1..MaxRequests
NoToken  == 0
Gone     == "gone"          \* the tab of a request nobody waits for

ASSUME WebSessionAssumption ==
    /\ {MaxTokens, MaxRequests, MaxFaults, MaxExpiries} \subseteq Nat
    /\ IsFiniteSet(Tabs) /\ Gone \notin Tabs /\ Locks \in BOOLEAN

VARIABLES
    tab,       \* what each tab shows and knows
    lockQueue, \* tabs whose refreshSession() runs or waits, in turn
    cookie,    \* the refresh token in the browser's cookie jar
    request,   \* requests to the Next server
    token,     \* the API's refresh_tokens: valid or revoked
    family,    \* family_id: the first token of the family
    faults, expiries,
    ended,     \* history: families a logout or a reset was asked for
    left,      \* history: families refreshed by a page when it was left
    raced,     \* history: families an answer was lost of, or raced by an end
    reused     \* history: families revoked because a token came twice

vars == <<tab, lockQueue, cookie, request, token, family, faults,
          expiries, ended, left, raced, reused>>

api     == <<token, family>>
history == <<ended, left, raced, reused>>
bounds  == <<faults, expiries>>

NoRequest == [kind |-> "none", tab |-> Gone, pc |-> "idle", token |-> NoToken,
              new |-> NoToken, leader |-> 0]
INITIAL_STATE == [page |-> "login", status |-> "loading"]

\* The pages are open, and nobody has signed in.
Init ==
    /\ tab       = [t \in Tabs |-> INITIAL_STATE]
    /\ lockQueue = SetToSeq(Tabs)
    /\ cookie    = NoToken
    /\ request   = [r \in Requests |-> NoRequest]
    /\ token     = [k \in Tokens |-> "none"]
    /\ family    = [k \in Tokens |-> NoToken]
    /\ faults = 0 /\ expiries = 0
    /\ ended = {} /\ left = {} /\ raced = {} /\ reused = {}

-----------------------------------------------------------------------------
(* What several handlers share                                             *)

Fault == faults < MaxFaults /\ faults' = faults + 1

\* Where the proxy lets a page go: by the cookie alone.
proxy(page, c) ==
    IF c = NoToken /\ page = "app" THEN "login"
    ELSE IF c # NoToken /\ page = "login" THEN "app" ELSE page

setSession(s)   == [s EXCEPT !.status = "authenticated"]
clearSession(s) == [s EXCEPT !.status = "anonymous"]

Waits(t, kind) == \E r \in Requests : request[r].tab = t /\ request[r].kind = kind

Sent(t, kind) == [NoRequest EXCEPT !.kind = kind, !.tab = t, !.pc = "sent", !.token = cookie]

Send(t, kind) ==
    \E r \in Requests :
        /\ request[r] = NoRequest
        /\ \A q \in Requests : request[q] = NoRequest => r <= q
        /\ request' = [request EXCEPT ![r] = Sent(t, kind)]

Families(S) == {family[k] : k \in S \ {NoToken}}
Under(kind, f) == \E r \in Requests : request[r].kind = kind /\ f \in Families({request[r].token})

\* refreshSession(): one at a time in a tab, in turn among the tabs.
refreshSession(t) ==
    lockQueue' = IF Contains(lockQueue, t) THEN lockQueue ELSE Append(lockQueue, t)

\* Mutant: refreshes run as they come, whatever the other tabs do.
GrantedAnyhow(t) == Contains(lockQueue, t)

Granted(t) == Contains(lockQueue, t) /\ (Locks => Head(lockQueue) = t)

-----------------------------------------------------------------------------
(* The tabs                                                                *)

\* A page is reloaded, or left for another: its memory is lost, and the
\* provider of the new one refreshes.
Load(t) ==
    LET abandoned == {r \in Requests : request[r].tab = t} IN
    /\ Fault
    /\ tab' = [tab EXCEPT ![t] = [INITIAL_STATE EXCEPT !.page = proxy(tab[t].page, cookie)]]
    /\ lockQueue' = Append(RemoveFirst(lockQueue, t), t)
    /\ request' = [r \in Requests |-> IF r \in abandoned THEN [request[r] EXCEPT !.tab = Gone] ELSE request[r]]
    /\ left' = left \cup Families({request[r].token : r \in {q \in abandoned : request[q].kind = "refresh"}})
    /\ UNCHANGED <<cookie, api, expiries, ended, raced, reused>>

\* performRefresh, once the lock is held.
performRefresh(t) ==
    /\ Granted(t) /\ ~Waits(t, "refresh")
    /\ Send(t, "refresh")
    /\ raced' = raced \cup {f \in Families({cookie}) : Under("logout", f)}
    /\ UNCHANGED <<tab, lockQueue, cookie, api, bounds, ended, left, reused>>

\* It ended: whoever awaited it goes on.
Refreshed(t, ok) ==
    /\ lockQueue' = RemoveFirst(lockQueue, t)
    /\ tab' = [tab EXCEPT ![t] = IF ok THEN setSession(@) ELSE clearSession(@)]

\* A call of the API without a token it takes is answered 401: it waits for
\* a refresh and is tried once more.
withRefreshRetry(t) ==
    /\ tab[t].page = "app"
    /\ IF tab[t].status = "authenticated" THEN expiries < MaxExpiries /\ expiries' = expiries + 1
                                         ELSE UNCHANGED expiries
    /\ refreshSession(t)
    /\ UNCHANGED <<tab, cookie, request, api, faults, history>>

\* The form of a public page, disabled while it submits.
LoginForm(t) == tab[t].page = "login" /\ ~Waits(t, "login")
SubmitLogin(t) ==
    /\ LoginForm(t)
    /\ \E k \in Tokens : token[k] = "none"
    /\ Send(t, "login")
    /\ UNCHANGED <<tab, lockQueue, cookie, api, bounds, history>>

\* Logging out outside the lock: a refresh of any tab may be on its way.
handleLogout(t) ==
    LET f == Families({cookie}) IN
    /\ tab[t].page = "app" /\ ~Waits(t, "logout")
    /\ Send(t, "logout")
    /\ ended' = ended \cup f
    /\ raced' = raced \cup {x \in f : Under("refresh", x)}
    /\ UNCHANGED <<tab, lockQueue, cookie, api, bounds, left, reused>>

-----------------------------------------------------------------------------
(* The Next server                                                         *)

Leads(r, k) == request[r].token = k /\ request[r].pc \in {"read", "revoke", "issue"}

\* Mutant: a refresh of a token under refresh is sent to the API as well.
refreshEach(r) == request' = [request EXCEPT ![r].pc = "read"]

\* One refresh of a token at a time: later ones wait for its answer.
refreshOnce(r) ==
    LET leaders == {l \in Requests : Leads(l, request[r].token)} IN
    request' = [request EXCEPT ![r] =
                  IF leaders = {} THEN [@ EXCEPT !.pc = "read"]
                  ELSE [@ EXCEPT !.pc = "joined", !.leader = CHOOSE l \in leaders : TRUE]]

refreshHandler(r) ==
    /\ request[r].kind = "refresh" /\ request[r].pc = "sent"
    /\ IF request[r].token = NoToken
       THEN request' = [request EXCEPT ![r].pc = "answered"] ELSE refreshOnce(r)
    /\ UNCHANGED <<tab, lockQueue, cookie, api, bounds, history>>

\* The answer of the API goes to the leader and to whoever joined it.
Settle(r, new) ==
    request' = [q \in Requests |->
        IF q = r \/ (request[q].pc = "joined" /\ request[q].leader = r)
        THEN [request[q] EXCEPT !.pc = "answered", !.new = new, !.leader = 0] ELSE request[q]]

\* No answer from the API, or a 5xx: refreshOnce makes it a failure, and
\* the API may have got as far as it likes.
GoFails(r) ==
    /\ Leads(r, request[r].token) /\ Fault
    /\ Settle(r, NoToken)
    /\ raced' = raced \cup Families({request[r].token})
    /\ UNCHANGED <<tab, lockQueue, cookie, api, expiries, ended, left, reused>>

\* Mutant: only the token in the cookie is dropped, the API is not told.
LogoutLocally(r) == UNCHANGED token

\* The API revokes the token it is sent, and no other of the family.
LogoutToken(r) ==
    token' = IF request[r].token = NoToken THEN token ELSE [token EXCEPT ![request[r].token] = "revoked"]

\* Errors are dropped: the cookie is cleared regardless.
logoutHandler(r) ==
    /\ request[r].kind = "logout" /\ request[r].pc = "sent"
    /\ request' = [request EXCEPT ![r].pc = "answered"]
    /\ \/ LogoutToken(r) /\ UNCHANGED <<faults, raced>>
       \/ Fault /\ UNCHANGED token /\ raced' = raced \cup Families({request[r].token})
    /\ UNCHANGED <<tab, lockQueue, cookie, family, expiries, ended, left, reused>>

-----------------------------------------------------------------------------
(* The API: three statements of Refresh, without a transaction             *)

Revoked(S) == token' = [k \in Tokens |-> IF token[k] = "valid" /\ family[k] \in S THEN "revoked" ELSE token[k]]

\* A token that was rotated away revokes its family.
GoRead(r) ==
    LET k == request[r].token IN
    /\ request[r].pc = "read"
    /\ IF token[k] = "valid"
       THEN request' = [request EXCEPT ![r].pc = "revoke"] /\ UNCHANGED <<token, reused>>
       ELSE Revoked({family[k]}) /\ Settle(r, NoToken) /\ reused' = reused \cup {family[k]}
    /\ UNCHANGED <<tab, lockQueue, cookie, family, bounds, ended, left, raced>>

GoRevoke(r) ==
    /\ request[r].pc = "revoke"
    /\ token' = [token EXCEPT ![request[r].token] = "revoked"]
    /\ request' = [request EXCEPT ![r].pc = "issue"]
    /\ UNCHANGED <<tab, lockQueue, cookie, family, bounds, history>>

NextToken == CHOOSE k \in Tokens : token[k] = "none" /\ \A j \in Tokens : token[j] = "none" => k <= j

Issue(f) ==
    /\ \E k \in Tokens : token[k] = "none"
    /\ token'  = [token EXCEPT ![NextToken] = "valid"]
    /\ family' = [family EXCEPT ![NextToken] = IF f = NoToken THEN NextToken ELSE f]

GoIssue(r) ==
    /\ request[r].pc = "issue"
    /\ Issue(family[request[r].token])
    /\ Settle(r, NextToken)
    /\ UNCHANGED <<tab, lockQueue, cookie, bounds, history>>

\* Signup and Login begin a family, or are refused.
authenticate(r) ==
    /\ request[r].kind = "login" /\ request[r].pc = "sent"
    /\ \/ Issue(NoToken) /\ request' = [request EXCEPT ![r].pc = "answered", ![r].new = NextToken]
       \/ request' = [request EXCEPT ![r].pc = "answered"] /\ UNCHANGED api
    /\ UNCHANGED <<tab, lockQueue, cookie, bounds, history>>

\* A new password ends every session of the user, unless the last of the
\* statements that set it fails.
ConfirmPasswordReset ==
    LET all == Families({k \in Tokens : token[k] # "none"}) IN
    /\ Fault
    /\ Revoked(all)
    /\ ended' = ended \cup all
    /\ raced' = raced \cup {f \in all : Under("refresh", f)}
    /\ UNCHANGED <<tab, lockQueue, cookie, request, family, expiries, left, reused>>

-----------------------------------------------------------------------------
(* The answers                                                             *)

\* Cookie and session as the answer says, whatever happened meanwhile.
RefreshAnswered(r) ==
    /\ request[r].kind = "refresh" /\ request[r].pc = "answered" /\ request[r].tab # Gone
    /\ cookie' = IF request[r].token = NoToken THEN cookie ELSE request[r].new
    /\ Refreshed(request[r].tab, request[r].new # NoToken)
    /\ request' = [request EXCEPT ![r] = NoRequest]
    /\ UNCHANGED <<api, bounds, history>>

LoginAnswered(r) ==
    LET t == request[r].tab IN
    /\ request[r].kind = "login" /\ request[r].pc = "answered" /\ t # Gone
    /\ IF request[r].new = NoToken THEN UNCHANGED <<cookie, tab>>
       ELSE /\ cookie' = request[r].new
            /\ tab' = [tab EXCEPT ![t] = [setSession(@) EXCEPT !.page = "app"]]
    /\ request' = [request EXCEPT ![r] = NoRequest]
    /\ UNCHANGED <<lockQueue, api, bounds, history>>

LogoutAnswered(r) ==
    LET t == request[r].tab IN
    /\ request[r].kind = "logout" /\ request[r].pc = "answered" /\ t # Gone
    /\ cookie' = NoToken
    /\ tab' = [tab EXCEPT ![t] = [clearSession(@) EXCEPT !.page = "login"]]
    /\ request' = [request EXCEPT ![r] = NoRequest]
    /\ UNCHANGED <<lockQueue, api, bounds, history>>

\* The connection breaks, before or after the server has done its work.
Lost(r) ==
    LET t == request[r].tab IN
    /\ t # Gone /\ Fault
    /\ request' = [request EXCEPT ![r].tab = Gone]
    /\ \/ request[r].kind = "refresh" /\ Refreshed(t, FALSE)
       \/ request[r].kind = "login" /\ UNCHANGED <<tab, lockQueue>>
       \/ request[r].kind = "logout" /\ tab' = [tab EXCEPT ![t] = clearSession(@)] /\ UNCHANGED lockQueue
    /\ raced' = raced \cup Families({request[r].token})
    /\ UNCHANGED <<cookie, api, expiries, ended, left, reused>>

\* Nobody waits for it.
Unheard(r) ==
    /\ request[r].pc = "answered" /\ request[r].tab = Gone
    /\ request' = [request EXCEPT ![r] = NoRequest]
    /\ UNCHANGED <<tab, lockQueue, cookie, api, bounds, history>>

-----------------------------------------------------------------------------
Handler(r) ==
    \/ refreshHandler(r) \/ GoRead(r) \/ GoRevoke(r) \/ GoIssue(r)
    \/ authenticate(r) \/ logoutHandler(r)
    \/ RefreshAnswered(r) \/ LoginAnswered(r) \/ LogoutAnswered(r) \/ Unheard(r)

Next ==
    \/ \E t \in Tabs :
          \/ Load(t) \/ performRefresh(t) \/ withRefreshRetry(t) \/ SubmitLogin(t) \/ handleLogout(t)
    \/ \E r \in Requests : Handler(r) \/ GoFails(r) \/ Lost(r)
    \/ ConfirmPasswordReset

Spec == Init /\ [][Next]_vars

=============================================================================
