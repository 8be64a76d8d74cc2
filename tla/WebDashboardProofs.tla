------------------------- MODULE WebDashboardProofs -------------------------
(***************************************************************************)
(* Proofs about what the operator's browser does: the session, an event's  *)
(* export card and forms, the photobooths' page, the branding page and the *)
(* upload queue.                                                           *)
(***************************************************************************)
EXTENDS WebSessionProps, WebDashboard, BrowserUploadsProps, FiniteSums, SequenceTheorems, TLAPS

-----------------------------------------------------------------------------
(***************************************************************************)
(* The session, for any number of tabs, requests, tokens and mishaps.      *)
(*                                                                         *)
(* A family has one valid token because its rotations follow one another:  *)
(* a token is at the API in one request; the one that has read it valid    *)
(* holds the only valid token of its family, the one that has revoked it   *)
(* leaves none, and no other gets past its read meanwhile.                 *)
(*                                                                         *)
(* With locks one refresh is waited for in the whole browser.  While a     *)
(* family has had no mishap, whoever refreshes it is waited for, so it has *)
(* one refresh: the cookie is valid whenever the next one is sent.         *)
(***************************************************************************)
Kinds    == {"none", "refresh", "login", "logout"}
AtApi    == {"read", "revoke", "issue"}
OrNone   == Tokens \cup {NoToken}
RequestRecords ==
    [kind : Kinds, tab : Tabs \cup {Gone}, pc : AtApi \cup {"idle", "sent", "joined", "answered"},
     token : OrNone, new : OrNone, leader : Requests \cup {0}]

SessionTypeOK ==
    /\ token \in [Tokens -> {"none", "valid", "revoked"}]
    /\ family \in [Tokens -> OrNone]
    /\ cookie \in OrNone
    /\ request \in [Requests -> RequestRecords]

\* Every token that is about was issued, and has a family that was.
Issued(k) == k # NoToken => token[k] # "none"
TokensIssued ==
    /\ Issued(cookie)
    /\ \A r \in Requests : Issued(request[r].token) /\ Issued(request[r].new)
FamiliesIssued ==
    \A k \in Tokens : token[k] # "none" => family[k] \in Tokens /\ token[family[k]] # "none"

\* Of a token one request is at the API, and whoever joined waits for it.
OneLeader ==
    /\ \A r \in Requests : request[r].pc \in AtApi => request[r].kind = "refresh" /\ request[r].token # NoToken
    /\ \A q, r \in Requests : request[q].pc \in AtApi /\ Leads(r, request[q].token) => q = r
JoinedLeader ==
    \A q \in Requests : request[q].pc = "joined" =>
        request[q].kind = "refresh" /\ request[q].leader \in Requests /\ Leads(request[q].leader, request[q].token)

\* Between the read of a token and the issue of the next: of a family one
\* request is there, first with the only valid token, then with none left.
OfFamily(r) == {k \in Tokens : family[k] = family[request[r].token] /\ token[k] = "valid"}
OneRotation ==
    /\ \A q, r \in Requests :
          request[q].pc \in {"revoke", "issue"} /\ request[r].pc \in {"revoke", "issue"} /\ q # r =>
              family[request[q].token] # family[request[r].token]
    /\ \A r \in Requests : request[r].pc = "revoke" => OfFamily(r) \subseteq {request[r].token}
    /\ \A r \in Requests : request[r].pc = "issue" => OfFamily(r) = {}

TokenInv ==
    /\ SessionTypeOK /\ TokensIssued /\ FamiliesIssued
    /\ OneLeader /\ JoinedLeader /\ OneRotation /\ OneValidToken

-----------------------------------------------------------------------------
LEMMA Constants ==
  /\ Tokens \subseteq Nat \ {0} /\ Requests \subseteq Nat \ {0} /\ NoToken \notin Tokens /\ NoToken = 0
  /\ Gone \notin Tabs /\ NoRequest \in RequestRecords
  /\ NoRequest.pc = "idle" /\ NoRequest.kind = "none" /\ NoRequest.token = NoToken /\ NoRequest.new = NoToken
  /\ NoRequest.tab = Gone /\ NoRequest.leader = 0
BY WebSessionAssumption DEF Tokens, Requests, NoToken, NoRequest, RequestRecords, Kinds, AtApi, OrNone, WebSessionAssumption

LEMMA TokenInitInv == Init => TokenInv
BY Constants DEF Init, TokenInv, SessionTypeOK, TokensIssued, FamiliesIssued, OneLeader, JoinedLeader, OneRotation, OneValidToken,
   Issued, Leads, OfFamily, OrNone, AtApi

\* What is not about the API: requests come and go, and those at the API stay
\* where they are.
Aside == {"idle", "sent", "answered"}
LEMMA AsideStep ==
  ASSUME TokenInv, UNCHANGED api,
         request' \in [Requests -> RequestRecords], cookie' \in OrNone, TokensIssued',
         \A r \in Requests :
            \/ request'[r].pc = request[r].pc /\ request'[r].kind = request[r].kind
               /\ request'[r].token = request[r].token /\ request'[r].leader = request[r].leader
            \/ request[r].pc \in Aside /\ request'[r].pc \in Aside
  PROVE  TokenInv'
<1>. USE Constants DEF TokenInv
<1>1. SessionTypeOK'
  BY DEF SessionTypeOK, api
<1>2. FamiliesIssued'
  BY DEF FamiliesIssued, api
<1>3. OneLeader'
  BY DEF OneLeader, Leads, Aside, AtApi
<1>4. JoinedLeader'
  <2>1. ASSUME NEW q \in Requests, request'[q].pc = "joined"
        PROVE  /\ request'[q].kind = "refresh" /\ request'[q].leader \in Requests
               /\ request'[request'[q].leader].token = request'[q].token
               /\ request'[request'[q].leader].pc \in AtApi
    <3>1. /\ request'[q].token = request[q].token /\ request'[q].leader = request[q].leader
          /\ request'[q].kind = request[q].kind /\ request[q].pc = "joined"
      BY <2>1 DEF Aside
    <3>2. request[q].kind = "refresh" /\ request[q].leader \in Requests /\ Leads(request[q].leader, request[q].token)
      BY <3>1 DEF JoinedLeader
    <3>3. PICK l \in Requests : l = request[q].leader
      BY <3>2
    <3>4. request[l].pc \in AtApi /\ request[l].token = request[q].token
      BY <3>2, <3>3 DEF Leads, AtApi
    <3>5. request'[l].pc = request[l].pc /\ request'[l].token = request[l].token
      BY <3>4 DEF Aside, AtApi
    <3>. QED BY <3>1, <3>2, <3>3, <3>4, <3>5
  <2>. QED BY <2>1 DEF JoinedLeader, Leads, AtApi
<1>5. OneRotation'
  BY DEF OneRotation, OfFamily, Aside, AtApi, api
<1>6. OneValidToken'
  BY DEF OneValidToken, api
<1>. QED BY <1>1, <1>2, <1>3, <1>4, <1>5, <1>6

LEMMA Asked ==
  ASSUME TokenInv, NEW t \in Tabs, NEW kind \in Kinds, Send(t, kind)
  PROVE  \E r \in Requests :
           /\ request[r] = NoRequest
           /\ request' = [request EXCEPT ![r] = Sent(t, kind)]
           /\ Sent(t, kind) \in RequestRecords
           /\ Sent(t, kind).pc = "sent" /\ Sent(t, kind).kind = kind /\ Sent(t, kind).tab = t
           /\ Sent(t, kind).token = cookie /\ Sent(t, kind).new = NoToken
BY Constants DEF Send, Sent, TokenInv, SessionTypeOK, RequestRecords, NoRequest

LEMMA SendStep ==
  ASSUME TokenInv, NEW t \in Tabs, NEW kind \in Kinds, Send(t, kind), UNCHANGED <<cookie, api>>
  PROVE  TokenInv'
<1>1. PICK r \in Requests :
           /\ request[r] = NoRequest
           /\ request' = [request EXCEPT ![r] = Sent(t, kind)]
           /\ Sent(t, kind) \in RequestRecords
           /\ Sent(t, kind).pc = "sent" /\ Sent(t, kind).kind = kind /\ Sent(t, kind).tab = t
           /\ Sent(t, kind).token = cookie /\ Sent(t, kind).new = NoToken
  BY Asked
<1>2. request' \in [Requests -> RequestRecords] /\ cookie' \in OrNone
  BY <1>1 DEF TokenInv, SessionTypeOK
<1>3. TokensIssued'
  BY <1>1 DEF TokenInv, TokensIssued, Issued, SessionTypeOK, api
<1>4. \A q \in Requests : q # r => request'[q] = request[q]
  BY <1>1 DEF TokenInv, SessionTypeOK
<1>5. request[r].pc \in Aside /\ request'[r].pc \in Aside
  BY <1>1, Constants DEF Aside, TokenInv, SessionTypeOK
<1>. QED BY <1>2, <1>3, <1>4, <1>5, AsideStep DEF api

\* What a tab does by itself.
LEMMA TabActions ==
  ASSUME TokenInv, NEW t \in Tabs
  PROVE  /\ Load(t) => TokenInv'
         /\ performRefresh(t) => TokenInv'
         /\ withRefreshRetry(t) => TokenInv'
         /\ SubmitLogin(t) => TokenInv'
         /\ handleLogout(t) => TokenInv'
<1>1. Load(t) => TokenInv'
  <2>. SUFFICES ASSUME Load(t) PROVE TokenInv'
    OBVIOUS
  <2>1. ASSUME NEW r \in Requests
        PROVE  /\ request'[r].pc = request[r].pc /\ request'[r].kind = request[r].kind
               /\ request'[r].token = request[r].token /\ request'[r].leader = request[r].leader
               /\ request'[r].new = request[r].new /\ request'[r] \in RequestRecords
    BY DEF Load, TokenInv, SessionTypeOK, RequestRecords
  <2>2. request' \in [Requests -> RequestRecords] /\ cookie' \in OrNone
    BY <2>1 DEF Load, TokenInv, SessionTypeOK
  <2>3. TokensIssued'
    BY <2>1 DEF Load, TokenInv, TokensIssued, Issued, api
  <2>. QED BY <2>1, <2>2, <2>3, AsideStep DEF Load
<1>2. performRefresh(t) => TokenInv'
  BY SendStep DEF performRefresh, Kinds
<1>3. withRefreshRetry(t) => TokenInv'
  BY AsideStep DEF withRefreshRetry, TokenInv, SessionTypeOK, TokensIssued, Issued, api
<1>4. SubmitLogin(t) => TokenInv'
  BY SendStep DEF SubmitLogin, Kinds
<1>5. handleLogout(t) => TokenInv'
  BY SendStep DEF handleLogout, Kinds
<1>. QED BY <1>1, <1>2, <1>3, <1>4, <1>5

\* An answer is taken, or nobody waits for it.
LEMMA AnswersTokens ==
  ASSUME TokenInv, NEW r \in Requests
  PROVE  /\ RefreshAnswered(r) => TokenInv'
         /\ LoginAnswered(r) => TokenInv'
         /\ LogoutAnswered(r) => TokenInv'
         /\ Unheard(r) => TokenInv'
         /\ Lost(r) => TokenInv'
<1>1. ASSUME request[r].pc = "answered", request' = [request EXCEPT ![r] = NoRequest],
             cookie' \in {cookie, NoToken, request[r].new}, UNCHANGED api
      PROVE  TokenInv'
  <2>1. request' \in [Requests -> RequestRecords] /\ cookie' \in OrNone
    BY <1>1, Constants DEF TokenInv, SessionTypeOK, OrNone, RequestRecords
  <2>2. TokensIssued'
    BY <1>1, Constants DEF TokenInv, TokensIssued, Issued, SessionTypeOK, api
  <2>3. \A q \in Requests : q # r => request'[q] = request[q]
    BY <1>1 DEF TokenInv, SessionTypeOK
  <2>4. request[r].pc \in Aside /\ request'[r].pc \in Aside
    BY <1>1, Constants DEF Aside, TokenInv, SessionTypeOK
  <2>. QED BY <1>1, <2>1, <2>2, <2>3, <2>4, AsideStep
<1>2. RefreshAnswered(r) => TokenInv'
  BY <1>1 DEF RefreshAnswered
<1>3. LoginAnswered(r) => TokenInv'
  BY <1>1 DEF LoginAnswered
<1>4. LogoutAnswered(r) => TokenInv'
  BY <1>1 DEF LogoutAnswered
<1>5. Unheard(r) => TokenInv'
  BY <1>1 DEF Unheard
<1>6. Lost(r) => TokenInv'
  <2>. SUFFICES ASSUME Lost(r) PROVE TokenInv'
    OBVIOUS
  <2>1. ASSUME NEW q \in Requests
        PROVE  /\ request'[q].pc = request[q].pc /\ request'[q].kind = request[q].kind
               /\ request'[q].token = request[q].token /\ request'[q].leader = request[q].leader
               /\ request'[q].new = request[q].new /\ request'[q] \in RequestRecords
    BY DEF Lost, TokenInv, SessionTypeOK, RequestRecords
  <2>2. request' \in [Requests -> RequestRecords] /\ cookie' \in OrNone
    BY <2>1 DEF Lost, TokenInv, SessionTypeOK
  <2>3. TokensIssued'
    BY <2>1 DEF Lost, TokenInv, TokensIssued, Issued, api
  <2>. QED BY <2>1, <2>2, <2>3, AsideStep DEF Lost
<1>. QED BY <1>2, <1>3, <1>4, <1>5, <1>6

\* Requests go on to the API one token at a time.
LEMMA HandlerTokens ==
  ASSUME TokenInv, NEW r \in Requests, refreshHandler(r)
  PROVE  TokenInv'
<1>. USE Constants DEF TokenInv
<1>. DEFINE leaders == {l \in Requests : Leads(l, request[r].token)}
<1>1. CASE request[r].token = NoToken
  <2>1. request' = [request EXCEPT ![r].pc = "answered"]
    BY <1>1 DEF refreshHandler
  <2>2. request' \in [Requests -> RequestRecords] /\ cookie' \in OrNone
    BY <2>1 DEF SessionTypeOK, RequestRecords, refreshHandler
  <2>3. TokensIssued'
    BY <2>1 DEF TokensIssued, Issued, SessionTypeOK, refreshHandler, api, RequestRecords
  <2>4. \A q \in Requests : q # r => request'[q] = request[q]
    BY <2>1 DEF SessionTypeOK
  <2>5. request[r].pc \in Aside /\ request'[r].pc \in Aside
    BY <2>1 DEF Aside, SessionTypeOK, refreshHandler, RequestRecords
  <2>. QED BY <2>2, <2>3, <2>4, <2>5, AsideStep DEF refreshHandler
<1>2. ASSUME request[r].token # NoToken, request[r].kind = "refresh", request[r].pc = "sent",
             UNCHANGED <<cookie, api>>, NEW pc \in {"read", "joined"}, NEW l \in Requests \cup {0},
             pc = "joined" => l \in leaders, pc = "read" => leaders = {},
             request' = [request EXCEPT ![r] = [request[r] EXCEPT !.pc = pc, !.leader = l]]
      PROVE  TokenInv'
  <2>1. /\ request'[r].pc = pc /\ request'[r].leader = l /\ request'[r].kind = "refresh"
        /\ request'[r].token = request[r].token /\ request'[r].new = request[r].new
        /\ request' \in [Requests -> RequestRecords] /\ \A q \in Requests : q # r => request'[q] = request[q]
    BY <1>2 DEF SessionTypeOK, RequestRecords, AtApi
  <2>2. SessionTypeOK'
    BY <1>2, <2>1 DEF SessionTypeOK, api
  <2>3. TokensIssued' /\ FamiliesIssued' /\ OneValidToken'
    BY <1>2, <2>1 DEF TokensIssued, Issued, FamiliesIssued, OneValidToken, api
  <2>4. OneLeader'
    BY <1>2, <2>1 DEF OneLeader, Leads, AtApi
  <2>5. JoinedLeader'
    BY <1>2, <2>1 DEF JoinedLeader, Leads, AtApi
  <2>6. OneRotation'
    BY <1>2, <2>1 DEF OneRotation, OfFamily, api
  <2>. QED BY <2>2, <2>3, <2>4, <2>5, <2>6
<1>3. CASE request[r].token # NoToken /\ leaders = {}
  <2>1. request' = [request EXCEPT ![r] = [request[r] EXCEPT !.pc = "read"]]
    BY <1>3 DEF refreshHandler, refreshOnce
  <2>2. request[r].leader \in Requests \cup {0} /\ [request[r] EXCEPT !.pc = "read"] = [request[r] EXCEPT !.pc = "read", !.leader = request[r].leader]
    BY DEF SessionTypeOK, RequestRecords
  <2>. QED BY <1>2, <1>3, <2>1, <2>2 DEF refreshHandler
<1>4. CASE request[r].token # NoToken /\ leaders # {}
  <2>1. request' = [request EXCEPT ![r] = [request[r] EXCEPT !.pc = "joined", !.leader = CHOOSE l \in leaders : TRUE]]
    BY <1>4 DEF refreshHandler, refreshOnce
  <2>2. (CHOOSE l \in leaders : TRUE) \in leaders
    BY <1>4
  <2>. QED BY <1>2, <1>4, <2>1, <2>2 DEF refreshHandler
<1>. QED BY <1>1, <1>3, <1>4

\* The answer of the API: its request and those that joined it are answered.
LEMMA Settled ==
  ASSUME TokenInv, NEW r \in Requests, request[r].pc \in AtApi, NEW new \in OrNone, Settle(r, new)
  PROVE  /\ request' \in [Requests -> RequestRecords]
         /\ \A q \in Requests :
              /\ request'[q].kind = request[q].kind /\ request'[q].token = request[q].token
              /\ request'[q].tab = request[q].tab
              /\ \/ q # r /\ request'[q] = request[q] /\ ~(request[q].pc = "joined" /\ request[q].leader = r)
                 \/ /\ request'[q].pc = "answered" /\ request'[q].new = new
                    /\ request[q].kind = "refresh" /\ request[q].token = request[r].token
                    /\ q = r \/ request[q].pc = "joined"
         /\ OneLeader' /\ JoinedLeader'
<1>. USE DEF TokenInv
<1>1. ASSUME NEW q \in Requests
      PROVE  /\ request'[q] \in RequestRecords
             /\ request'[q].kind = request[q].kind /\ request'[q].token = request[q].token
             /\ request'[q].tab = request[q].tab
             /\ \/ q # r /\ request'[q] = request[q] /\ ~(request[q].pc = "joined" /\ request[q].leader = r)
                \/ /\ request'[q].pc = "answered" /\ request'[q].new = new /\ (q = r \/ (request[q].pc = "joined" /\ request[q].leader = r))
  BY Constants DEF Settle, SessionTypeOK, RequestRecords
<1>2. ASSUME NEW q \in Requests, q = r \/ (request[q].pc = "joined" /\ request[q].leader = r)
      PROVE  request[q].kind = "refresh" /\ request[q].token = request[r].token
  BY <1>2 DEF OneLeader, JoinedLeader, Leads
<1>3. request' \in [Requests -> RequestRecords]
  BY <1>1 DEF Settle
<1>4. OneLeader'
  BY <1>1 DEF OneLeader, Leads, AtApi
<1>5. JoinedLeader'
  <2>1. ASSUME NEW q \in Requests, request'[q].pc = "joined"
        PROVE  request'[q].kind = "refresh" /\ request'[q].leader \in Requests /\ Leads(request[q].leader, request[q].token)
               /\ request'[request[q].leader] = request[request[q].leader] /\ request'[q] = request[q]
    <3>1. request'[q] = request[q] /\ request[q].leader # r
      BY <1>1, <2>1
    <3>2. request[q].leader \in Requests /\ Leads(request[q].leader, request[q].token)
      BY <3>1, <2>1 DEF JoinedLeader
    <3>3. request[request[q].leader].pc # "joined"
      BY <3>2 DEF Leads
    <3>. QED BY <1>1, <2>1, <3>1, <3>2, <3>3 DEF JoinedLeader
  <2>. QED BY <2>1 DEF JoinedLeader, Leads
<1>. QED BY <1>1, <1>2, <1>3, <1>4, <1>5

\* Only the request that leads is left of the rotation.
LEMMA SettledTokens ==
  ASSUME TokenInv, NEW r \in Requests, request[r].pc \in AtApi, NEW new \in OrNone, Settle(r, new),
         token' \in [Tokens -> {"none", "valid", "revoked"}], UNCHANGED <<cookie, family>>,
         \A k \in Tokens : token[k] # "none" => token'[k] # "none",
         \A k \in Tokens : token'[k] # "none" => token[k] # "none",
         \A k \in Tokens : token'[k] = "valid" => token[k] = "valid", new = NoToken
  PROVE  TokenInv'
<1>. USE DEF TokenInv
<1>1. /\ request' \in [Requests -> RequestRecords]
      /\ \A q \in Requests :
              /\ request'[q].kind = request[q].kind /\ request'[q].token = request[q].token
              /\ request'[q] = request[q] \/ (request'[q].pc = "answered" /\ request'[q].new = new)
      /\ OneLeader' /\ JoinedLeader'
  BY Settled
<1>2. SessionTypeOK'
  BY <1>1 DEF SessionTypeOK
<1>3. TokensIssued'
  <2>1. \A k \in OrNone : (k # NoToken => token[k] # "none") => (k # NoToken => token'[k] # "none")
    BY DEF OrNone
  <2>2. \A q \in Requests : request[q].token \in OrNone /\ request[q].new \in OrNone
    BY DEF SessionTypeOK, RequestRecords
  <2>3. cookie \in OrNone
    BY DEF SessionTypeOK
  <2>. QED BY <1>1, <2>1, <2>2, <2>3 DEF TokensIssued, Issued
<1>4. FamiliesIssued'
  BY DEF FamiliesIssued
<1>5. OneRotation'
  BY <1>1 DEF OneRotation, OfFamily
<1>6. OneValidToken'
  BY DEF OneValidToken
<1>. QED BY <1>1, <1>2, <1>3, <1>4, <1>5, <1>6

LEMMA FailsTokens ==
  ASSUME TokenInv, NEW r \in Requests, GoFails(r)
  PROVE  TokenInv'
BY SettledTokens DEF GoFails, Leads, AtApi, api, OrNone, TokenInv, SessionTypeOK

LEMMA ReadTokens ==
  ASSUME TokenInv, NEW r \in Requests, GoRead(r)
  PROVE  TokenInv'
<1>. USE DEF TokenInv
<1>. DEFINE k == request[r].token
<1>1. k \in Tokens /\ request[r].pc = "read" /\ request[r].kind = "refresh"
  BY DEF GoRead, OneLeader, SessionTypeOK, RequestRecords, OrNone, AtApi
<1>2. CASE token[k] = "valid"
  <2>1. request' = [request EXCEPT ![r].pc = "revoke"] /\ UNCHANGED <<token, family, cookie>>
    BY <1>2 DEF GoRead
  <2>2. /\ request'[r].pc = "revoke" /\ request'[r].leader = request[r].leader /\ request'[r].kind = "refresh"
        /\ request'[r].token = k /\ request'[r].new = request[r].new
        /\ request' \in [Requests -> RequestRecords] /\ \A q \in Requests : q # r => request'[q] = request[q]
    BY <1>1, <2>1 DEF SessionTypeOK, RequestRecords, AtApi
  <2>3. SessionTypeOK' /\ TokensIssued' /\ FamiliesIssued' /\ OneValidToken'
    BY <2>1, <2>2 DEF SessionTypeOK, TokensIssued, Issued, FamiliesIssued, OneValidToken
  <2>4. OneLeader'
    BY <1>1, <2>2 DEF OneLeader, Leads, AtApi
  <2>5. JoinedLeader'
    BY <1>1, <2>2 DEF JoinedLeader, Leads
  <2>6. OfFamily(r) \subseteq {k} /\ k \in OfFamily(r)
    BY <1>1, <1>2 DEF OneValidToken, OfFamily
  <2>7. ASSUME NEW q \in Requests, q # r, request[q].pc \in {"revoke", "issue"}
        PROVE  family[request[q].token] # family[k]
    <3>1. k \notin OfFamily(q)
      BY <1>1, <2>7 DEF OneRotation, OneLeader, Leads, AtApi
    <3>. QED BY <1>1, <1>2, <3>1 DEF OfFamily
  <2>8. OneRotation'
    BY <1>1, <2>1, <2>2, <2>6, <2>7 DEF OneRotation, OfFamily
  <2>. QED BY <2>3, <2>4, <2>5, <2>8
<1>3. CASE token[k] # "valid"
  <2>1. Revoked({family[k]}) /\ Settle(r, NoToken) /\ UNCHANGED <<cookie, family>>
    BY <1>3 DEF GoRead
  <2>2. \A j \in Tokens : token'[j] = IF token[j] = "valid" /\ family[j] \in {family[k]} THEN "revoked" ELSE token[j]
    BY <2>1 DEF Revoked
  <2>3. token' \in [Tokens -> {"none", "valid", "revoked"}]
    BY <2>1 DEF Revoked, SessionTypeOK
  <2>4. NoToken \in OrNone /\ request[r].pc \in AtApi
    BY <1>1 DEF OrNone, AtApi
  <2>. QED BY <1>1, <2>1, <2>2, <2>3, <2>4, SettledTokens
<1>. QED BY <1>2, <1>3

LEMMA RevokeTokens ==
  ASSUME TokenInv, NEW r \in Requests, GoRevoke(r)
  PROVE  TokenInv'
<1>. USE DEF TokenInv
<1>. DEFINE k == request[r].token
<1>1. k \in Tokens /\ request[r].pc = "revoke" /\ request[r].kind = "refresh" /\ token[k] # "none"
  BY DEF GoRevoke, OneLeader, SessionTypeOK, RequestRecords, OrNone, AtApi, TokensIssued, Issued
<1>2. /\ request'[r].pc = "issue" /\ request'[r].leader = request[r].leader /\ request'[r].kind = "refresh"
      /\ request'[r].token = k /\ request'[r].new = request[r].new
      /\ request' \in [Requests -> RequestRecords] /\ \A q \in Requests : q # r => request'[q] = request[q]
      /\ token' \in [Tokens -> {"none", "valid", "revoked"}] /\ token'[k] = "revoked"
      /\ \A j \in Tokens : j # k => token'[j] = token[j]
      /\ UNCHANGED <<family, cookie>>
  BY <1>1 DEF GoRevoke, SessionTypeOK, RequestRecords, AtApi
<1>3. SessionTypeOK'
  BY <1>2 DEF SessionTypeOK
<1>4. TokensIssued'
  <2>1. \A j \in OrNone : (j # NoToken => token[j] # "none") => (j # NoToken => token'[j] # "none")
    BY <1>2 DEF OrNone
  <2>2. \A q \in Requests : request[q].token \in OrNone /\ request[q].new \in OrNone
    BY DEF SessionTypeOK, RequestRecords
  <2>3. cookie \in OrNone
    BY DEF SessionTypeOK
  <2>4. \A q \in Requests : request'[q].token = request[q].token /\ request'[q].new = request[q].new
    BY <1>2
  <2>. QED BY <1>2, <2>1, <2>2, <2>3, <2>4 DEF TokensIssued, Issued
<1>5. FamiliesIssued' /\ OneValidToken'
  BY <1>1, <1>2 DEF FamiliesIssued, OneValidToken
<1>6. OneLeader'
  BY <1>1, <1>2 DEF OneLeader, Leads, AtApi
<1>7. JoinedLeader'
  BY <1>1, <1>2 DEF JoinedLeader, Leads
<1>8. OfFamily(r) \subseteq {k}
  BY <1>1 DEF OneRotation
<1>9. OneRotation'
  BY <1>1, <1>2, <1>8 DEF OneRotation, OfFamily
<1>. QED BY <1>3, <1>4, <1>5, <1>6, <1>7, <1>9

\* The next token is one that was not issued.
LEMMA NextIsNew ==
  ASSUME \E k \in Tokens : token[k] = "none"
  PROVE  NextToken \in Tokens /\ token[NextToken] = "none"
<1>. DEFINE S == {k \in Tokens : token[k] = "none"}
<1>1. S \in SUBSET Nat /\ S # {}
  BY Constants
<1>2. PICK k \in S : \A j \in S : k <= j
  BY <1>1, Least
<1>. QED BY <1>2 DEF NextToken

\* A token that is issued: of the family of the one it replaces, or of its own.
LEMMA Issues ==
  ASSUME TokenInv, NEW f \in OrNone, Issue(f), f # NoToken => f \in Tokens /\ token[f] # "none"
  PROVE  /\ NextToken \in Tokens /\ token[NextToken] = "none"
         /\ token' \in [Tokens -> {"none", "valid", "revoked"}] /\ family' \in [Tokens -> OrNone]
         /\ token'[NextToken] = "valid" /\ family'[NextToken] = (IF f = NoToken THEN NextToken ELSE f)
         /\ \A k \in Tokens : k # NextToken => token'[k] = token[k] /\ family'[k] = family[k]
         /\ \A k \in Tokens : token[k] # "none" => k # NextToken
         /\ FamiliesIssued'
<1>. USE DEF TokenInv
<1>1. NextToken \in Tokens /\ token[NextToken] = "none"
  BY NextIsNew DEF Issue
<1>2. /\ token' \in [Tokens -> {"none", "valid", "revoked"}] /\ family' \in [Tokens -> OrNone]
      /\ token'[NextToken] = "valid" /\ family'[NextToken] = (IF f = NoToken THEN NextToken ELSE f)
      /\ \A k \in Tokens : k # NextToken => token'[k] = token[k] /\ family'[k] = family[k]
  BY <1>1 DEF Issue, SessionTypeOK, OrNone
<1>3. FamiliesIssued'
  <2>1. ASSUME NEW k \in Tokens, k # NextToken, token'[k] # "none"
        PROVE  family'[k] \in Tokens /\ token'[family'[k]] # "none"
    <3>1. family[k] \in Tokens /\ token[family[k]] # "none" /\ family'[k] = family[k]
      BY <1>2, <2>1 DEF FamiliesIssued
    <3>. QED BY <1>1, <1>2, <3>1
  <2>2. family'[NextToken] \in Tokens /\ token'[family'[NextToken]] # "none"
    BY <1>1, <1>2
  <2>. QED BY <2>1, <2>2 DEF FamiliesIssued
<1>. QED BY <1>1, <1>2, <1>3

LEMMA IssueTokens ==
  ASSUME TokenInv, NEW r \in Requests, GoIssue(r)
  PROVE  TokenInv'
<1>. USE DEF TokenInv
<1>. DEFINE k == request[r].token
            f == family[k]
            n == NextToken
<1>1. k \in Tokens /\ request[r].pc \in AtApi /\ token[k] # "none" /\ request[r].pc = "issue"
  BY Constants DEF GoIssue, OneLeader, SessionTypeOK, RequestRecords, OrNone, AtApi, TokensIssued, Issued
<1>2. f \in Tokens /\ token[f] # "none" /\ f # NoToken
  BY <1>1, Constants DEF FamiliesIssued
<1>3. Issue(f) /\ Settle(r, n) /\ cookie' = cookie
  BY DEF GoIssue
<1>4. /\ n \in Tokens /\ token[n] = "none"
      /\ token' \in [Tokens -> {"none", "valid", "revoked"}] /\ family' \in [Tokens -> OrNone]
      /\ token'[n] = "valid" /\ family'[n] = f
      /\ \A j \in Tokens : j # n => token'[j] = token[j] /\ family'[j] = family[j]
      /\ \A j \in Tokens : token[j] # "none" => j # n
      /\ FamiliesIssued'
  <2>. HIDE DEF f
  <2>. QED BY <1>2, <1>3, Issues DEF OrNone
<1>. HIDE DEF n
<1>5. /\ request' \in [Requests -> RequestRecords]
      /\ \A q \in Requests :
              /\ request'[q].kind = request[q].kind /\ request'[q].token = request[q].token
              /\ \/ q # r /\ request'[q] = request[q]
                 \/ request'[q].pc = "answered" /\ request'[q].new = n
      /\ OneLeader' /\ JoinedLeader'
  BY <1>1, <1>3, <1>4, Settled DEF OrNone
<1>6. \A q \in Requests : request[q].token \in OrNone /\ request[q].new \in OrNone
  BY DEF SessionTypeOK, RequestRecords
<1>7. SessionTypeOK'
  BY <1>3, <1>4, <1>5 DEF SessionTypeOK
<1>8. TokensIssued'
  <2>1. \A j \in OrNone : (j # NoToken => token[j] # "none") => (j # NoToken => token'[j] # "none")
    BY <1>4 DEF OrNone
  <2>2. cookie \in OrNone
    BY DEF SessionTypeOK
  <2>. QED BY <1>3, <1>4, <1>5, <1>6, <2>1, <2>2 DEF TokensIssued, Issued
<1>9. \A q \in Requests : request'[q].pc \in {"revoke", "issue"} =>
         request'[q].token = request[q].token /\ request'[q].pc = request[q].pc /\ q # r
         /\ request[q].token \in Tokens /\ request[q].token # n
  BY <1>4, <1>5, <1>6 DEF OneLeader, AtApi, OrNone, TokensIssued, Issued
<1>10. OneRotation'
  <2>1. \A q \in Requests : request'[q].pc \in {"revoke", "issue"} =>
          family'[request[q].token] = family[request[q].token] /\ family[request[q].token] # f
    BY <1>1, <1>4, <1>9 DEF OneRotation
  <2>2. \A q \in Requests : request'[q].pc \in {"revoke", "issue"} => OfFamily(q)' = OfFamily(q)
    BY <1>4, <1>9, <2>1 DEF OfFamily
  <2>. QED BY <1>9, <2>1, <2>2 DEF OneRotation
<1>11. OneValidToken'
  <2>1. \A j \in Tokens : family[j] = f => token[j] # "valid"
    BY <1>1 DEF OneRotation, OfFamily
  <2>. QED BY <1>4, <2>1 DEF OneValidToken
<1>. QED BY <1>4, <1>5, <1>7, <1>8, <1>10, <1>11

LEMMA LoginTokens ==
  ASSUME TokenInv, NEW r \in Requests, authenticate(r)
  PROVE  TokenInv'
<1>. USE DEF TokenInv
<1>. DEFINE n == NextToken
<1>1. CASE request' = [request EXCEPT ![r].pc = "answered"] /\ UNCHANGED api
  <2>1. request' \in [Requests -> RequestRecords] /\ cookie' \in OrNone
    BY <1>1 DEF SessionTypeOK, RequestRecords, authenticate
  <2>2. TokensIssued'
    BY <1>1 DEF TokensIssued, Issued, SessionTypeOK, authenticate, api, RequestRecords
  <2>3. \A q \in Requests : q # r => request'[q] = request[q]
    BY <1>1 DEF SessionTypeOK
  <2>4. request[r].pc \in Aside /\ request'[r].pc \in Aside
    BY <1>1 DEF Aside, SessionTypeOK, authenticate, RequestRecords
  <2>. QED BY <1>1, <2>1, <2>2, <2>3, <2>4, AsideStep
<1>2. CASE Issue(NoToken) /\ request' = [request EXCEPT ![r].pc = "answered", ![r].new = NextToken]
  <2>1. /\ n \in Tokens /\ token[n] = "none"
        /\ token' \in [Tokens -> {"none", "valid", "revoked"}] /\ family' \in [Tokens -> OrNone]
        /\ token'[n] = "valid" /\ family'[n] = n
        /\ \A j \in Tokens : j # n => token'[j] = token[j] /\ family'[j] = family[j]
        /\ \A j \in Tokens : token[j] # "none" => j # n
        /\ FamiliesIssued'
    BY <1>2, Issues DEF OrNone
  <2>. HIDE DEF n
  <2>2. /\ request'[r].pc = "answered" /\ request'[r].new = n /\ request'[r].token = request[r].token
        /\ request' \in [Requests -> RequestRecords] /\ cookie' = cookie
        /\ \A q \in Requests : q # r => request'[q] = request[q]
    <3>1. request[r] \in RequestRecords /\ cookie' = cookie
      BY DEF authenticate, SessionTypeOK
    <3>2. request' = [request EXCEPT ![r] = [request[r] EXCEPT !.pc = "answered", !.new = n]]
      BY <1>2 DEF n, SessionTypeOK
    <3>3. [request[r] EXCEPT !.pc = "answered", !.new = n] \in RequestRecords
      BY <2>1, <3>1 DEF RequestRecords, OrNone
    <3>. HIDE DEF n
    <3>. QED BY <3>1, <3>2, <3>3 DEF SessionTypeOK, RequestRecords
  <2>3. \A q \in Requests : request[q].token \in OrNone /\ request[q].new \in OrNone
    BY DEF SessionTypeOK, RequestRecords
  <2>4. SessionTypeOK'
    BY <2>1, <2>2 DEF SessionTypeOK
  <2>5. TokensIssued'
    <3>1. \A j \in OrNone : (j # NoToken => token[j] # "none") => (j # NoToken => token'[j] # "none")
      BY <2>1 DEF OrNone
    <3>2. cookie \in OrNone
      BY DEF SessionTypeOK
    <3>. QED BY <2>1, <2>2, <2>3, <3>1, <3>2 DEF TokensIssued, Issued
  <2>6. OneLeader'
    BY <2>2 DEF OneLeader, Leads, AtApi
  <2>7. JoinedLeader'
    BY <2>2 DEF JoinedLeader, Leads, authenticate
  <2>8. \A q \in Requests : request'[q].pc \in {"revoke", "issue"} =>
           /\ request'[q] = request[q] /\ request[q].token \in Tokens
           /\ token[request[q].token] # "none" /\ family[request[q].token] # n
    BY <2>1, <2>2, <2>3 DEF OneLeader, AtApi, OrNone, TokensIssued, Issued, FamiliesIssued
  <2>9. OneRotation'
    <3>1. \A q \in Requests : request'[q].pc \in {"revoke", "issue"} => OfFamily(q)' = OfFamily(q)
      BY <2>1, <2>8 DEF OfFamily
    <3>. QED BY <2>1, <2>8, <3>1 DEF OneRotation
  <2>10. OneValidToken'
    BY <2>1 DEF OneValidToken, FamiliesIssued
  <2>. QED BY <2>1, <2>4, <2>5, <2>6, <2>7, <2>9, <2>10
<1>. QED BY <1>1, <1>2 DEF authenticate

\* Tokens are revoked, and nothing else is done to them.
LEMMA RevokedTokens ==
  ASSUME TokenInv, token' \in [Tokens -> {"none", "valid", "revoked"}], UNCHANGED <<cookie, family>>,
         \A k \in Tokens : token'[k] = token[k] \/ (token[k] # "none" /\ token'[k] = "revoked"),
         request' \in [Requests -> RequestRecords],
         \A r \in Requests : 
            \/ request'[r] = request[r]
            \/ request[r].pc \in Aside /\ request'[r].pc \in Aside /\ request'[r].kind = request[r].kind
               /\ request'[r].token = request[r].token /\ request'[r].new = request[r].new
  PROVE  TokenInv'
<1>. USE DEF TokenInv
<1>1. SessionTypeOK'
  BY DEF SessionTypeOK
<1>2. TokensIssued'
  <2>1. \A k \in OrNone : (k # NoToken => token[k] # "none") => (k # NoToken => token'[k] # "none")
    BY DEF OrNone
  <2>2. \A q \in Requests : request[q].token \in OrNone /\ request[q].new \in OrNone
    BY DEF SessionTypeOK, RequestRecords
  <2>3. cookie \in OrNone
    BY DEF SessionTypeOK
  <2>4. \A q \in Requests : request'[q].token = request[q].token /\ request'[q].new = request[q].new
    OBVIOUS
  <2>. QED BY <2>1, <2>2, <2>3, <2>4 DEF TokensIssued, Issued
<1>3. FamiliesIssued' /\ OneValidToken'
  BY DEF FamiliesIssued, OneValidToken
<1>4. OneLeader'
  BY DEF OneLeader, Leads, AtApi, Aside
<1>5. JoinedLeader'
  BY DEF JoinedLeader, Leads, Aside
<1>6. OneRotation'
  BY DEF OneRotation, OfFamily, Aside
<1>. QED BY <1>1, <1>2, <1>3, <1>4, <1>5, <1>6

LEMMA LogoutTokens ==
  ASSUME TokenInv, NEW r \in Requests, logoutHandler(r)
  PROVE  TokenInv'
<1>. USE DEF TokenInv
<1>1. /\ request' \in [Requests -> RequestRecords]
      /\ \A q \in Requests :
            \/ request'[q] = request[q]
            \/ request[q].pc \in Aside /\ request'[q].pc \in Aside /\ request'[q].kind = request[q].kind
               /\ request'[q].token = request[q].token /\ request'[q].new = request[q].new
  BY DEF logoutHandler, SessionTypeOK, RequestRecords, Aside
<1>2. /\ token' \in [Tokens -> {"none", "valid", "revoked"}]
      /\ \A k \in Tokens : token'[k] = token[k] \/ (token[k] # "none" /\ token'[k] = "revoked")
  BY DEF logoutHandler, LogoutToken, SessionTypeOK, TokensIssued, Issued
<1>. QED BY <1>1, <1>2, RevokedTokens DEF logoutHandler

LEMMA ResetTokens ==
  ASSUME TokenInv, ConfirmPasswordReset
  PROVE  TokenInv'
<1>1. /\ token' \in [Tokens -> {"none", "valid", "revoked"}]
      /\ \A k \in Tokens : token'[k] = token[k] \/ (token[k] # "none" /\ token'[k] = "revoked")
  BY DEF TokenInv, ConfirmPasswordReset, Revoked, SessionTypeOK
<1>. QED BY <1>1, RevokedTokens DEF ConfirmPasswordReset, TokenInv, SessionTypeOK

LEMMA TokenStep == TokenInv /\ [Next]_vars => TokenInv'
<1>. SUFFICES ASSUME TokenInv, [Next]_vars PROVE TokenInv'
  OBVIOUS
<1>1. ASSUME NEW t \in Tabs,
             Load(t) \/ performRefresh(t) \/ withRefreshRetry(t) \/ SubmitLogin(t) \/ handleLogout(t)
      PROVE  TokenInv'
  BY <1>1, TabActions
<1>2. ASSUME NEW r \in Requests, Handler(r) \/ GoFails(r) \/ Lost(r)
      PROVE  TokenInv'
  BY <1>2, HandlerTokens, ReadTokens, RevokeTokens, IssueTokens, LoginTokens, LogoutTokens, AnswersTokens, FailsTokens
  DEF Handler
<1>3. CASE UNCHANGED vars
  BY <1>3, AsideStep DEF vars, TokenInv, SessionTypeOK, TokensIssued, Issued, api
<1>. QED BY <1>1, <1>2, <1>3, ResetTokens DEF Next

LEMMA TokenInvariance == Spec => []TokenInv
BY TokenInitInv, TokenStep, PTL DEF Spec

\* A family has one token that can still be used, with or without locks in
\* the browser (bff.ts:129, service.go:167).
THEOREM OneValidPerFamily == Spec => []OneValidToken
BY TokenInvariance, PTL DEF TokenInv

LEMMA Removed ==
  ASSUME NEW q \in Seq(Tabs), NEW t \in Tabs
  PROVE  /\ RemoveFirst(q, t) \in Seq(Tabs)
         /\ q # <<>> /\ Head(q) # t => RemoveFirst(q, t) # <<>> /\ Head(RemoveFirst(q, t)) = Head(q)
<1>. DEFINE I == {i \in 1..Len(q) : q[i] = t}
<1>1. CASE I = {}
  BY <1>1 DEF RemoveFirst
<1>2. CASE I # {}
  <2>1. I \in SUBSET Nat
    OBVIOUS
  <2>2. PICK m \in I : \A i \in I : m <= i
    BY <1>2, <2>1, Least
  <2>3. Min(I) \in I
    BY <2>2 DEF Min
  <2>4. SelectInSeq(q, LAMBDA v : v = t) = Min(I)
    BY <1>2 DEF SelectInSeq
  <2>5. RemoveFirst(q, t) = RemoveAt(q, Min(I))
    BY <1>2, <2>4 DEF RemoveFirst
  <2>6. PICK i \in 1..Len(q) : i = Min(I) /\ q[i] = t
    BY <2>3
  <2>. DEFINE a == SubSeq(q, 1, i-1)
              b == SubSeq(q, i+1, Len(q))
  <2>7. RemoveFirst(q, t) = a \o b
    BY <2>5, <2>6 DEF RemoveAt
  <2>8. a \in Seq(Tabs) /\ b \in Seq(Tabs)
    <3>1. i \in Int /\ Len(q) \in Nat /\ i >= 1 /\ i <= Len(q)
      BY <2>6
    <3>2. \A j \in 1..i-1 : j \in 1..Len(q)
      BY <3>1
    <3>3. \A j \in i+1..Len(q) : j \in 1..Len(q)
      BY <3>1
    <3>. QED BY <2>6, <3>1, <3>2, <3>3, SubSeqProperties
  <2>9. a \o b \in Seq(Tabs)
    BY <2>8
  <2>10. ASSUME q # <<>>, Head(q) # t PROVE a \o b # <<>> /\ Head(a \o b) = Head(q)
    <3>1. i # 1 /\ Head(q) = q[1]
      BY <2>6, <2>10
    <3>2. Len(a) = i-1 /\ a[1] = q[1] /\ i-1 >= 1
      BY <2>6, <3>1, SubSeqProperties
    <3>3. Len(a \o b) >= 1 /\ (a \o b)[1] = a[1]
      BY <2>8, <3>2, ConcatProperties
    <3>. QED BY <2>9, <3>1, <3>2, <3>3
  <2>. QED BY <2>7, <2>9, <2>10
<1>. QED BY <1>1, <1>2

LEMMA Appended ==
  ASSUME NEW q \in Seq(Tabs), NEW t \in Tabs
  PROVE  /\ Append(q, t) \in Seq(Tabs)
         /\ q # <<>> => Append(q, t) # <<>> /\ Head(Append(q, t)) = Head(q)
OBVIOUS

LEMMA QueueOfTabs == SetToSeq(Tabs) \in Seq(Tabs)
<1>1. IsFiniteSet(Tabs)
  BY WebSessionAssumption DEF WebSessionAssumption
<1>2. PICK n \in Nat : ExistsBijection(1..n, Tabs)
  BY <1>1, FS_NatBijection
<1>3. Cardinality(Tabs) = n
  BY <1>1, <1>2, FS_CountingElements
<1>4. PICK f : f \in Bijection(1..n, Tabs)
  BY <1>2 DEF ExistsBijection
<1>5. f \in [1..n -> Tabs] /\ IsInjective(f)
  BY <1>4 DEF Bijection, Injection, Surjection, IsInjective
<1>6. SetToSeq(Tabs) \in [1..n -> Tabs]
  BY <1>3, <1>5 DEF SetToSeq
<1>. QED BY <1>6, SeqDef

\* With locks one refresh is waited for, by the tab at the head of the queue.
Waited(r) == request[r].kind = "refresh" /\ request[r].tab # Gone
LockInv ==
    /\ lockQueue \in Seq(Tabs)
    /\ \A r \in Requests : Waited(r) => lockQueue # <<>> /\ Head(lockQueue) = request[r].tab
    /\ \A q, r \in Requests : Waited(q) /\ Waited(r) => q = r

LEMMA LockInitInv == Init => LockInv
BY Constants, QueueOfTabs DEF Init, LockInv, Waited

\* Nobody waits for a refresh who did not before.
LEMMA LockAside ==
  ASSUME LockInv,
         lockQueue' = lockQueue \/ \E t \in Tabs : lockQueue' = Append(lockQueue, t),
         \A r \in Requests : Waited(r)' => Waited(r) /\ request'[r].tab = request[r].tab
  PROVE  LockInv'
<1>1. /\ lockQueue' \in Seq(Tabs)
      /\ lockQueue # <<>> => lockQueue' # <<>> /\ Head(lockQueue') = Head(lockQueue)
  BY Appended DEF LockInv
<1>2. \A r \in Requests : Waited(r)' => lockQueue' # <<>> /\ Head(lockQueue') = request'[r].tab
  BY <1>1 DEF LockInv
<1>3. \A q, r \in Requests : Waited(q)' /\ Waited(r)' => q = r
  BY DEF LockInv
<1>. QED BY <1>1, <1>2, <1>3 DEF LockInv

LEMMA LockSent ==
  ASSUME TokenInv, LockInv, NEW t \in Tabs, NEW kind \in {"login", "logout"}, Send(t, kind), UNCHANGED lockQueue
  PROVE  LockInv'
<1>1. PICK r \in Requests :
           /\ request' = [request EXCEPT ![r] = Sent(t, kind)]
           /\ Sent(t, kind).kind = kind
  BY Asked DEF Kinds
<1>2. \A q \in Requests : Waited(q)' => Waited(q) /\ request'[q].tab = request[q].tab
  BY <1>1 DEF Waited, TokenInv, SessionTypeOK
<1>. QED BY <1>2, LockAside

LEMMA LockRefresh ==
  ASSUME TokenInv, LockInv, Locks, NEW t \in Tabs, performRefresh(t)
  PROVE  LockInv' /\ \A q \in Requests : ~Waited(q)
<1>1. PICK r \in Requests :
           /\ request' = [request EXCEPT ![r] = Sent(t, "refresh")]
           /\ Sent(t, "refresh").kind = "refresh" /\ Sent(t, "refresh").tab = t
  BY Asked DEF Kinds, performRefresh
<1>2. Head(lockQueue) = t /\ lockQueue # <<>> /\ lockQueue' = lockQueue
  BY DEF performRefresh, Granted, Contains
<1>3. \A q \in Requests : ~Waited(q)
  BY <1>2 DEF LockInv, Waited, performRefresh, Waits
<1>4. \A q \in Requests : Waited(q)' => q = r /\ request'[q].tab = t
  BY <1>1, <1>3 DEF Waited, TokenInv, SessionTypeOK
<1>5. LockInv'
  BY <1>1, <1>2, <1>4 DEF LockInv
<1>. QED BY <1>3, <1>5

\* The one that is waited for is answered, or lost, or its page is left.
LEMMA LockEnded ==
  ASSUME TokenInv, LockInv, NEW t \in Tabs,
         lockQueue' \in {RemoveFirst(lockQueue, t), Append(RemoveFirst(lockQueue, t), t)},
         \A r \in Requests : Waited(r)' => Waited(r) /\ request'[r].tab = request[r].tab /\ request[r].tab # t
  PROVE  LockInv'
<1>. DEFINE q == RemoveFirst(lockQueue, t)
<1>1. /\ q \in Seq(Tabs)
      /\ lockQueue # <<>> /\ Head(lockQueue) # t => q # <<>> /\ Head(q) = Head(lockQueue)
  BY Removed DEF LockInv
<1>2. /\ lockQueue' \in Seq(Tabs)
      /\ lockQueue # <<>> /\ Head(lockQueue) # t => lockQueue' # <<>> /\ Head(lockQueue') = Head(lockQueue)
  <2>. HIDE DEF q
  <2>1. Append(q, t) \in Seq(Tabs) /\ (q # <<>> => Append(q, t) # <<>> /\ Head(Append(q, t)) = Head(q))
    BY <1>1, Appended
  <2>. QED BY <1>1, <2>1 DEF q
<1>3. \A r \in Requests : Waited(r)' => lockQueue' # <<>> /\ Head(lockQueue') = request'[r].tab
  BY <1>2 DEF LockInv
<1>4. \A p, r \in Requests : Waited(p)' /\ Waited(r)' => p = r
  BY DEF LockInv
<1>. QED BY <1>2, <1>3, <1>4 DEF LockInv

\* The server and the API know nothing of tabs.
LEMMA SamePlace ==
  ASSUME TokenInv, NEW r \in Requests,
         \/ refreshHandler(r) \/ GoRead(r) \/ GoRevoke(r) \/ GoIssue(r) \/ GoFails(r)
         \/ authenticate(r) \/ logoutHandler(r)
  PROVE  \A q \in Requests : /\ request'[q].kind = request[q].kind /\ request'[q].tab = request[q].tab
                            /\ request'[q].token = request[q].token
<1>. SUFFICES ASSUME NEW q \in Requests
              PROVE  /\ request'[q].kind = request[q].kind /\ request'[q].tab = request[q].tab
                     /\ request'[q].token = request[q].token
  OBVIOUS
<1>. USE DEF TokenInv, SessionTypeOK, RequestRecords
<1>1. ASSUME NEW new, Settle(r, new)
      PROVE  /\ request'[q].kind = request[q].kind /\ request'[q].tab = request[q].tab
             /\ request'[q].token = request[q].token
  BY <1>1 DEF Settle
<1>2. CASE GoRead(r)
  BY <1>1, <1>2 DEF GoRead
<1>3. CASE GoIssue(r) \/ GoFails(r)
  BY <1>1, <1>3 DEF GoIssue, GoFails
<1>4. CASE refreshHandler(r)
  <2>1. \/ request' = [request EXCEPT ![r].pc = "answered"]
        \/ request' = [request EXCEPT ![r] = [@ EXCEPT !.pc = "read"]]
        \/ \E l : request' = [request EXCEPT ![r] = [@ EXCEPT !.pc = "joined", !.leader = l]]
    BY <1>4 DEF refreshHandler, refreshOnce
  <2>2. CASE request' = [request EXCEPT ![r].pc = "answered"]
    BY <2>2
  <2>3. CASE request' = [request EXCEPT ![r] = [@ EXCEPT !.pc = "read"]]
    BY <2>3
  <2>4. ASSUME NEW l, request' = [request EXCEPT ![r] = [@ EXCEPT !.pc = "joined", !.leader = l]]
        PROVE  /\ request'[q].kind = request[q].kind /\ request'[q].tab = request[q].tab
               /\ request'[q].token = request[q].token
    BY <2>4
  <2>. QED BY <2>1, <2>2, <2>3, <2>4
<1>5. CASE authenticate(r)
  <2>1. \/ request' = [request EXCEPT ![r].pc = "answered"]
        \/ \E n : request' = [request EXCEPT ![r].pc = "answered", ![r].new = n]
    BY <1>5 DEF authenticate
  <2>2. ASSUME NEW n, request' = [request EXCEPT ![r].pc = "answered", ![r].new = n]
        PROVE  /\ request'[q].kind = request[q].kind /\ request'[q].tab = request[q].tab
               /\ request'[q].token = request[q].token
    BY <2>2
  <2>. QED BY <2>1, <2>2
<1>6. CASE GoRevoke(r) \/ logoutHandler(r)
  BY <1>6 DEF GoRevoke, logoutHandler
<1>. QED BY <1>2, <1>3, <1>4, <1>5, <1>6

LEMMA LockStep ==
  ASSUME TokenInv, LockInv, Locks, [Next]_vars
  PROVE  LockInv'
<1>. USE DEF Waited
<1>1. ASSUME NEW t \in Tabs, Load(t) PROVE LockInv'
  <2>1. \A r \in Requests : Waited(r)' => Waited(r) /\ request'[r].tab = request[r].tab /\ request[r].tab # t
    BY <1>1 DEF Load, TokenInv, SessionTypeOK, RequestRecords
  <2>. QED BY <1>1, <2>1, LockEnded DEF Load
<1>2. ASSUME NEW t \in Tabs, performRefresh(t) PROVE LockInv'
  BY <1>2, LockRefresh
<1>3. ASSUME NEW t \in Tabs, withRefreshRetry(t) PROVE LockInv'
  BY <1>3, LockAside DEF withRefreshRetry, refreshSession
<1>4. ASSUME NEW t \in Tabs, SubmitLogin(t) \/ handleLogout(t) PROVE LockInv'
  BY <1>4, LockSent DEF SubmitLogin, handleLogout
<1>5. ASSUME NEW r \in Requests, RefreshAnswered(r) PROVE LockInv'
  <2>1. request[r].tab \in Tabs /\ lockQueue' = RemoveFirst(lockQueue, request[r].tab)
    BY <1>5 DEF RefreshAnswered, Refreshed, TokenInv, SessionTypeOK, RequestRecords
  <2>2. \A q \in Requests : ~Waited(q)'
    BY <1>5, Constants DEF LockInv, RefreshAnswered, TokenInv, SessionTypeOK
  <2>. QED BY <2>1, <2>2, LockEnded
<1>6. ASSUME NEW r \in Requests, LoginAnswered(r) \/ LogoutAnswered(r) \/ Unheard(r) PROVE LockInv'
  <2>1. \A q \in Requests : Waited(q)' => Waited(q) /\ request'[q].tab = request[q].tab
    BY <1>6, Constants DEF LoginAnswered, LogoutAnswered, Unheard, TokenInv, SessionTypeOK
  <2>. QED BY <1>6, <2>1, LockAside DEF LoginAnswered, LogoutAnswered, Unheard
<1>7. ASSUME NEW r \in Requests, Lost(r) PROVE LockInv'
  <2>1. \A q \in Requests : Waited(q)' => q # r /\ Waited(q) /\ request'[q].tab = request[q].tab
    BY <1>7 DEF Lost, TokenInv, SessionTypeOK, RequestRecords
  <2>2. CASE request[r].kind # "refresh"
    BY <1>7, <2>1, <2>2, LockAside DEF Lost
  <2>3. CASE request[r].kind = "refresh"
    <3>1. request[r].tab \in Tabs /\ lockQueue' = RemoveFirst(lockQueue, request[r].tab)
      BY <1>7, <2>3 DEF Lost, Refreshed, TokenInv, SessionTypeOK, RequestRecords
    <3>2. \A q \in Requests : ~Waited(q)'
      BY <1>7, <2>1, <2>3 DEF LockInv, Lost
    <3>. QED BY <3>1, <3>2, LockEnded
  <2>. QED BY <2>2, <2>3
<1>8. ASSUME NEW r \in Requests,
             refreshHandler(r) \/ GoRevoke(r) \/ authenticate(r) \/ logoutHandler(r)
      PROVE  LockInv'
  <2>1. \A q \in Requests : request'[q].kind = request[q].kind /\ request'[q].tab = request[q].tab
    BY <1>8, SamePlace
  <2>. QED BY <1>8, <2>1, LockAside DEF refreshHandler, GoRevoke, authenticate, logoutHandler
<1>9. ASSUME NEW r \in Requests, GoRead(r) \/ GoIssue(r) \/ GoFails(r)
      PROVE  LockInv'
  <2>1. \A q \in Requests : request'[q].kind = request[q].kind /\ request'[q].tab = request[q].tab
    BY <1>9, SamePlace
  <2>. QED BY <1>9, <2>1, LockAside DEF GoRead, GoIssue, GoFails
<1>10. CASE ConfirmPasswordReset \/ UNCHANGED vars
  BY <1>10, LockAside DEF ConfirmPasswordReset, vars
<1>. QED
  BY <1>1, <1>2, <1>3, <1>4, <1>5, <1>6, <1>7, <1>8, <1>9, <1>10 DEF Next, Handler

\* A family with no mishap: no page left, no answer lost, not ended.
Clean(f) == f \notin left \cup raced \cup ended
CleanRefresh(r) ==
    request[r].kind = "refresh" /\ request[r].token # NoToken /\ Clean(family[request[r].token])

AnswersOfFamily ==
    \A r \in Requests :
        /\ request[r].new # NoToken => request[r].pc = "answered"
        /\ request[r].kind = "logout" =>
              /\ request[r].new = NoToken
              /\ request[r].token # NoToken => family[request[r].token] \in ended
        /\ request[r].kind = "refresh" /\ request[r].new # NoToken =>
              request[r].token # NoToken /\ family[request[r].new] = family[request[r].token]

\* Of a clean family a refresh is waited for and rotates a valid token.
CleanRefreshes ==
    \A r \in Requests : CleanRefresh(r) =>
        /\ request[r].tab # Gone /\ request[r].pc # "joined"
        /\ request[r].pc \in {"sent", "read", "revoke"} => token[request[r].token] = "valid"
        /\ request[r].pc = "answered" => request[r].new # NoToken /\ token[request[r].new] = "valid"

\* The cookie of a clean family is valid, or about to be replaced.
Replaced(k) == \E r \in Requests :
    request[r].kind = "refresh" /\ request[r].token = k /\ request[r].pc \in {"issue", "answered"}
CleanCookie ==
    cookie # NoToken /\ Clean(family[cookie]) => token[cookie] = "valid" \/ Replaced(cookie)

\* What a login answers with is valid, and nobody else has it yet.
CleanLogins ==
    \A r \in Requests :
        request[r].kind = "login" /\ request[r].new # NoToken /\ Clean(family[request[r].new]) =>
            /\ token[request[r].new] = "valid" /\ cookie # request[r].new
            /\ \A q \in Requests : request[q].token # request[r].new /\ (q # r => request[q].new # request[r].new)

RaceInv == AnswersOfFamily /\ CleanRefreshes /\ CleanCookie /\ CleanLogins /\ TabsNeverRace

-----------------------------------------------------------------------------
LEMMA RaceInitInv == Init => RaceInv
BY Constants DEF Init, RaceInv, AnswersOfFamily, CleanRefreshes, CleanRefresh, CleanCookie, CleanLogins, TabsNeverRace

LEMMA Types ==
  ASSUME TokenInv
  PROVE  /\ cookie \in OrNone
         /\ \A r \in Requests :
              /\ request[r] \in RequestRecords
              /\ request[r].token \in OrNone /\ request[r].new \in OrNone /\ request[r].tab \in Tabs \cup {Gone}
BY DEF TokenInv, SessionTypeOK, RequestRecords

\* The history grows.
LEMMA History ==
  ASSUME [Next]_vars
  PROVE  left \subseteq left' /\ raced \subseteq raced' /\ ended \subseteq ended'
<1>1. ASSUME NEW t \in Tabs,
             Load(t) \/ performRefresh(t) \/ withRefreshRetry(t) \/ SubmitLogin(t) \/ handleLogout(t)
      PROVE  left \subseteq left' /\ raced \subseteq raced' /\ ended \subseteq ended'
  BY <1>1 DEF Load, performRefresh, withRefreshRetry, SubmitLogin, handleLogout, history
<1>2. ASSUME NEW r \in Requests, Handler(r) \/ GoFails(r) \/ Lost(r)
      PROVE  left \subseteq left' /\ raced \subseteq raced' /\ ended \subseteq ended'
  BY <1>2 DEF Handler, GoFails, Lost, refreshHandler, GoRead, GoRevoke, GoIssue, authenticate, logoutHandler,
     RefreshAnswered, LoginAnswered, LogoutAnswered, Unheard, history
<1>3. CASE ConfirmPasswordReset \/ UNCHANGED vars
  BY <1>3 DEF ConfirmPasswordReset, vars
<1>. QED BY <1>1, <1>2, <1>3 DEF Next

\* Of clean families there is one refresh at a time.
LEMMA OneRefresh ==
  ASSUME LockInv, RaceInv, NEW q \in Requests, NEW r \in Requests, CleanRefresh(q), Waited(r)
  PROVE  q = r
BY DEF LockInv, RaceInv, CleanRefreshes, CleanRefresh, Waited

LEMMA RaceLoad ==
  ASSUME TokenInv, LockInv, RaceInv, NEW t \in Tabs, Load(t), [Next]_vars
  PROVE  RaceInv'
<1>. USE DEF RaceInv
<1>1. ASSUME NEW q \in Requests
      PROVE  /\ request'[q].kind = request[q].kind /\ request'[q].pc = request[q].pc
             /\ request'[q].token = request[q].token /\ request'[q].new = request[q].new
             /\ \/ request'[q].tab = request[q].tab
                \/ request'[q].tab = Gone /\ (request[q].kind = "refresh" /\ request[q].token # NoToken =>
                        family[request[q].token] \in left')
  BY Types DEF Load, RequestRecords, Families
<1>2. \A f : Clean(f)' => Clean(f)
  BY History DEF Clean
<1>3. UNCHANGED <<cookie, token, family, reused, ended>>
  BY DEF Load, api
<1>4. \A q \in Requests : CleanRefresh(q)' => CleanRefresh(q) /\ request'[q].tab = request[q].tab
  BY <1>1, <1>2, <1>3 DEF CleanRefresh, Clean
<1>5. AnswersOfFamily'
  BY <1>1, <1>3 DEF AnswersOfFamily
<1>6. CleanRefreshes'
  BY <1>1, <1>3, <1>4 DEF CleanRefreshes
<1>7. CleanCookie'
  BY <1>1, <1>2, <1>3 DEF CleanCookie, Replaced
<1>8. CleanLogins'
  BY <1>1, <1>2, <1>3 DEF CleanLogins
<1>9. TabsNeverRace'
  BY <1>3, History DEF TabsNeverRace
<1>. QED BY <1>5, <1>6, <1>7, <1>8, <1>9

LEMMA RaceSame ==
  ASSUME RaceInv, UNCHANGED <<cookie, request, token, family, left, raced, ended, reused>>
  PROVE  RaceInv'
BY DEF RaceInv, AnswersOfFamily, CleanRefreshes, CleanRefresh, Clean, CleanCookie, Replaced, CleanLogins, TabsNeverRace

\* A request is sent with the cookie: a refresh by the tab whose turn it is.
LEMMA RaceSend ==
  ASSUME TokenInv, LockInv, RaceInv, Locks, [Next]_vars, NEW t \in Tabs,
         performRefresh(t) \/ SubmitLogin(t) \/ handleLogout(t)
  PROVE  RaceInv'
<1>. USE DEF RaceInv
<1>1. PICK kind \in {"refresh", "login", "logout"} :
        /\ Send(t, kind)
        /\ kind = "refresh" => \A q \in Requests : ~Waited(q)
        /\ kind = "logout" /\ cookie # NoToken => family[cookie] \in ended'
  BY LockRefresh DEF performRefresh, SubmitLogin, handleLogout, Families
<1>2. PICK r \in Requests :
           /\ request[r] = NoRequest
           /\ request' = [request EXCEPT ![r] = Sent(t, kind)]
           /\ Sent(t, kind).pc = "sent" /\ Sent(t, kind).kind = kind /\ Sent(t, kind).tab = t
           /\ Sent(t, kind).token = cookie /\ Sent(t, kind).new = NoToken
  BY <1>1, Asked DEF Kinds
<1>3. /\ request'[r].pc = "sent" /\ request'[r].kind = kind /\ request'[r].tab = t
      /\ request'[r].token = cookie /\ request'[r].new = NoToken
      /\ \A q \in Requests : q # r => request'[q] = request[q]
      /\ request[r].kind = "none" /\ request[r].token = NoToken /\ request[r].new = NoToken
  BY <1>2, Constants DEF TokenInv, SessionTypeOK
<1>4. \A f : Clean(f)' => Clean(f)
  BY History DEF Clean
<1>5. UNCHANGED <<cookie, token, family, reused>>
  BY DEF performRefresh, SubmitLogin, handleLogout, api, history
<1>6. AnswersOfFamily'
  <2>1. ended \subseteq ended'
    BY History
  <2>. QED BY <1>1, <1>3, <1>5, <2>1 DEF AnswersOfFamily
<1>7. CleanRefreshes'
  <2>1. ASSUME NEW q \in Requests, q # r, CleanRefresh(q)' PROVE CleanRefresh(q)
    BY <1>3, <1>4, <1>5, <2>1 DEF CleanRefresh
  <2>2. ASSUME CleanRefresh(r)' PROVE token[cookie] = "valid"
    <3>1. kind = "refresh" /\ cookie # NoToken /\ Clean(family[cookie])
      BY <1>3, <1>4, <1>5, <2>2 DEF CleanRefresh
    <3>2. ASSUME NEW q \in Requests, request[q].kind = "refresh", request[q].token = cookie PROVE FALSE
      BY <1>1, <3>1, <3>2 DEF CleanRefreshes, CleanRefresh, Waited
    <3>. QED BY <3>1, <3>2 DEF CleanCookie, Replaced
  <2>3. t # Gone
    BY Constants
  <2>. QED BY <1>3, <1>5, <2>1, <2>2, <2>3 DEF CleanRefreshes
<1>8. CleanCookie'
  BY <1>3, <1>4, <1>5 DEF CleanCookie, Replaced
<1>9. CleanLogins'
  BY <1>3, <1>4, <1>5 DEF CleanLogins
<1>10. TabsNeverRace'
  BY <1>5, History DEF TabsNeverRace
<1>. QED BY <1>6, <1>7, <1>8, <1>9, <1>10

\* An answer is taken, or dropped: the cookie is what it says, or none.
LEMMA RaceTaken ==
  ASSUME TokenInv, LockInv, RaceInv, NEW r \in Requests,
         RefreshAnswered(r) \/ LoginAnswered(r) \/ LogoutAnswered(r) \/ Unheard(r)
  PROVE  RaceInv'
<1>. USE DEF RaceInv
<1>1. /\ request'[r] = NoRequest /\ \A q \in Requests : q # r => request'[q] = request[q]
      /\ request[r].pc = "answered"
      /\ UNCHANGED <<token, family, left, raced, ended, reused>>
  BY DEF RefreshAnswered, LoginAnswered, LogoutAnswered, Unheard, TokenInv, SessionTypeOK, api, history
<1>2. /\ cookie' \in {cookie, NoToken, request[r].new}
      /\ cookie' = cookie \/ cookie' = NoToken \/ request[r].kind \in {"refresh", "login"}
      /\ cookie' = cookie => \/ request[r].kind # "refresh" \/ request[r].tab = Gone \/ request[r].token = NoToken
                             \/ cookie' = request[r].new /\ request[r].kind = "refresh"
  BY DEF RefreshAnswered, LoginAnswered, LogoutAnswered, Unheard
<1>3. \A f : Clean(f)' <=> Clean(f)
  BY <1>1 DEF Clean
<1>4. AnswersOfFamily'
  BY <1>1, Constants DEF AnswersOfFamily
<1>5. CleanRefreshes'
  BY <1>1, <1>3, Constants DEF CleanRefreshes, CleanRefresh
<1>6. CleanCookie'
  <2>. DEFINE Replacing == \E q \in Requests :
                request'[q].kind = "refresh" /\ request'[q].token = cookie' /\ request'[q].pc \in {"issue", "answered"}
  <2>. SUFFICES ASSUME cookie' # NoToken, Clean(family[cookie']) PROVE token[cookie'] = "valid" \/ Replacing
    BY <1>1, <1>3 DEF CleanCookie, Clean, Replaced
  <2>1. CASE cookie' = request[r].new /\ request[r].kind = "refresh"
    BY <1>1, <2>1 DEF AnswersOfFamily, CleanRefreshes, CleanRefresh
  <2>2. CASE cookie' = request[r].new /\ request[r].kind = "login"
    BY <1>1, <2>2 DEF CleanLogins
  <2>3. CASE cookie' = cookie /\ (request[r].kind # "refresh" \/ request[r].tab = Gone \/ request[r].token = NoToken)
    <3>1. CASE token[cookie] = "valid"
      BY <2>3, <3>1
    <3>2. ASSUME NEW q \in Requests, request[q].kind = "refresh", request[q].token = cookie,
                 request[q].pc \in {"issue", "answered"}
          PROVE  Replacing
      <4>1. q # r
        BY <2>3, <3>2 DEF CleanRefreshes, CleanRefresh
      <4>. QED BY <1>1, <2>3, <3>2, <4>1
    <3>. QED BY <2>3, <3>1, <3>2 DEF CleanCookie, Replaced
  <2>. QED BY <1>2, <2>1, <2>2, <2>3
<1>7. CleanLogins'
  BY <1>1, <1>2, <1>3, Constants DEF CleanLogins
<1>8. TabsNeverRace'
  BY <1>1 DEF TabsNeverRace
<1>. QED BY <1>4, <1>5, <1>6, <1>7, <1>8

\* An answer is lost, on the way to the tab or to the server.
LEMMA RaceLost ==
  ASSUME TokenInv, LockInv, RaceInv, NEW r \in Requests, Lost(r)
  PROVE  RaceInv'
<1>. USE DEF RaceInv
<1>1. /\ \A q \in Requests :
            /\ request'[q].kind = request[q].kind /\ request'[q].pc = request[q].pc
            /\ request'[q].token = request[q].token /\ request'[q].new = request[q].new
            /\ q # r => request'[q] = request[q]
      /\ UNCHANGED <<cookie, token, family, left, ended, reused>>
      /\ raced \subseteq raced'
      /\ request[r].token # NoToken => family[request[r].token] \in raced'
  BY Types DEF Lost, TokenInv, SessionTypeOK, api, Families, RequestRecords
<1>2. \A f : Clean(f)' => Clean(f)
  BY <1>1 DEF Clean
<1>3. \A q \in Requests : CleanRefresh(q)' => CleanRefresh(q) /\ q # r
  BY <1>1, <1>2 DEF CleanRefresh, Clean
<1>4. AnswersOfFamily'
  BY <1>1 DEF AnswersOfFamily
<1>5. CleanRefreshes'
  BY <1>1, <1>3 DEF CleanRefreshes
<1>6. CleanCookie'
  BY <1>1, <1>2 DEF CleanCookie, Replaced
<1>7. CleanLogins'
  BY <1>1, <1>2 DEF CleanLogins
<1>8. TabsNeverRace'
  BY <1>1 DEF TabsNeverRace
<1>. QED BY <1>4, <1>5, <1>6, <1>7, <1>8

\* A refresh of a clean family joins none: it would be of another that a tab
\* waits for.
LEMMA RaceHandler ==
  ASSUME TokenInv, LockInv, RaceInv, NEW r \in Requests, refreshHandler(r)
  PROVE  RaceInv'
<1>. USE DEF RaceInv
<1>. DEFINE leaders == {l \in Requests : Leads(l, request[r].token)}
<1>1. PICK pc \in {"answered", "read", "joined"} :
        /\ request'[r].pc = pc /\ request'[r].kind = "refresh" /\ request'[r].tab = request[r].tab
        /\ request'[r].token = request[r].token /\ request'[r].new = request[r].new
        /\ request[r].pc = "sent" /\ request[r].kind = "refresh"
        /\ pc = "answered" <=> request[r].token = NoToken
        /\ pc = "joined" => leaders # {}
        /\ \A q \in Requests : q # r => request'[q] = request[q]
  <2>1. CASE request[r].token = NoToken
    BY <2>1 DEF refreshHandler, TokenInv, SessionTypeOK, RequestRecords
  <2>2. CASE request[r].token # NoToken /\ leaders = {}
    <3>1. request' = [request EXCEPT ![r] = [request[r] EXCEPT !.pc = "read"]]
      BY <2>2 DEF refreshHandler, refreshOnce
    <3>. QED BY <2>2, <3>1 DEF refreshHandler, TokenInv, SessionTypeOK, RequestRecords
  <2>3. CASE request[r].token # NoToken /\ leaders # {}
    <3>1. request' = [request EXCEPT ![r] = [request[r] EXCEPT !.pc = "joined", !.leader = CHOOSE l \in leaders : TRUE]]
      BY <2>3 DEF refreshHandler, refreshOnce
    <3>. QED BY <2>3, <3>1 DEF refreshHandler, TokenInv, SessionTypeOK, RequestRecords
  <2>. QED BY <2>1, <2>2, <2>3
<1>2. UNCHANGED <<cookie, token, family, left, raced, ended, reused>>
  BY DEF refreshHandler, api, history
<1>3. \A f : Clean(f)' <=> Clean(f)
  BY <1>2 DEF Clean
<1>4. \A q \in Requests : CleanRefresh(q)' <=> CleanRefresh(q)
  BY <1>1, <1>2, <1>3 DEF CleanRefresh
<1>5. AnswersOfFamily'
  BY <1>1, <1>2 DEF AnswersOfFamily
<1>6. CleanRefresh(r) => pc = "read"
  <2>. SUFFICES ASSUME CleanRefresh(r), leaders # {} PROVE FALSE
    BY <1>1 DEF CleanRefresh
  <2>1. PICK l \in Requests : Leads(l, request[r].token)
    OBVIOUS
  <2>2. CleanRefresh(l)
    BY <2>1 DEF Leads, TokenInv, OneLeader, AtApi, CleanRefresh
  <2>3. Waited(r)
    BY DEF CleanRefreshes, CleanRefresh, Waited
  <2>. QED BY <1>1, <2>1, <2>2, <2>3, OneRefresh DEF Leads
<1>7. CleanRefreshes'
  BY <1>1, <1>2, <1>4, <1>6 DEF CleanRefreshes
<1>8. CleanCookie'
  BY <1>1, <1>2, <1>3 DEF CleanCookie, Replaced
<1>9. CleanLogins'
  BY <1>1, <1>2, <1>3 DEF CleanLogins
<1>10. TabsNeverRace'
  BY <1>2 DEF TabsNeverRace
<1>. QED BY <1>5, <1>7, <1>8, <1>9, <1>10

\* A family with a mishap is no concern: what happens to its tokens, and the
\* answers of its refreshes; nor are the answers of logouts.
LEMMA RaceUnclean ==
  ASSUME TokenInv, RaceInv, UNCHANGED <<cookie, family>>,
         left \subseteq left', raced \subseteq raced', ended \subseteq ended', TabsNeverRace',
         \A k \in Tokens : Clean(family[k])' => token'[k] = token[k],
         \A r \in Requests :
            /\ request'[r].kind = request[r].kind /\ request'[r].tab = request[r].tab
            /\ request'[r].token = request[r].token
            /\ \/ request'[r] = request[r]
               \/ request'[r].pc = "answered" /\ request'[r].new = NoToken /\
                    \/ request[r].kind = "logout"
                    \/ request[r].kind = "refresh" /\ ~Clean(family[request[r].token])'
  PROVE  RaceInv'
<1>. USE DEF RaceInv
<1>1. \A g : Clean(g)' => Clean(g)
  BY DEF Clean
<1>2. \A r \in Requests : CleanRefresh(r)' => CleanRefresh(r) /\ request'[r] = request[r] /\ Clean(family[request[r].token])'
  BY <1>1 DEF CleanRefresh
<1>3. AnswersOfFamily'
  BY DEF AnswersOfFamily
<1>4. CleanRefreshes'
  <2>1. \A r \in Requests : request[r].token \in OrNone /\ request[r].new \in OrNone
    BY Types
  <2>2. \A r \in Requests : CleanRefresh(r)' => token'[request[r].token] = token[request[r].token]
    BY <1>2, <2>1 DEF OrNone, CleanRefresh
  <2>3. \A r \in Requests : CleanRefresh(r)' /\ request[r].new # NoToken => token'[request[r].new] = token[request[r].new]
    BY <1>2, <2>1 DEF OrNone, CleanRefresh, AnswersOfFamily
  <2>. QED BY <1>2, <2>2, <2>3 DEF CleanRefreshes
<1>5. CleanCookie'
  BY <1>1, Types DEF CleanCookie, Replaced, OrNone
<1>6. CleanLogins'
  <2>1. \A r \in Requests : request[r].token \in OrNone /\ request[r].new \in OrNone
    BY Types
  <2>2. ASSUME NEW r \in Requests, request'[r].kind = "login", request'[r].new # NoToken,
                 family[request'[r].new] \notin left' \cup raced' \cup ended'
        PROVE  /\ request'[r] = request[r] /\ Clean(family[request[r].new])
               /\ token'[request[r].new] = token[request[r].new] /\ token[request[r].new] = "valid"
    <3>1. request'[r] = request[r] /\ request[r].new \in Tokens
      BY <2>1, <2>2 DEF OrNone
    <3>2. Clean(family[request[r].new]) /\ Clean(family[request[r].new])'
      BY <1>1, <2>2, <3>1 DEF Clean
    <3>. QED BY <2>2, <3>1, <3>2 DEF CleanLogins
  <2>3. \A q \in Requests : request'[q].token = request[q].token /\ request'[q].new \in {request[q].new, NoToken}
    OBVIOUS
  <2>. QED BY <2>2, <2>3 DEF CleanLogins, Clean
<1>. QED BY <1>3, <1>4, <1>5, <1>6

LEMMA RaceLogout ==
  ASSUME TokenInv, RaceInv, NEW r \in Requests, logoutHandler(r)
  PROVE  RaceInv'
<1>. USE DEF RaceInv
<1>1. UNCHANGED <<cookie, family, left, ended, reused>> /\ raced \subseteq raced' /\ request[r].kind = "logout"
  BY DEF logoutHandler
<1>2. TabsNeverRace'
  BY <1>1 DEF TabsNeverRace
<1>3. \A q \in Requests :
            /\ request'[q].kind = request[q].kind /\ request'[q].tab = request[q].tab
            /\ request'[q].token = request[q].token /\ request'[q].new = request[q].new
            /\ request'[q] = request[q] \/ (q = r /\ request'[q].pc = "answered")
  BY DEF logoutHandler, TokenInv, SessionTypeOK, RequestRecords
<1>4. request[r].new = NoToken
  BY <1>1 DEF AnswersOfFamily
<1>5. ASSUME NEW k \in Tokens, Clean(family[k])' PROVE token'[k] = token[k]
  <2>1. Clean(family[k])
    BY <1>1, <1>5 DEF Clean
  <2>2. k # request[r].token
    BY <1>1, <2>1, Constants DEF AnswersOfFamily, Clean
  <2>. QED BY <2>2 DEF logoutHandler, LogoutToken, TokenInv, SessionTypeOK
<1>. QED BY <1>1, <1>2, <1>3, <1>4, <1>5, RaceUnclean

LEMMA RaceReset ==
  ASSUME TokenInv, RaceInv, ConfirmPasswordReset
  PROVE  RaceInv'
<1>. USE DEF RaceInv
<1>1. UNCHANGED <<cookie, family, left, reused, request>> /\ raced \subseteq raced' /\ ended \subseteq ended'
  BY DEF ConfirmPasswordReset
<1>2. TabsNeverRace'
  BY <1>1 DEF TabsNeverRace
<1>3. ASSUME NEW k \in Tokens, Clean(family[k])' PROVE token'[k] = token[k]
  <2>1. token[k] = "none"
    BY <1>3, Constants DEF ConfirmPasswordReset, Families, Clean
  <2>. QED BY <2>1 DEF ConfirmPasswordReset, Revoked
<1>. QED BY <1>1, <1>2, <1>3, RaceUnclean

LEMMA RaceFails ==
  ASSUME TokenInv, RaceInv, NEW r \in Requests, GoFails(r)
  PROVE  RaceInv'
<1>. USE DEF RaceInv
<1>1. UNCHANGED <<cookie, token, family, left, ended, reused>> /\ raced \subseteq raced'
      /\ Settle(r, NoToken) /\ request[r].pc \in AtApi
  BY DEF GoFails, api, Leads, AtApi
<1>2. TabsNeverRace'
  BY <1>1 DEF TabsNeverRace
<1>3. family[request[r].token] \in raced'
  BY <1>1 DEF GoFails, Families, TokenInv, OneLeader
<1>5. \A q \in Requests :
            /\ request'[q].kind = request[q].kind /\ request'[q].tab = request[q].tab
            /\ request'[q].token = request[q].token
            /\ \/ request'[q] = request[q]
               \/ /\ request'[q].pc = "answered" /\ request'[q].new = NoToken
                  /\ request[q].kind = "refresh" /\ request[q].token = request[r].token
  BY <1>1, Settled DEF OrNone
<1>6. \A q \in Requests : request[q].token = request[r].token => ~Clean(family[request[q].token])'
  BY <1>1, <1>3, <1>5 DEF Clean
<1>. QED BY <1>1, <1>2, <1>5, <1>6, RaceUnclean

\* The token of a clean family is valid when it is read; otherwise it is
\* taken for stolen, in a family with a mishap.
LEMMA RaceRead ==
  ASSUME TokenInv, RaceInv, NEW r \in Requests, GoRead(r)
  PROVE  RaceInv'
<1>. USE DEF RaceInv
<1>. DEFINE k == request[r].token
<1>1. /\ request[r].pc = "read" /\ request[r].kind = "refresh" /\ k # NoToken
      /\ UNCHANGED <<cookie, family, left, ended, raced>>
  BY DEF GoRead, TokenInv, OneLeader, AtApi
<1>2. CASE token[k] = "valid"
  <2>1. /\ request'[r].pc = "revoke" /\ request'[r].kind = "refresh" /\ request'[r].tab = request[r].tab
        /\ request'[r].token = k /\ request'[r].new = request[r].new
        /\ \A q \in Requests : q # r => request'[q] = request[q]
        /\ UNCHANGED <<token, reused>>
    BY <1>1, <1>2 DEF GoRead, TokenInv, SessionTypeOK, RequestRecords
  <2>2. \A f : Clean(f)' <=> Clean(f)
    BY <1>1 DEF Clean
  <2>3. AnswersOfFamily'
    BY <1>1, <2>1 DEF AnswersOfFamily
  <2>4. CleanRefreshes'
    BY <1>1, <1>2, <2>1, <2>2 DEF CleanRefreshes, CleanRefresh
  <2>5. CleanCookie'
    BY <1>1, <2>1, <2>2 DEF CleanCookie, Replaced
  <2>6. CleanLogins'
    BY <1>1, <2>1, <2>2 DEF CleanLogins
  <2>7. TabsNeverRace'
    BY <1>1, <2>1 DEF TabsNeverRace
  <2>. QED BY <2>3, <2>4, <2>5, <2>6, <2>7
<1>3. CASE token[k] # "valid"
  <2>1. Revoked({family[k]}) /\ Settle(r, NoToken) /\ reused' = reused \cup {family[k]}
    BY <1>3 DEF GoRead
  <2>2. ~Clean(family[k])
    BY <1>1, <1>3 DEF CleanRefreshes, CleanRefresh
  <2>3. TabsNeverRace'
    BY <1>1, <2>1, <2>2 DEF TabsNeverRace, Clean
  <2>4. \A j \in Tokens : Clean(family[j])' => token'[j] = token[j]
    BY <1>1, <2>1, <2>2 DEF Revoked, Clean
  <2>5. \A q \in Requests :
            /\ request'[q].kind = request[q].kind /\ request'[q].tab = request[q].tab
            /\ request'[q].token = request[q].token
            /\ \/ request'[q] = request[q]
               \/ /\ request'[q].pc = "answered" /\ request'[q].new = NoToken
                  /\ request[q].kind = "refresh" /\ request[q].token = k
    BY <1>1, <2>1, Settled DEF OrNone, AtApi
  <2>6. \A q \in Requests : request[q].token = k => ~Clean(family[request[q].token])'
    BY <1>1, <2>2, <2>5 DEF Clean
  <2>. QED BY <1>1, <2>3, <2>4, <2>5, <2>6, RaceUnclean
<1>. QED BY <1>2, <1>3

LEMMA RaceRevoke ==
  ASSUME TokenInv, LockInv, RaceInv, NEW r \in Requests, GoRevoke(r)
  PROVE  RaceInv'
<1>. USE DEF RaceInv
<1>. DEFINE k == request[r].token
<1>1. /\ request[r].pc = "revoke" /\ request[r].kind = "refresh" /\ k \in Tokens /\ k # NoToken
      /\ UNCHANGED <<cookie, family, left, ended, raced, reused>>
  BY Types, Constants DEF GoRevoke, TokenInv, OneLeader, AtApi, history, OrNone
<1>2. /\ request'[r].pc = "issue" /\ request'[r].kind = "refresh" /\ request'[r].tab = request[r].tab
      /\ request'[r].token = k /\ request'[r].new = request[r].new
      /\ \A q \in Requests : q # r => request'[q] = request[q]
      /\ \A j \in Tokens : j # k => token'[j] = token[j]
  BY <1>1 DEF GoRevoke, TokenInv, SessionTypeOK, RequestRecords
<1>3. \A f : Clean(f)' <=> Clean(f)
  BY <1>1 DEF Clean
<1>4. \A q \in Requests : q # r /\ CleanRefresh(q) => family[request[q].token] # family[k]
  <2>1. ASSUME NEW q \in Requests, CleanRefresh(q), family[request[q].token] = family[k] PROVE q = r
    <3>1. CleanRefresh(r)
      BY <1>1, <2>1 DEF CleanRefresh
    <3>2. Waited(q)
      BY <2>1 DEF CleanRefreshes, Waited, CleanRefresh
    <3>. QED BY <2>1, <3>1, <3>2, OneRefresh
  <2>. QED BY <2>1
<1>5. AnswersOfFamily'
  BY <1>1, <1>2 DEF AnswersOfFamily
<1>6. CleanRefreshes'
  <2>1. ASSUME NEW q \in Requests, q # r, CleanRefresh(q)
        PROVE  /\ token'[request[q].token] = token[request[q].token]
               /\ request[q].new # NoToken => token'[request[q].new] = token[request[q].new]
    BY <1>2, <1>4, <2>1, Types DEF OrNone, CleanRefresh, AnswersOfFamily
  <2>2. \A q \in Requests : CleanRefresh(q)' => CleanRefresh(q)
    BY <1>1, <1>2, <1>3 DEF CleanRefresh
  <2>. QED BY <1>1, <1>2, <2>1, <2>2 DEF CleanRefreshes
<1>7. CleanCookie'
  <2>1. CASE cookie = k
    BY <1>1, <1>2, <2>1 DEF CleanCookie, Replaced
  <2>2. CASE cookie # k
    BY <1>1, <1>2, <1>3, <2>2, Types DEF CleanCookie, Replaced, OrNone
  <2>. QED BY <2>1, <2>2
<1>8. CleanLogins'
  BY <1>1, <1>2, <1>3, Types DEF CleanLogins, OrNone
<1>9. TabsNeverRace'
  BY <1>1 DEF TabsNeverRace
<1>. QED BY <1>5, <1>6, <1>7, <1>8, <1>9

\* The one that is waited for is answered with a token of its family.
LEMMA RaceIssue ==
  ASSUME TokenInv, LockInv, RaceInv, NEW r \in Requests, GoIssue(r)
  PROVE  RaceInv'
<1>. USE DEF RaceInv
<1>. DEFINE k == request[r].token
            f == family[k]
            n == NextToken
<1>1. /\ request[r].pc = "issue" /\ request[r].kind = "refresh" /\ k \in Tokens /\ k # NoToken /\ token[k] # "none"
      /\ UNCHANGED <<cookie, left, ended, raced, reused>>
  BY Types, Constants DEF GoIssue, TokenInv, OneLeader, AtApi, history, OrNone, TokensIssued, Issued
<1>2. f \in Tokens /\ token[f] # "none"
  BY <1>1 DEF FamiliesIssued, TokenInv
<1>3. /\ n \in Tokens /\ token[n] = "none" /\ token'[n] = "valid" /\ family'[n] = f
      /\ \A j \in Tokens : j # n => token'[j] = token[j] /\ family'[j] = family[j]
  <2>1. Issue(f) /\ f # NoToken
    BY <1>2, Constants DEF GoIssue
  <2>. HIDE DEF f
  <2>. QED BY <1>2, <2>1, Issues DEF OrNone
<1>. HIDE DEF n
<1>4. \A q \in Requests :
              /\ request'[q].kind = request[q].kind /\ request'[q].token = request[q].token
              /\ request'[q].tab = request[q].tab
              /\ \/ q # r /\ request'[q] = request[q]
                 \/ /\ request'[q].pc = "answered" /\ request'[q].new = n
                    /\ request[q].kind = "refresh" /\ request[q].token = k
                    /\ q = r \/ request[q].pc = "joined"
  <2>1. Settle(r, n)
    BY DEF GoIssue, n
  <2>. QED BY <1>1, <1>3, <2>1, Settled DEF OrNone, AtApi
<1>5. \A g : Clean(g)' <=> Clean(g)
  BY <1>1 DEF Clean
<1>6. /\ \A j \in OrNone : j # NoToken /\ token[j] # "none" =>
                             j \in Tokens /\ j # n /\ token'[j] = token[j] /\ family'[j] = family[j]
      /\ \A q \in Requests : /\ request[q].token # NoToken => token[request[q].token] # "none"
                             /\ request[q].new # NoToken => token[request[q].new] # "none"
      /\ cookie # NoToken => token[cookie] # "none"
  BY <1>3 DEF OrNone, TokenInv, TokensIssued, Issued
<1>7. \A q \in Requests : CleanRefresh(q)' => CleanRefresh(q) /\ (request'[q] = request[q] \/ q = r)
  <2>1. \A q \in Requests : CleanRefresh(q)' => CleanRefresh(q)
    BY <1>4, <1>5, <1>6, Types DEF CleanRefresh
  <2>. QED BY <1>4, <2>1 DEF CleanRefreshes
<1>8. AnswersOfFamily'
  <2>1. ASSUME NEW q \in Requests, request'[q] = request[q]
        PROVE  /\ request'[q].new # NoToken => request'[q].pc = "answered"
               /\ request'[q].kind = "logout" =>
                     /\ request'[q].new = NoToken
                     /\ request'[q].token # NoToken => family'[request'[q].token] \in ended'
               /\ request'[q].kind = "refresh" /\ request'[q].new # NoToken =>
                     request'[q].token # NoToken /\ family'[request'[q].new] = family'[request'[q].token]
    BY <1>1, <1>6, <2>1, Types DEF AnswersOfFamily
  <2>2. ASSUME NEW q \in Requests, request'[q].pc = "answered", request'[q].new = n,
                   request[q].kind = "refresh", request[q].token = k
        PROVE  family'[request'[q].new] = family'[request'[q].token] /\ request'[q].token # NoToken /\ request'[q].kind = "refresh"
    BY <1>1, <1>3, <1>4, <2>2
  <2>. QED BY <1>4, <2>1, <2>2 DEF AnswersOfFamily
<1>9. CleanRefreshes'
  <2>1. ASSUME NEW q \in Requests, CleanRefresh(q)', q # r
        PROVE  /\ request'[q].tab # Gone /\ request'[q].pc # "joined"
               /\ request'[q].pc \in {"sent", "read", "revoke"} => token'[request'[q].token] = "valid"
               /\ request'[q].pc = "answered" => request'[q].new # NoToken /\ token'[request'[q].new] = "valid"
    BY <1>6, <1>7, <2>1, Types DEF CleanRefreshes, CleanRefresh
  <2>2. CleanRefresh(r)' => /\ request'[r].tab # Gone /\ request'[r].pc = "answered" /\ request'[r].new # NoToken
                            /\ token'[request'[r].new] = "valid"
    BY <1>3, <1>4, <1>7, Constants DEF CleanRefreshes
  <2>. QED BY <2>1, <2>2 DEF CleanRefreshes
<1>10. CleanCookie'
  <2>1. Replaced(cookie) => Replaced(cookie)'
    BY <1>1, <1>4 DEF Replaced
  <2>. QED BY <1>1, <1>5, <1>6, <2>1, Types DEF CleanCookie
<1>11. CleanLogins'
  <2>1. ASSUME NEW q \in Requests, request'[q].kind = "login", request'[q].new # NoToken,
               Clean(family'[request'[q].new])
        PROVE  /\ token'[request'[q].new] = "valid" /\ cookie # request'[q].new
               /\ \A p \in Requests : request'[p].token # request'[q].new /\ (p # q => request'[p].new # request'[q].new)
    <3>1. request'[q] = request[q]
      BY <1>4, <2>1
    <3>2. /\ request[q].new \in Tokens /\ request[q].new # n /\ Clean(family[request[q].new])
          /\ token'[request[q].new] = token[request[q].new]
      BY <1>6, <2>1, <3>1, Types
    <3>3. /\ token[request[q].new] = "valid" /\ cookie # request[q].new
          /\ \A p \in Requests : request[p].token # request[q].new /\ (p # q => request[p].new # request[q].new)
      BY <2>1, <3>1, <3>2 DEF CleanLogins
    <3>. QED BY <1>4, <3>1, <3>2, <3>3
  <2>. QED BY <1>1, <2>1 DEF CleanLogins, Clean
<1>12. TabsNeverRace'
  BY <1>1 DEF TabsNeverRace
<1>. QED BY <1>8, <1>9, <1>10, <1>11, <1>12

\* A login begins a family, with a token nobody else has.
LEMMA RaceLogin ==
  ASSUME TokenInv, RaceInv, NEW r \in Requests, authenticate(r)
  PROVE  RaceInv'
<1>. USE DEF RaceInv
<1>. DEFINE n == NextToken
<1>1. /\ request[r].kind = "login" /\ request[r].pc = "sent"
      /\ UNCHANGED <<cookie, left, ended, raced, reused>>
  BY DEF authenticate, history
<1>2. \A g : Clean(g)' <=> Clean(g)
  BY <1>1 DEF Clean
<1>3. TabsNeverRace'
  BY <1>1 DEF TabsNeverRace
<1>4. CASE request' = [request EXCEPT ![r].pc = "answered"] /\ UNCHANGED api
  <2>1. /\ request'[r].kind = "login" /\ request'[r].token = request[r].token /\ request'[r].new = request[r].new
        /\ request'[r].tab = request[r].tab /\ request'[r].pc = "answered"
        /\ \A q \in Requests : q # r => request'[q] = request[q]
        /\ UNCHANGED <<token, family>>
    BY <1>1, <1>4 DEF TokenInv, SessionTypeOK, RequestRecords, api
  <2>2. AnswersOfFamily'
    BY <1>1, <2>1 DEF AnswersOfFamily
  <2>3. CleanRefreshes'
    BY <1>1, <1>2, <2>1 DEF CleanRefreshes, CleanRefresh
  <2>4. CleanCookie'
    BY <1>1, <1>2, <2>1 DEF CleanCookie, Replaced
  <2>5. CleanLogins'
    BY <1>1, <1>2, <2>1 DEF CleanLogins
  <2>. QED BY <1>3, <2>2, <2>3, <2>4, <2>5
<1>5. CASE Issue(NoToken) /\ request' = [request EXCEPT ![r].pc = "answered", ![r].new = NextToken]
  <2>1. /\ n \in Tokens /\ token[n] = "none" /\ token'[n] = "valid" /\ family'[n] = n
        /\ \A j \in Tokens : j # n => token'[j] = token[j] /\ family'[j] = family[j]
    BY <1>5, Issues DEF OrNone
  <2>2. request' = [request EXCEPT ![r] = [request[r] EXCEPT !.pc = "answered", !.new = n]]
    BY <1>5 DEF TokenInv, SessionTypeOK
  <2>. HIDE DEF n
  <2>3. /\ request'[r].kind = "login" /\ request'[r].token = request[r].token /\ request'[r].new = n
        /\ request'[r].tab = request[r].tab /\ request'[r].pc = "answered"
        /\ \A q \in Requests : q # r => request'[q] = request[q]
    BY <1>1, <2>2 DEF TokenInv, SessionTypeOK, RequestRecords
  <2>4. /\ \A j \in OrNone : j # NoToken /\ token[j] # "none" =>
                               j \in Tokens /\ j # n /\ token'[j] = token[j] /\ family'[j] = family[j]
        /\ \A q \in Requests : /\ request[q].token # NoToken => token[request[q].token] # "none"
                               /\ request[q].new # NoToken => token[request[q].new] # "none"
        /\ cookie # NoToken => token[cookie] # "none"
    BY <2>1 DEF OrNone, TokenInv, TokensIssued, Issued
  <2>5. \A q \in Requests : request[q].token # n /\ request[q].new # n
    BY <2>1, <2>4, Constants, Types
  <2>6. AnswersOfFamily'
    <3>1. ASSUME NEW q \in Requests, q # r
          PROVE  /\ request'[q].new # NoToken => request'[q].pc = "answered"
                 /\ request'[q].kind = "logout" =>
                       /\ request'[q].new = NoToken
                       /\ request'[q].token # NoToken => family'[request'[q].token] \in ended'
                 /\ request'[q].kind = "refresh" /\ request'[q].new # NoToken =>
                       request'[q].token # NoToken /\ family'[request'[q].new] = family'[request'[q].token]
      BY <1>1, <2>3, <2>4, <3>1, Types DEF AnswersOfFamily
    <3>. QED BY <2>3, <3>1 DEF AnswersOfFamily
  <2>7. CleanRefreshes'
    <3>1. ASSUME NEW q \in Requests, q # r, CleanRefresh(q)'
          PROVE  /\ request'[q].tab # Gone /\ request'[q].pc # "joined"
                 /\ request'[q].pc \in {"sent", "read", "revoke"} => token'[request'[q].token] = "valid"
                 /\ request'[q].pc = "answered" => request'[q].new # NoToken /\ token'[request'[q].new] = "valid"
      <4>1. CleanRefresh(q)
        BY <1>2, <2>3, <2>4, <3>1, Types DEF CleanRefresh
      <4>. QED BY <2>3, <2>4, <3>1, <4>1, Types DEF CleanRefreshes, CleanRefresh
    <3>. QED BY <2>3, <3>1 DEF CleanRefreshes, CleanRefresh
  <2>8. CleanCookie'
    <3>1. Replaced(cookie) => Replaced(cookie)'
      BY <1>1, <2>3 DEF Replaced
    <3>. QED BY <1>1, <1>2, <2>4, <3>1, Types DEF CleanCookie
  <2>9. CleanLogins'
    <3>1. ASSUME NEW q \in Requests, q # r, request'[q].kind = "login", request'[q].new # NoToken,
                 Clean(family'[request'[q].new])
          PROVE  /\ token'[request'[q].new] = "valid" /\ cookie # request'[q].new
                 /\ \A p \in Requests : request'[p].token # request'[q].new /\ (p # q => request'[p].new # request'[q].new)
      <4>1. /\ request'[q] = request[q] /\ request[q].new \in Tokens /\ Clean(family[request[q].new])
            /\ token'[request[q].new] = token[request[q].new]
        BY <2>3, <2>4, <3>1, Types
      <4>2. /\ token[request[q].new] = "valid" /\ cookie # request[q].new
            /\ \A p \in Requests : request[p].token # request[q].new /\ (p # q => request[p].new # request[q].new)
        BY <3>1, <4>1 DEF CleanLogins
      <4>. QED BY <2>3, <2>5, <4>1, <4>2
    <3>2. cookie # n
      BY <2>1, <2>4, Constants
    <3>. QED BY <1>1, <2>1, <2>3, <2>5, <3>1, <3>2 DEF CleanLogins, Clean
  <2>. QED BY <1>3, <2>6, <2>7, <2>8, <2>9
<1>. QED BY <1>4, <1>5 DEF authenticate

LEMMA RaceStep ==
  ASSUME TokenInv, LockInv, RaceInv, Locks, [Next]_vars
  PROVE  RaceInv'
<1>1. ASSUME NEW t \in Tabs,
             Load(t) \/ performRefresh(t) \/ SubmitLogin(t) \/ handleLogout(t)
      PROVE  RaceInv'
  BY <1>1, RaceLoad, RaceSend
<1>2. ASSUME NEW t \in Tabs, withRefreshRetry(t) PROVE RaceInv'
  BY <1>2, RaceSame DEF withRefreshRetry, api, history
<1>3. ASSUME NEW r \in Requests, Handler(r) \/ GoFails(r) \/ Lost(r)
      PROVE  RaceInv'
  BY <1>3, RaceHandler, RaceRead, RaceRevoke, RaceIssue, RaceLogin, RaceLogout, RaceTaken, RaceFails, RaceLost
  DEF Handler
<1>4. CASE UNCHANGED vars
  BY <1>4, RaceSame DEF vars
<1>. QED BY <1>1, <1>2, <1>3, <1>4, RaceReset DEF Next

LEMMA RaceInvariance ==
  ASSUME Locks
  PROVE  Spec => [](TokenInv /\ LockInv /\ RaceInv)
<1>. DEFINE I == TokenInv /\ LockInv /\ RaceInv
<1>1. Init => I
  BY TokenInitInv, LockInitInv, RaceInitInv
<1>2. I /\ [Next]_vars => I'
  BY TokenStep, LockStep, RaceStep
<1>. QED BY <1>1, <1>2, PTL DEF Spec

\* Where the browser has locks, two tabs never have their own family revoked
\* (session.ts:88 withRefreshLock).
THEOREM TabsTakeTurns ==
  ASSUME Locks
  PROVE  Spec => []TabsNeverRace
<1>1. RaceInv => TabsNeverRace
  BY DEF RaceInv
<1>. QED BY RaceInvariance, <1>1, PTL

Of(r, f) == request[r].token # NoToken /\ family[request[r].token] = f

\* An ended family has nothing left but the token of the logout under way; or
\* nothing at all, and no refresh about to issue more.
Ending(f) ==
    /\ \A r \in Requests : Of(r, f) => request[r].kind # "refresh"
    /\ \E r \in Requests :
          /\ Of(r, f) /\ request[r].kind = "logout" /\ request[r].pc = "sent"
          /\ \A k \in Tokens : family[k] = f /\ token[k] = "valid" => k = request[r].token
Over(f) ==
    /\ \A k \in Tokens : family[k] = f => token[k] # "valid"
    /\ \A r \in Requests : Of(r, f) => request[r].pc \notin {"revoke", "issue"}

EndInv ==
    /\ \A f \in ended : f \in Tokens /\ token[f] # "none"
    /\ \A f \in ended \ (left \cup raced) : Ending(f) \/ Over(f)

-----------------------------------------------------------------------------
LEMMA EndInitInv == Init => EndInv
BY DEF Init, EndInv

\* What leaves an ended family as it is.
LEMMA EndKept ==
  ASSUME NEW f, Ending(f) \/ Over(f),
         \A k \in Tokens : token'[k] = "valid" /\ family'[k] = f => token[k] = "valid" /\ family[k] = f,
         \A q \in Requests : Of(q, f)' =>
            /\ request'[q].pc \in {"revoke", "issue"} => Of(q, f) /\ request[q].pc \in {"revoke", "issue"}
            /\ request'[q].kind = "refresh" => Of(q, f) /\ request[q].kind = "refresh",
         \A q \in Requests : Of(q, f) /\ request[q].kind = "logout" /\ request[q].pc = "sent" =>
            Of(q, f)' /\ request'[q].kind = "logout" /\ request'[q].pc = "sent" /\ request'[q].token = request[q].token
  PROVE  (Ending(f) \/ Over(f))'
<1>1. CASE Over(f)
  BY <1>1 DEF Over
<1>2. CASE Ending(f)
  BY <1>2 DEF Ending
<1>. QED BY <1>1, <1>2

LEMMA EndQuiet ==
  ASSUME EndInv, UNCHANGED <<token, family, ended>>, left \subseteq left', raced \subseteq raced',
         \A q \in Requests :
            \/ /\ request'[q].kind = request[q].kind /\ request'[q].pc = request[q].pc
               /\ request'[q].token = request[q].token
            \/ /\ request'[q].pc \notin {"revoke", "issue"} /\ request'[q].token \in {request[q].token, NoToken}
               /\ request'[q].kind \in {request[q].kind, "none"}
               /\ request[q].kind = "logout" => request[q].pc # "sent"
            \/ request[q].kind = "none" /\ request'[q].kind = "login" /\ request'[q].pc = "sent"
  PROVE  EndInv'
<1>1. ASSUME NEW f \in ended \ (left' \cup raced')
      PROVE  (Ending(f) \/ Over(f))'
  <2>1. Ending(f) \/ Over(f)
    BY <1>1 DEF EndInv
  <2>2. \A q \in Requests : Of(q, f)' =>
            /\ request'[q].pc \in {"revoke", "issue"} => Of(q, f) /\ request[q].pc \in {"revoke", "issue"}
            /\ request'[q].kind = "refresh" => Of(q, f) /\ request[q].kind = "refresh"
    BY DEF Of
  <2>3. \A q \in Requests : Of(q, f) /\ request[q].kind = "logout" /\ request[q].pc = "sent" =>
            Of(q, f)' /\ request'[q].kind = "logout" /\ request'[q].pc = "sent" /\ request'[q].token = request[q].token
    BY DEF Of
  <2>. QED BY <2>1, <2>2, <2>3, EndKept
<1>. QED BY <1>1 DEF EndInv

LEMMA EndRefresh ==
  ASSUME TokenInv, EndInv, NEW t \in Tabs, performRefresh(t)
  PROVE  EndInv'
<1>1. PICK r \in Requests :
           /\ request[r] = NoRequest
           /\ request' = [request EXCEPT ![r] = Sent(t, "refresh")]
           /\ Sent(t, "refresh").pc = "sent" /\ Sent(t, "refresh").kind = "refresh"
           /\ Sent(t, "refresh").token = cookie
  BY Asked DEF Kinds, performRefresh
<1>2. /\ request'[r].pc = "sent" /\ request'[r].kind = "refresh" /\ request'[r].token = cookie
      /\ request[r].kind = "none" /\ request[r].token = NoToken
      /\ \A q \in Requests : q # r => request'[q] = request[q]
      /\ UNCHANGED <<token, family, ended, left>> /\ raced \subseteq raced'
  BY <1>1, Constants DEF TokenInv, SessionTypeOK, performRefresh, api
<1>3. ASSUME NEW f \in ended \ (left' \cup raced')
      PROVE  (Ending(f) \/ Over(f))'
  <2>1. Ending(f) \/ Over(f)
    BY <1>2, <1>3 DEF EndInv
  <2>2. CASE Over(f)
    BY <1>2, <2>2 DEF Over, Of
  <2>3. CASE Ending(f)
    <3>1. \E q \in Requests : request[q].kind = "logout" /\ f \in Families({request[q].token})
      BY <2>3 DEF Ending, Of, Families
    <3>2. cookie = NoToken \/ family[cookie] # f
      BY <1>3, <3>1 DEF performRefresh, Under, Families
    <3>3. ~Of(r, f)'
      BY <1>2, <3>2 DEF Of
    <3>4. \A q \in Requests : q # r => (Of(q, f)' <=> Of(q, f))
      BY <1>2 DEF Of
    <3>5. ~Of(r, f)
      BY <1>2 DEF Of
    <3>. QED BY <1>2, <2>3, <3>3, <3>4, <3>5 DEF Ending
  <2>. QED BY <2>1, <2>2, <2>3
<1>. QED BY <1>2, <1>3 DEF EndInv

\* The family of the cookie ends: with no refresh under way its one valid
\* token is the cookie's.
LEMMA EndLogout ==
  ASSUME TokenInv, RaceInv, EndInv, NEW t \in Tabs, handleLogout(t)
  PROVE  EndInv'
<1>1. PICK r \in Requests :
           /\ request[r] = NoRequest
           /\ request' = [request EXCEPT ![r] = Sent(t, "logout")]
           /\ Sent(t, "logout").pc = "sent" /\ Sent(t, "logout").kind = "logout"
           /\ Sent(t, "logout").token = cookie
  BY Asked DEF Kinds, handleLogout
<1>2. /\ request'[r].pc = "sent" /\ request'[r].kind = "logout" /\ request'[r].token = cookie
      /\ request[r].kind = "none" /\ request[r].token = NoToken
      /\ \A q \in Requests : q # r => request'[q] = request[q]
      /\ UNCHANGED <<token, family, left, cookie>> /\ raced \subseteq raced'
      /\ ended' = ended \cup Families({cookie})
  BY <1>1, Constants DEF TokenInv, SessionTypeOK, handleLogout, api
<1>3. \A f \in ended' : f \in Tokens /\ token[f] # "none"
  BY <1>2, Types DEF EndInv, Families, TokenInv, FamiliesIssued, TokensIssued, Issued, OrNone
<1>4. ASSUME NEW f \in ended' \ (left' \cup raced')
      PROVE  (Ending(f) \/ Over(f))'
  <2>1. CASE f \in ended
    <3>1. Ending(f) \/ Over(f)
      BY <1>2, <1>4, <2>1 DEF EndInv
    <3>2. \A q \in Requests : Of(q, f)' =>
            /\ request'[q].pc \in {"revoke", "issue"} => Of(q, f) /\ request[q].pc \in {"revoke", "issue"}
            /\ request'[q].kind = "refresh" => Of(q, f) /\ request[q].kind = "refresh"
      BY <1>2 DEF Of
    <3>3. \A q \in Requests : Of(q, f) /\ request[q].kind = "logout" /\ request[q].pc = "sent" =>
            Of(q, f)' /\ request'[q].kind = "logout" /\ request'[q].pc = "sent" /\ request'[q].token = request[q].token
      BY <1>2 DEF Of
    <3>. QED BY <1>2, <3>1, <3>2, <3>3, EndKept
  <2>2. CASE f \notin ended
    <3>1. cookie # NoToken /\ f = family[cookie]
      BY <1>2, <1>4, <2>2 DEF Families
    <3>2. \A q \in Requests : Of(q, f) => request[q].kind # "refresh"
      BY <1>4, <3>1 DEF handleLogout, Under, Families, Of
    <3>3. Clean(f)
      BY <1>2, <1>4, <2>2 DEF Clean
    <3>4. token[cookie] = "valid"
      BY <3>1, <3>2, <3>3 DEF RaceInv, CleanCookie, Replaced, Of
    <3>5. \A k \in Tokens : family[k] = f /\ token[k] = "valid" => k = cookie
      BY <3>1, <3>4, Types DEF TokenInv, OneValidToken, OrNone
    <3>6. \A q \in Requests : Of(q, f)' => request'[q].kind # "refresh"
      BY <1>2, <3>2 DEF Of
    <3>7. Of(r, f)'
      BY <1>2, <3>1 DEF Of
    <3>. QED BY <1>2, <3>5, <3>6, <3>7 DEF Ending
  <2>. QED BY <2>1, <2>2
<1>. QED BY <1>2, <1>3, <1>4 DEF EndInv

\* Its token is revoked: the family is over.
LEMMA EndRevoked ==
  ASSUME TokenInv, EndInv, NEW r \in Requests, logoutHandler(r)
  PROVE  EndInv'
<1>1. /\ \A q \in Requests : request'[q].kind = request[q].kind /\ request'[q].token = request[q].token
      /\ \A q \in Requests : q # r => request'[q].pc = request[q].pc
      /\ request'[r].pc = "answered" /\ request[r].kind = "logout" /\ request[r].pc = "sent"
      /\ UNCHANGED <<family, ended, left>> /\ raced \subseteq raced'
  BY DEF logoutHandler, TokenInv, SessionTypeOK, RequestRecords
<1>2. \A k \in Tokens : token'[k] = token[k] \/ token'[k] = "revoked"
  BY DEF logoutHandler, LogoutToken, TokenInv, SessionTypeOK
<1>3. ASSUME NEW f \in ended \ (left' \cup raced')
      PROVE  (Ending(f) \/ Over(f))'
  <2>1. Ending(f) \/ Over(f)
    BY <1>1, <1>3 DEF EndInv
  <2>2. CASE Of(r, f)
    <3>1. token' = [token EXCEPT ![request[r].token] = "revoked"]
      BY <1>3, <2>2 DEF logoutHandler, LogoutToken, Of, Families
    <3>2. CASE Over(f)
      BY <1>1, <1>2, <3>2 DEF Over, Of
    <3>3. CASE Ending(f)
      <4>1. PICK p \in Requests :
                 /\ Of(p, f) /\ request[p].kind = "logout" /\ request[p].pc = "sent"
                 /\ \A k \in Tokens : family[k] = f /\ token[k] = "valid" => k = request[p].token
        BY <3>3 DEF Ending
      <4>2. \A q \in Requests : Of(q, f)' <=> Of(q, f)
        BY <1>1 DEF Of
      <4>3. \A q \in Requests : Of(q, f) => request[q].kind # "refresh"
        BY <3>3 DEF Ending
      <4>4. CASE p # r
        <5>1. \A k \in Tokens : family'[k] = f /\ token'[k] = "valid" => k = request'[p].token
          BY <1>1, <1>2, <4>1
        <5>2. Of(p, f)' /\ request'[p].kind = "logout" /\ request'[p].pc = "sent"
          BY <1>1, <4>1, <4>2, <4>4
        <5>. QED BY <1>1, <4>2, <4>3, <5>1, <5>2 DEF Ending
      <4>5. CASE p = r
        <5>1. \A k \in Tokens : family'[k] = f => token'[k] # "valid"
          BY <1>1, <1>2, <3>1, <4>1, <4>5 DEF TokenInv, SessionTypeOK
        <5>2. \A q \in Requests : Of(q, f) => request[q].pc \notin {"revoke", "issue"}
          BY <4>3 DEF TokenInv, OneLeader, AtApi
        <5>. QED BY <1>1, <4>2, <5>1, <5>2 DEF Over
      <4>. QED BY <4>4, <4>5
    <3>. QED BY <2>1, <3>2, <3>3
  <2>3. CASE ~Of(r, f)
    <3>1. \A q \in Requests : Of(q, f)' =>
            /\ request'[q].pc \in {"revoke", "issue"} => Of(q, f) /\ request[q].pc \in {"revoke", "issue"}
            /\ request'[q].kind = "refresh" => Of(q, f) /\ request[q].kind = "refresh"
      BY <1>1, <2>3 DEF Of
    <3>2. \A q \in Requests : Of(q, f) /\ request[q].kind = "logout" /\ request[q].pc = "sent" =>
            Of(q, f)' /\ request'[q].kind = "logout" /\ request'[q].pc = "sent" /\ request'[q].token = request[q].token
      BY <1>1, <2>3 DEF Of
    <3>3. \A k \in Tokens : token'[k] = "valid" /\ family'[k] = f => token[k] = "valid" /\ family[k] = f
      BY <1>1, <1>2
    <3>. QED BY <2>1, <3>1, <3>2, <3>3, EndKept
  <2>. QED BY <2>2, <2>3
<1>. QED BY <1>1, <1>2, <1>3 DEF EndInv

\* Every token of the user is revoked: a family without a refresh is over.
LEMMA EndReset ==
  ASSUME TokenInv, EndInv, ConfirmPasswordReset
  PROVE  EndInv'
<1>. DEFINE all == Families({k \in Tokens : token[k] # "none"})
<1>1. /\ UNCHANGED <<request, family, left, cookie>> /\ raced \subseteq raced'
      /\ ended' = ended \cup all /\ Revoked(all)
      /\ raced' = raced \cup {f \in all : Under("refresh", f)}
  BY DEF ConfirmPasswordReset
<1>2. \A k \in Tokens : token'[k] = IF token[k] = "valid" /\ family[k] \in all THEN "revoked" ELSE token[k]
  BY <1>1 DEF Revoked
<1>3. \A k \in Tokens : token[k] # "none" => family[k] \in all
  BY Constants DEF Families
<1>4. \A f \in ended' : f \in Tokens /\ token'[f] # "none"
  BY <1>1, <1>2 DEF EndInv, Families, TokenInv, FamiliesIssued
<1>5. ASSUME NEW f \in ended' \ (left' \cup raced')
      PROVE  Over(f)'
  <2>1. \A k \in Tokens : token'[k] # "valid"
    BY <1>2, <1>3 DEF TokenInv, SessionTypeOK
  <2>2. ASSUME NEW q \in Requests, Of(q, f), request[q].pc \in {"revoke", "issue"} PROVE FALSE
    <3>1. request[q].kind = "refresh" /\ request[q].token \in Tokens /\ token[request[q].token] # "none"
      BY <2>2, Types DEF TokenInv, OneLeader, AtApi, TokensIssued, Issued, OrNone
    <3>2. f \in all
      BY <1>3, <2>2, <3>1 DEF Of
    <3>3. Under("refresh", f)
      BY <2>2, <3>1 DEF Under, Families, Of
    <3>. QED BY <1>1, <1>5, <3>2, <3>3
  <2>. QED BY <1>1, <2>1, <2>2 DEF Over, Of
<1>. QED BY <1>4, <1>5 DEF EndInv

\* A refresh of an ended family finds no valid token.
LEMMA EndApi ==
  ASSUME TokenInv, EndInv, NEW r \in Requests, GoRead(r) \/ GoRevoke(r) \/ GoFails(r)
  PROVE  EndInv'
<1>. DEFINE k == request[r].token
<1>1. /\ request[r].kind = "refresh" /\ k \in Tokens /\ k # NoToken /\ request[r].pc \in AtApi
      /\ UNCHANGED <<family, ended, left>> /\ raced \subseteq raced'
  BY Types DEF TokenInv, OneLeader, AtApi, OrNone, GoRead, GoRevoke, GoFails, Leads, history, api
<1>2. /\ \A q \in Requests :
              /\ request'[q].kind = request[q].kind /\ request'[q].token = request[q].token
              /\ \/ request'[q] = request[q]
                 \/ request[q].kind = "refresh" /\ request'[q].pc = "answered"
                 \/ q = r /\ \/ request[r].pc = "read" /\ request'[r].pc = "revoke" /\ token[k] = "valid"
                             \/ request[r].pc = "revoke"
  <2>1. ASSUME Settle(r, NoToken)
        PROVE  \A q \in Requests :
                 /\ request'[q].kind = request[q].kind /\ request'[q].token = request[q].token
                 /\ request'[q] = request[q] \/ (request[q].kind = "refresh" /\ request'[q].pc = "answered")
    BY <1>1, <2>1, Settled DEF OrNone
  <2>2. CASE GoFails(r)
    BY <2>1, <2>2 DEF GoFails
  <2>3. CASE GoRead(r) /\ token[k] # "valid"
    BY <2>1, <2>3 DEF GoRead
  <2>4. CASE GoRead(r) /\ token[k] = "valid"
    BY <2>4 DEF GoRead, TokenInv, SessionTypeOK, RequestRecords
  <2>5. CASE GoRevoke(r)
    BY <2>5 DEF GoRevoke, TokenInv, SessionTypeOK, RequestRecords
  <2>. QED BY <2>2, <2>3, <2>4, <2>5
<1>3. \A j \in Tokens : token'[j] = token[j] \/ (token[j] # "none" /\ token'[j] = "revoked")
  BY <1>1 DEF GoRead, GoRevoke, GoFails, api, Revoked, TokenInv, SessionTypeOK, TokensIssued, Issued
<1>4. ASSUME NEW f \in ended \ (left' \cup raced')
      PROVE  (Ending(f) \/ Over(f))'
  <2>1. Ending(f) \/ Over(f)
    BY <1>1, <1>4 DEF EndInv
  <2>2. Of(r, f) => token[k] # "valid" /\ request[r].pc # "revoke"
    BY <1>1, <2>1 DEF Ending, Over, Of
  <2>3. \A q \in Requests : Of(q, f)' =>
            /\ request'[q].pc \in {"revoke", "issue"} => Of(q, f) /\ request[q].pc \in {"revoke", "issue"}
            /\ request'[q].kind = "refresh" => Of(q, f) /\ request[q].kind = "refresh"
    BY <1>1, <1>2, <2>2 DEF Of
  <2>4. \A q \in Requests : Of(q, f) /\ request[q].kind = "logout" /\ request[q].pc = "sent" =>
            Of(q, f)' /\ request'[q].kind = "logout" /\ request'[q].pc = "sent" /\ request'[q].token = request[q].token
    BY <1>1, <1>2 DEF Of
  <2>5. \A j \in Tokens : token'[j] = "valid" /\ family'[j] = f => token[j] = "valid" /\ family[j] = f
    BY <1>1, <1>3
  <2>. QED BY <2>1, <2>3, <2>4, <2>5, EndKept
<1>. QED BY <1>1, <1>3, <1>4 DEF EndInv

\* A token is issued: for a family that has not ended, or for its own.
LEMMA EndIssue ==
  ASSUME TokenInv, EndInv, NEW n \in Tokens, token[n] = "none", NEW g \in Tokens, family'[n] = g,
         token' \in [Tokens -> {"none", "valid", "revoked"}], token'[n] = "valid",
         \A j \in Tokens : j # n => token'[j] = token[j] /\ family'[j] = family[j],
         g \in ended \ (left \cup raced) => ~Ending(g) /\ ~Over(g), UNCHANGED <<left, raced, ended>>,
         \A q \in Requests :
              /\ request'[q].kind = request[q].kind /\ request'[q].token = request[q].token
              /\ request'[q] = request[q] \/ (request[q].kind # "logout" /\ request'[q].pc = "answered")
  PROVE  EndInv'
<1>1. \A q \in Requests : request[q].token # NoToken => request[q].token # n /\ request[q].token \in Tokens
  BY Types DEF TokenInv, TokensIssued, Issued, OrNone
<1>2. ASSUME NEW f \in ended \ (left \cup raced)
      PROVE  (Ending(f) \/ Over(f))'
  <2>1. (Ending(f) \/ Over(f)) /\ f # g
    BY <1>2 DEF EndInv
  <2>2. \A q \in Requests : Of(q, f)' <=> Of(q, f)
    BY <1>1 DEF Of
  <2>3. \A q \in Requests : Of(q, f)' =>
            /\ request'[q].pc \in {"revoke", "issue"} => Of(q, f) /\ request[q].pc \in {"revoke", "issue"}
            /\ request'[q].kind = "refresh" => Of(q, f) /\ request[q].kind = "refresh"
    BY <2>2
  <2>4. \A q \in Requests : Of(q, f) /\ request[q].kind = "logout" /\ request[q].pc = "sent" =>
            Of(q, f)' /\ request'[q].kind = "logout" /\ request'[q].pc = "sent" /\ request'[q].token = request[q].token
    BY <2>2
  <2>5. \A j \in Tokens : token'[j] = "valid" /\ family'[j] = f => token[j] = "valid" /\ family[j] = f
    BY <2>1
  <2>. QED BY <2>1, <2>3, <2>4, <2>5, EndKept
<1>. QED BY <1>2 DEF EndInv

LEMMA EndRotated ==
  ASSUME TokenInv, EndInv, NEW r \in Requests, GoIssue(r)
  PROVE  EndInv'
<1>. DEFINE k == request[r].token
            g == family[k]
            n == NextToken
<1>1. /\ request[r].pc = "issue" /\ request[r].kind = "refresh" /\ k \in Tokens /\ k # NoToken /\ token[k] # "none"
      /\ UNCHANGED <<left, ended, raced>>
  BY Types, Constants DEF GoIssue, TokenInv, OneLeader, AtApi, history, OrNone, TokensIssued, Issued
<1>2. g \in Tokens /\ token[g] # "none"
  BY <1>1 DEF FamiliesIssued, TokenInv
<1>3. /\ n \in Tokens /\ token[n] = "none" /\ token'[n] = "valid" /\ family'[n] = g
      /\ token' \in [Tokens -> {"none", "valid", "revoked"}]
      /\ \A j \in Tokens : j # n => token'[j] = token[j] /\ family'[j] = family[j]
  <2>1. Issue(g) /\ g # NoToken
    BY <1>2, Constants DEF GoIssue
  <2>. HIDE DEF g
  <2>. QED BY <1>2, <2>1, Issues DEF OrNone
<1>4. ~Ending(g) /\ ~Over(g)
  BY <1>1 DEF Ending, Over, Of
<1>5. Settle(r, n)
  BY DEF GoIssue
<1>. HIDE DEF n, g
<1>6. \A q \in Requests :
              /\ request'[q].kind = request[q].kind /\ request'[q].token = request[q].token
              /\ request'[q] = request[q] \/ (request[q].kind # "logout" /\ request'[q].pc = "answered")
  BY <1>1, <1>3, <1>5, Settled DEF OrNone, AtApi
<1>. QED BY <1>1, <1>2, <1>3, <1>4, <1>6, EndIssue

LEMMA EndLogin ==
  ASSUME TokenInv, EndInv, NEW r \in Requests, authenticate(r)
  PROVE  EndInv'
<1>. DEFINE n == NextToken
<1>1. request[r].kind = "login" /\ UNCHANGED <<left, ended, raced>>
  BY DEF authenticate, history
<1>2. CASE request' = [request EXCEPT ![r].pc = "answered"] /\ UNCHANGED api
  <2>1. \A q \in Requests :
           /\ request'[q].kind = request[q].kind /\ request'[q].token = request[q].token
           /\ request'[q].pc = request[q].pc \/ (q = r /\ request'[q].pc = "answered")
    BY <1>2 DEF TokenInv, SessionTypeOK, RequestRecords
  <2>. QED BY <1>1, <1>2, <2>1, EndQuiet DEF api
<1>3. CASE Issue(NoToken) /\ request' = [request EXCEPT ![r].pc = "answered", ![r].new = NextToken]
  <2>1. /\ n \in Tokens /\ token[n] = "none" /\ token'[n] = "valid" /\ family'[n] = n
        /\ token' \in [Tokens -> {"none", "valid", "revoked"}]
        /\ \A j \in Tokens : j # n => token'[j] = token[j] /\ family'[j] = family[j]
    BY <1>3, Issues DEF OrNone
  <2>2. request' = [request EXCEPT ![r] = [request[r] EXCEPT !.pc = "answered", !.new = n]]
    BY <1>3 DEF TokenInv, SessionTypeOK
  <2>. HIDE DEF n
  <2>3. \A q \in Requests :
              /\ request'[q].kind = request[q].kind /\ request'[q].token = request[q].token
              /\ request'[q] = request[q] \/ (request[q].kind # "logout" /\ request'[q].pc = "answered")
    BY <1>1, <2>2 DEF TokenInv, SessionTypeOK, RequestRecords
  <2>4. n \notin ended
    BY <2>1 DEF EndInv
  <2>. QED BY <1>1, <2>1, <2>3, <2>4, EndIssue
<1>. QED BY <1>2, <1>3 DEF authenticate

LEMMA EndStep ==
  ASSUME TokenInv, RaceInv, EndInv, [Next]_vars
  PROVE  EndInv'
<1>1. ASSUME NEW t \in Tabs, Load(t) PROVE EndInv'
  <2>1. \A q \in Requests :
          /\ request'[q].kind = request[q].kind /\ request'[q].pc = request[q].pc
          /\ request'[q].token = request[q].token
    BY <1>1 DEF Load, TokenInv, SessionTypeOK, RequestRecords
  <2>. QED BY <1>1, <2>1, EndQuiet DEF Load, api
<1>2. ASSUME NEW t \in Tabs, withRefreshRetry(t) PROVE EndInv'
  BY <1>2, EndQuiet DEF withRefreshRetry, api, history
<1>3. ASSUME NEW t \in Tabs, SubmitLogin(t) PROVE EndInv'
  <2>1. PICK r \in Requests :
           /\ request[r] = NoRequest
           /\ request' = [request EXCEPT ![r] = Sent(t, "login")]
           /\ Sent(t, "login").pc = "sent" /\ Sent(t, "login").kind = "login"
    BY <1>3, Asked DEF Kinds, SubmitLogin
  <2>2. /\ request'[r].pc = "sent" /\ request'[r].kind = "login" /\ request[r].kind = "none"
        /\ \A q \in Requests : q # r => request'[q] = request[q]
    BY <2>1, Constants DEF TokenInv, SessionTypeOK
  <2>. QED BY <1>3, <2>2, EndQuiet DEF SubmitLogin, api, history
<1>4. ASSUME NEW t \in Tabs, performRefresh(t) \/ handleLogout(t) PROVE EndInv'
  BY <1>4, EndRefresh, EndLogout
<1>5. ASSUME NEW r \in Requests, refreshHandler(r) PROVE EndInv'
  <2>1. \A q \in Requests : q # r => request'[q] = request[q]
    BY <1>5 DEF refreshHandler, refreshOnce, TokenInv, SessionTypeOK
  <2>2. /\ request[r].kind = "refresh" /\ request'[r].kind = "refresh" /\ request'[r].token = request[r].token
    BY <1>5, SamePlace DEF refreshHandler
  <2>3. request'[r].pc \in {"read", "joined", "answered"}
    <3>1. CASE request[r].token = NoToken
      BY <1>5, <3>1 DEF refreshHandler, TokenInv, SessionTypeOK, RequestRecords
    <3>2. CASE request[r].token # NoToken
      BY <1>5, <3>2 DEF refreshHandler, refreshOnce, TokenInv, SessionTypeOK, RequestRecords
    <3>. QED BY <3>1, <3>2
  <2>. QED BY <1>5, <2>1, <2>2, <2>3, EndQuiet DEF refreshHandler, api, history
<1>6. ASSUME NEW r \in Requests, RefreshAnswered(r) \/ LoginAnswered(r) \/ LogoutAnswered(r) \/ Unheard(r)
      PROVE  EndInv'
  <2>1. /\ request'[r].kind = "none" /\ request'[r].pc = "idle" /\ request'[r].token = NoToken /\ request[r].pc = "answered"
        /\ \A q \in Requests : q # r => request'[q] = request[q]
        /\ UNCHANGED <<token, family, ended, left, raced>>
    BY <1>6, Constants DEF RefreshAnswered, LoginAnswered, LogoutAnswered, Unheard, TokenInv, SessionTypeOK, api, history
  <2>. QED BY <2>1, EndQuiet
<1>7. ASSUME NEW r \in Requests, Lost(r) PROVE EndInv'
  <2>1. \A q \in Requests :
          /\ request'[q].kind = request[q].kind /\ request'[q].pc = request[q].pc
          /\ request'[q].token = request[q].token
    BY <1>7 DEF Lost, TokenInv, SessionTypeOK, RequestRecords
  <2>. QED BY <1>7, <2>1, EndQuiet DEF Lost, api
<1>8. ASSUME NEW r \in Requests,
             GoRead(r) \/ GoRevoke(r) \/ GoFails(r) \/ GoIssue(r) \/ authenticate(r) \/ logoutHandler(r)
      PROVE  EndInv'
  BY <1>8, EndApi, EndRotated, EndLogin, EndRevoked
<1>9. CASE UNCHANGED vars
  BY <1>9, EndQuiet DEF vars
<1>. QED BY <1>1, <1>2, <1>3, <1>4, <1>5, <1>6, <1>7, <1>8, <1>9, EndReset DEF Next, Handler

\* An ended session is over, for good, with the exceptions the property names
\* (bff.ts:191 logoutHandler, service.go:174).
THEOREM EndedForGood ==
  ASSUME Locks
  PROVE  Spec => []EndedStaysEnded
<1>. DEFINE I == TokenInv /\ LockInv /\ RaceInv /\ EndInv
<1>1. Init => I
  BY TokenInitInv, LockInitInv, RaceInitInv, EndInitInv
<1>2. I /\ [Next]_vars => I'
  BY TokenStep, LockStep, RaceStep, EndStep
<1>3. I => EndedStaysEnded
  <2>. SUFFICES ASSUME TokenInv, EndInv, NEW f \in ended \ (left \cup raced),
                       ~\E r \in Requests : f \in Families({request[r].token}),
                       NEW k \in Tokens, family[k] = f
                PROVE  token[k] # "valid"
    BY DEF EndedStaysEnded
  <2>1. \A r \in Requests : ~Of(r, f)
    BY DEF Families, Of
  <2>. QED BY <2>1 DEF EndInv, Ending, Over
<1>. QED BY <1>1, <1>2, <1>3, PTL DEF Spec

-----------------------------------------------------------------------------
(***************************************************************************)
(* The export card, for any number of exports and mishaps: the card shows  *)
(* no export it was told is gone, so what it shows has a button, or is     *)
(* asked for again by itself.                                              *)
(***************************************************************************)
QueryRecords == [status : {"none", "pending", "processing", "ready", "failed", "expired"},
                 url : BOOLEAN, error : {"none", "404", "5xx"}]

CardTypeOK ==
    /\ job \in [Ids -> {"none", "pending", "processing", "ready", "failed", "expired", "gone"}]
    /\ exportId \in Ids \cup {0}
    /\ exportQuery \in [Ids -> QueryRecords]
    /\ asked \in [Ids -> [on : BOOLEAN, answer : QueryRecords]]
    /\ createExport \in [on : {"idle", "sent", "served"}, id : Ids \cup {0}, status : Active \cup {"none"}]

\* The export of the card was not found to be gone: that forgets its id.
NotForgotten == exportId # 0 => exportQuery[exportId].error # "404"

CardInv ==
    /\ CardTypeOK /\ NotForgotten
    /\ createExport.on = "served" => createExport.id \in Ids

-----------------------------------------------------------------------------
LEMMA CardConstants ==
  /\ Ids \subseteq Nat \ {0} /\ NoQuery \in QueryRecords /\ NoAsk \in [on : BOOLEAN, answer : QueryRecords]
  /\ NoCreate \in [on : {"idle", "sent", "served"}, id : Ids \cup {0}, status : Active \cup {"none"}]
  /\ NoQuery.error = "none" /\ NoCreate.on = "idle"
BY ExportCardAssumption DEF ExportCardAssumption, Ids, NoQuery, QueryRecords, NoAsk, NoCreate

LEMMA CardInitInv == ExportInit => CardInv
BY CardConstants DEF ExportInit, CardInv, CardTypeOK, NotForgotten

LEMMA CardAsks ==
  ASSUME CardInv, AskExport, UNCHANGED <<job, exportId, createExport>>
  PROVE  CardInv'
<1>1. exportId \in Ids
  BY DEF AskExport, CardInv, CardTypeOK
<1>2. /\ exportQuery' \in [Ids -> QueryRecords]
      /\ exportQuery'[exportId].error \in {"none", exportQuery[exportId].error}
  BY <1>1 DEF AskExport, CardInv, CardTypeOK, QueryRecords
<1>3. asked' \in [Ids -> [on : BOOLEAN, answer : QueryRecords]]
  <2>1. asked[exportId] \in [on : BOOLEAN, answer : QueryRecords]
    BY <1>1 DEF CardInv, CardTypeOK
  <2>2. asked' = [asked EXCEPT ![exportId] = [asked[exportId] EXCEPT !.on = TRUE]]
    BY DEF AskExport
  <2>. QED BY <1>1, <2>1, <2>2 DEF CardInv, CardTypeOK
<1>. QED BY <1>1, <1>2, <1>3, CardConstants DEF CardInv, CardTypeOK, NotForgotten

LEMMA CardReads ==
  ASSUME CardInv, NEW i \in Ids, ReadExport(i)
  PROVE  CardInv'
<1>1. (IF job[i] = "gone" THEN [NoQuery EXCEPT !.error = "404"] ELSE ExportView(i)) \in QueryRecords
  BY CardConstants DEF ExportView, QueryRecords, NoQuery, CardInv, CardTypeOK
<1>2. asked' \in [Ids -> [on : BOOLEAN, answer : QueryRecords]]
  BY <1>1 DEF ReadExport, CardInv, CardTypeOK
<1>. QED BY <1>2 DEF ReadExport, CardInv, CardTypeOK, NotForgotten

\* Not found, and the card asks no more for it.
LEMMA CardAnswered ==
  ASSUME CardInv, NEW i \in Ids, ExportAnswered(i)
  PROVE  CardInv'
<1>1. PICK ends \in {"ok", "404", "5xx"} :
         /\ ends # "5xx" => asked[i].answer # NoQuery /\ (ends = "404" <=> asked[i].answer.error = "404") /\ UNCHANGED mishaps
         /\ exportQuery' = [exportQuery EXCEPT ![i] = IF ends = "ok" THEN asked[i].answer ELSE [@ EXCEPT !.error = ends]]
         /\ exportId' = IF ends = "404" /\ exportId = i THEN 0 ELSE exportId
  BY DEF ExportAnswered
<1>2. asked[i].answer \in QueryRecords /\ exportQuery[i] \in QueryRecords
  BY DEF CardInv, CardTypeOK
<1>3. /\ exportQuery' \in [Ids -> QueryRecords]
      /\ \A j \in Ids : j # i => exportQuery'[j] = exportQuery[j]
      /\ ends # "404" => exportQuery'[i].error # "404"
  BY <1>1, <1>2 DEF CardInv, CardTypeOK, QueryRecords
<1>4. exportId' \in Ids \cup {0} /\ NotForgotten'
  BY <1>1, <1>3, CardConstants DEF CardInv, CardTypeOK, NotForgotten
<1>5. asked' \in [Ids -> [on : BOOLEAN, answer : QueryRecords]]
  BY CardConstants DEF ExportAnswered, CardInv, CardTypeOK
<1>. QED BY <1>3, <1>4, <1>5 DEF ExportAnswered, CardInv, CardTypeOK

LEMMA CardCreates ==
  ASSUME CardInv, handleCreate \/ CreateServed \/ CreateAnswered
  PROVE  CardInv'
<1>1. CASE handleCreate
  <2>1. createExport' \in [on : {"idle", "sent", "served"}, id : Ids \cup {0}, status : Active \cup {"none"}]
        /\ createExport'.on # "served"
    BY <1>1, CardConstants DEF handleCreate, NoCreate
  <2>. QED BY <1>1, <2>1 DEF handleCreate, CardInv, CardTypeOK, NotForgotten
<1>2. CASE CreateServed
  <2>1. PICK i \in Ids :
         /\ \/ job[i] \in Active /\ UNCHANGED job
            \/ job' = [job EXCEPT ![i] = "pending"]
         /\ createExport' = [on |-> "served", id |-> i, status |-> job'[i]]
    BY <1>2 DEF CreateServed
  <2>2. job'[i] \in Active /\ job' \in [Ids -> {"none", "pending", "processing", "ready", "failed", "expired", "gone"}]
    BY <2>1 DEF CardInv, CardTypeOK, Active
  <2>3. createExport' \in [on : {"idle", "sent", "served"}, id : Ids \cup {0}, status : Active \cup {"none"}]
        /\ createExport'.id \in Ids
    BY <2>1, <2>2
  <2>. QED BY <1>2, <2>2, <2>3 DEF CreateServed, CardInv, CardTypeOK, NotForgotten
<1>3. CASE CreateAnswered
  <2>1. CASE /\ createExport.on = "served"
             /\ exportQuery' = [exportQuery EXCEPT ![createExport.id] = [NoQuery EXCEPT !.status = createExport.status]]
             /\ exportId' = IF storage THEN createExport.id ELSE 0
    <3>1. createExport.id \in Ids /\ [NoQuery EXCEPT !.status = createExport.status] \in QueryRecords
      BY <2>1 DEF CardInv, CardTypeOK, NoQuery, QueryRecords, Active
    <3>2. /\ exportQuery' \in [Ids -> QueryRecords] /\ exportQuery'[createExport.id].error = "none"
          /\ exportId' \in {createExport.id, 0}
      BY <2>1, <3>1 DEF CardInv, CardTypeOK, NoQuery
    <3>. QED BY <1>3, <3>1, <3>2, CardConstants DEF CreateAnswered, CardInv, CardTypeOK, NotForgotten
  <2>2. CASE UNCHANGED <<exportQuery, exportId>>
    BY <1>3, <2>2, CardConstants DEF CreateAnswered, CardInv, CardTypeOK, NotForgotten
  <2>. QED BY <1>3, <2>1, <2>2 DEF CreateAnswered
<1>. QED BY <1>1, <1>2, <1>3

LEMMA CardElsewhere ==
  ASSUME CardInv,
         \/ Reload \/ UNCHANGED exportVars
         \/ \E i \in Ids : WorkExport(i) \/ Elapse(i) \/ PurgeExport(i)
  PROVE  CardInv'
<1>1. CASE Reload
  BY <1>1, CardConstants DEF Reload, CardInv, CardTypeOK, NotForgotten
<1>2. CASE UNCHANGED exportVars
  BY <1>2 DEF exportVars, CardInv, CardTypeOK, NotForgotten
<1>3. ASSUME NEW i \in Ids, WorkExport(i) \/ Elapse(i) \/ PurgeExport(i)
      PROVE  CardInv'
  <2>1. job' \in [Ids -> {"none", "pending", "processing", "ready", "failed", "expired", "gone"}]
    BY <1>3 DEF WorkExport, Elapse, PurgeExport, CardInv, CardTypeOK
  <2>. QED BY <1>3, <2>1 DEF WorkExport, Elapse, PurgeExport, CardInv, CardTypeOK, NotForgotten
<1>. QED BY <1>1, <1>2, <1>3

LEMMA CardStep == CardInv /\ [ExportNext]_exportVars => CardInv'
<1>. SUFFICES ASSUME CardInv, [ExportNext]_exportVars PROVE CardInv'
  OBVIOUS
<1>1. CASE MountCard \/ PollExport \/ RetryAsk \/ handleDownload
  BY <1>1, CardAsks DEF MountCard, PollExport, RetryAsk, handleDownload, AskExport
<1>2. CASE handleCreate \/ CreateServed \/ CreateAnswered
  BY <1>2, CardCreates
<1>3. ASSUME NEW i \in Ids, ReadExport(i) \/ ExportAnswered(i) PROVE CardInv'
  BY <1>3, CardReads, CardAnswered
<1>. QED BY <1>1, <1>2, <1>3, CardElsewhere DEF ExportNext

\* What is left to do is shown, whether or not anybody goes on.
LEMMA CardSafe == ExportInit /\ [][ExportNext]_exportVars => []ExportNeverStuck
<1>1. CardInv => ExportNeverStuck
  <2>. SUFFICES ASSUME CardInv, ~ByItself PROVE Buttons # {}
    BY DEF ExportNeverStuck
  <2>1. CASE exportId = 0
    <3>1. "create" \in Buttons
      BY <2>1 DEF Buttons
    <3>. QED BY <3>1
  <2>2. CASE exportId # 0
    <3>1. Shown = exportQuery[exportId] /\ Shown \in QueryRecords /\ Shown.error # "404"
      BY <2>2 DEF Shown, CardInv, CardTypeOK, NotForgotten
    <3>2. \/ Shown.status = "none" /\ Shown.error = "5xx"
          \/ Shown.status \in {"ready", "failed", "expired"}
      BY <2>2, <3>1 DEF ByItself, isWorking, Active, QueryRecords
    <3>3. CASE Shown.status = "none" /\ Shown.error = "5xx"
      <4>1. "retry" \in Buttons
        BY <2>2, <3>3 DEF Buttons
      <4>. QED BY <4>1
    <3>4. CASE Shown.status \in {"ready", "failed", "expired"}
      <4>1. showReady \/ Shown.status = "failed" \/ showExpired
        BY <3>4 DEF showReady, showExpired, expiredByClock
      <4>2. "again" \in Buttons
        BY <4>1 DEF Buttons
      <4>. QED BY <4>2
    <3>. QED BY <3>2, <3>3, <3>4
  <2>. QED BY <2>1, <2>2
<1>. QED BY CardInitInv, CardStep, <1>1, PTL

\* The card offers something whenever nothing will happen by itself
\* (export-card.tsx:125).
THEOREM CardNeverStuck == ExportSpec => []ExportNeverStuck
BY CardSafe, PTL DEF ExportSpec

-----------------------------------------------------------------------------
(***************************************************************************)
(* A proof that what is stored of an event's access fits together, for any *)
(* plan, any number of saves and any overlap of two of them.  A row that a *)
(* handler is about to write was checked as a whole when it was made; the  *)
(* invariant says so of the two that may be pending.  What the row on disk *)
(* is by the time of the write plays no part, because the write leaves     *)
(* nothing of it (repository.go:337).                                      *)
(***************************************************************************)

Values   == [visibility : Visibility, password : BOOLEAN, allowDownload : BOOLEAN, allowOriginalDownload : BOOLEAN]
Bodies   == [visibility : Visibility, password : Passwords, allowDownload : BOOLEAN, allowOriginalDownload : BOOLEAN]
Rows     == [visibility : Visibility, hash : BOOLEAN, allowDownload : BOOLEAN, allowOriginalDownload : BOOLEAN]
Settings == {NoEvent} \cup Rows

\* Of a call not yet served the body is what the form sent, of one that was it
\* is the row.
SubmitTypeOK ==
    /\ submit.on \in {"none", "create", "defaults", "save"} /\ submit.sent \in BOOLEAN
    /\ submit.ends \in {"none", "write", "ok", "402", "422"}
    /\ submit = [on |-> submit.on, body |-> submit.body, sent |-> submit.sent, ends |-> submit.ends]
    /\ submit.on = "create" => submit.body \in Values
    /\ submit.on \in {"defaults", "save"} /\ submit.ends = "none" => submit.body \in Bodies
    /\ submit.on \in {"defaults", "save"} /\ submit.ends # "none" => submit.body \in Rows
    /\ submit.ends = "write" => submit.on \in {"defaults", "save"}

FormTypeOK ==
    /\ page \in {"new", "settings"}
    /\ values \in Values /\ settings \in Settings /\ cached \in Settings
    /\ SubmitTypeOK
    /\ other \in [row : Settings, sent : BOOLEAN]

Fits(s) ==
    /\ s.visibility = "password" => s.hash
    /\ s.visibility = "private" => ~s.allowDownload
    /\ s.allowOriginalDownload => s.allowDownload

PendingFits ==
    /\ submit.ends = "write" => Fits(submit.body)
    /\ other # NoSave => Fits(other.row)

FormInv == FormTypeOK /\ PendingFits /\ SettingsFitTogether

-----------------------------------------------------------------------------
\* What a form sends.
LEMMA RequestOf ==
    ASSUME NEW v \in Values
    PROVE  toUpdateEventSettingsRequest(v) \in Bodies /\ NewSettings(v) \in Values
BY DEF toUpdateEventSettingsRequest, NewSettings, Values, Bodies, Passwords, Visibility

\* What the server makes of a request is a row, and one that is not refused fits
\* together (events/service.go:450).
LEMMA BuiltSettings ==
    ASSUME NEW current \in Settings, NEW in \in Bodies
    PROVE  /\ buildSettings(current, in) \in Rows
           /\ Verdict(current, buildSettings(current, in)) \in {"ok", "402", "422"}
           /\ Verdict(current, buildSettings(current, in)) = "ok" => Fits(buildSettings(current, in))
<1>. DEFINE next == buildSettings(current, in)
<1>1. /\ next \in Rows /\ next.visibility = in.visibility
      /\ next.allowDownload = (in.allowDownload /\ in.visibility # "private")
      /\ next.allowOriginalDownload = (in.allowOriginalDownload /\ in.allowDownload /\ in.visibility # "private")
  BY DEF buildSettings, Settings, Rows, NoEvent, Bodies, Passwords, Visibility
<1>. HIDE DEF next
<1>2. Verdict(current, next) \in {"ok", "402", "422"}
  BY Zenon DEF Verdict
<1>3. Verdict(current, next) = "ok" => ~(next.visibility = "password" /\ ~next.hash)
  BY DEF Verdict
<1>4. Verdict(current, next) = "ok" => Fits(next)
  BY <1>1, <1>3 DEF Fits, Rows
<1>. QED
  BY <1>1, <1>2, <1>4 DEF next

\* The form of a new event starts as the invariant says.
LEMMA FormInitInv == FormInit => FormInv
BY DEF FormInit, FormInv, FormTypeOK, SubmitTypeOK, PendingFits, SettingsFitTogether, Fits,
       NoEvent, NoSubmit, NoSave, Defaults, Values, Settings, Visibility

-----------------------------------------------------------------------------
(* The steps                                                               *)

\* A step of the form alone, or a query: no row is made or written.
LEMMA FormOnly ==
    ASSUME FormInv, UNCHANGED <<settings, other>>, page' \in {"new", "settings"}, values' \in Values, cached' \in Settings,
           SubmitTypeOK', submit'.ends = "write" => submit'.body = submit.body /\ submit.ends = "write"
    PROVE  FormInv'
BY DEF FormInv, FormTypeOK, PendingFits, SettingsFitTogether, Fits

\* The fields, a tab opened again, a query read.
LEMMA FieldsStep ==
    ASSUME FormInv, EventForm \/ EventSettingsForm \/ toSettingsDefaults \/ useEventSettings
    PROVE  FormInv'
<1>1. UNCHANGED <<page, settings, submit, other>> /\ FormTypeOK
  BY DEF EventForm, EventSettingsForm, toSettingsDefaults, useEventSettings, FormInv
<1>2. values' \in Values /\ cached' \in Settings
  <2>1. CASE EventForm
    BY <1>1, <2>1 DEF EventForm, VisibilityField, DownloadSwitches, FormTypeOK, Values
  <2>2. CASE EventSettingsForm
    BY <1>1, <2>2 DEF EventSettingsForm, FormTypeOK, Values
  <2>3. CASE toSettingsDefaults
    BY <1>1, <2>3 DEF toSettingsDefaults, FormTypeOK, Values, Settings, Rows
  <2>4. CASE useEventSettings
    BY <1>1, <2>4 DEF useEventSettings, FormTypeOK
  <2>. QED
    BY <2>1, <2>2, <2>3, <2>4
<1>. QED
  BY <1>1, <1>2, FormOnly DEF FormTypeOK, SubmitTypeOK

\* Pressing Create event or Save settings.
LEMMA SubmitStep ==
    ASSUME FormInv, createEvent \/ saveSettings
    PROVE  FormInv'
<1>1. UNCHANGED <<page, values, settings, cached, other>> /\ FormTypeOK
  BY DEF createEvent, saveSettings, Submit, FormInv
<1>2. values \in Values /\ toUpdateEventSettingsRequest(values) \in Bodies
  BY <1>1, RequestOf DEF FormTypeOK
<1>3. SubmitTypeOK' /\ submit'.ends = "none"
  <2>1. CASE submit' = [on |-> "create", body |-> values, sent |-> FALSE, ends |-> "none"]
    BY <1>2, <2>1 DEF SubmitTypeOK
  <2>2. CASE submit' = [on |-> "save", body |-> toUpdateEventSettingsRequest(values), sent |-> FALSE, ends |-> "none"]
    BY <1>2, <2>2 DEF SubmitTypeOK
  <2>. QED
    BY <2>1, <2>2 DEF createEvent, saveSettings, Submit
<1>. QED
  BY <1>1, <1>3, FormOnly DEF FormTypeOK

\* The server creates an event: its settings ask for no password.
LEMMA CreateServedStep ==
    ASSUME FormInv, CreateServedForm
    PROVE  FormInv'
<1>1. FormTypeOK /\ PendingFits /\ UNCHANGED <<page, values, cached, other>> /\ submit.on = "create"
      /\ submit' = [submit EXCEPT !.ends = "ok"]
  BY DEF CreateServedForm, FormInv
<1>2. settings' \in Settings /\ SettingsFitTogether'
  BY DEF CreateServedForm, Settings, Rows, NoEvent, Visibility, SettingsFitTogether
<1>3. submit'.ends = "ok" /\ SubmitTypeOK'
  BY <1>1 DEF FormTypeOK, SubmitTypeOK
<1>. QED
  BY <1>1, <1>2, <1>3 DEF FormInv, FormTypeOK, PendingFits

\* A handler reads the row, and what it makes of it is checked.
LEMMA SettingsReadStep ==
    ASSUME FormInv, SettingsRead
    PROVE  FormInv'
<1>. DEFINE next == buildSettings(settings, submit.body)
            ends == Verdict(settings, next)
<1>1. /\ FormTypeOK /\ PendingFits /\ SettingsFitTogether /\ SubmitTypeOK
      /\ UNCHANGED <<page, values, settings, cached, other>>
      /\ submit.on \in {"defaults", "save"} /\ submit.ends = "none"
      /\ submit' = [submit EXCEPT !.ends = IF ends = "ok" THEN "write" ELSE ends,
                                  !.body = next, !.sent = (submit.body.password # "unsent")]
  BY DEF SettingsRead, FormInv, FormTypeOK
<1>2. submit.body \in Bodies /\ settings \in Settings
  BY <1>1 DEF FormTypeOK, SubmitTypeOK
<1>3. next \in Rows /\ ends \in {"ok", "402", "422"} /\ (ends = "ok" => Fits(next))
  BY <1>2, BuiltSettings
<1>. HIDE DEF next, ends
<1>4. /\ submit'.on = submit.on /\ submit'.body = next /\ submit'.sent \in BOOLEAN
      /\ submit'.ends = (IF ends = "ok" THEN "write" ELSE ends)
      /\ submit' = [on |-> submit'.on, body |-> submit'.body, sent |-> submit'.sent, ends |-> submit'.ends]
  BY <1>1 DEF SubmitTypeOK
<1>5. SubmitTypeOK'
  BY <1>1, <1>3, <1>4 DEF SubmitTypeOK
<1>6. PendingFits'
  BY <1>1, <1>3, <1>4 DEF PendingFits, Fits
<1>. QED
  BY <1>1, <1>5, <1>6 DEF FormInv, FormTypeOK, SettingsFitTogether

\* The row is written whole.
LEMMA SettingsWrittenStep ==
    ASSUME FormInv, SettingsWritten
    PROVE  FormInv'
<1>1. /\ FormTypeOK /\ PendingFits /\ SubmitTypeOK /\ UNCHANGED <<page, values, cached, other>>
      /\ submit.ends = "write" /\ settings' = submit.body
      /\ submit' = [submit EXCEPT !.ends = "ok", !.body = settings', !.sent = FALSE]
  BY DEF SettingsWritten, UpdateSettings, FormInv, FormTypeOK
<1>2. submit.on \in {"defaults", "save"} /\ submit.body \in Rows /\ Fits(submit.body)
  BY <1>1 DEF SubmitTypeOK, PendingFits
<1>3. SubmitTypeOK' /\ submit'.ends = "ok"
  BY <1>1, <1>2 DEF SubmitTypeOK
<1>4. settings' \in Settings /\ SettingsFitTogether'
  BY <1>1, <1>2 DEF Settings, Fits, SettingsFitTogether
<1>. QED
  BY <1>1, <1>3, <1>4 DEF FormInv, FormTypeOK, PendingFits

\* The event is created, or it failed and what may be there is not this form's.
LEMMA EventCreatedStep ==
    ASSUME FormInv, EventCreated
    PROVE  FormInv'
<1>1. UNCHANGED <<page, values, cached, other>> /\ submit.on = "create" /\ FormTypeOK /\ PendingFits /\ submit.body \in Values
  BY DEF EventCreated, FormInv, FormTypeOK, SubmitTypeOK
<1>2. settings' \in Settings /\ SettingsFitTogether'
  BY DEF EventCreated, FormInv, FormTypeOK, SettingsFitTogether, Settings, NoEvent
<1>3. SubmitTypeOK' /\ submit'.ends = "none"
  <2>1. toUpdateEventSettingsRequest(NewSettings(submit.body)) \in Bodies
    BY <1>1, RequestOf
  <2>2. CASE submit' = [on |-> "defaults", body |-> toUpdateEventSettingsRequest(NewSettings(submit.body)), sent |-> FALSE, ends |-> "none"]
    BY <2>1, <2>2 DEF SubmitTypeOK
  <2>3. CASE submit' = NoSubmit
    BY <2>3 DEF SubmitTypeOK, NoSubmit
  <2>. QED
    BY <2>2, <2>3 DEF EventCreated
<1>. QED
  BY <1>1, <1>2, <1>3 DEF FormInv, FormTypeOK, PendingFits

\* A call is answered, or left: its handler may still write what it has made.
LEMMA AnsweredStep ==
    ASSUME FormInv, DefaultsAnswered \/ SettingsAnswered
    PROVE  FormInv'
<1>1. /\ FormTypeOK /\ PendingFits /\ SettingsFitTogether /\ SubmitTypeOK
      /\ submit.on \in {"defaults", "save"} /\ submit' = NoSubmit /\ UNCHANGED settings
  BY DEF DefaultsAnswered, SettingsAnswered, FormInv, FormTypeOK
<1>2. page' \in {"new", "settings"} /\ values' \in Values /\ cached' \in Settings
  BY <1>1 DEF DefaultsAnswered, SettingsAnswered, FormTypeOK, SubmitTypeOK, Values, Settings
<1>3. SubmitTypeOK' /\ submit'.ends = "none"
  BY <1>1 DEF SubmitTypeOK, NoSubmit
<1>4. UNCHANGED other \/ (submit.ends = "write" /\ other' = [row |-> submit.body, sent |-> submit.sent])
  BY DEF DefaultsAnswered, SettingsAnswered, Left
<1>5. other' \in [row : Settings, sent : BOOLEAN] /\ (other' # NoSave => Fits(other'.row))
  BY <1>1, <1>4 DEF FormTypeOK, SubmitTypeOK, PendingFits, Settings
<1>. QED
  BY <1>1, <1>2, <1>3, <1>5 DEF FormInv, FormTypeOK, PendingFits, SettingsFitTogether, Fits

\* Another client's save: its row is made, or written.
LEMMA OtherStep ==
    ASSUME FormInv, OtherRead \/ OtherWritten
    PROVE  FormInv'
<1>1. /\ FormTypeOK /\ PendingFits /\ SettingsFitTogether /\ UNCHANGED <<page, values, cached, submit>>
      /\ other \in [row : Settings, sent : BOOLEAN] /\ settings \in Settings
  BY DEF OtherRead, OtherWritten, FormInv, FormTypeOK
<1>2. CASE OtherRead
  <2>1. PICK in \in Bodies : /\ Verdict(settings, buildSettings(settings, in)) = "ok" /\ UNCHANGED settings
                             /\ other' = [row |-> buildSettings(settings, in), sent |-> (in.password # "unsent")]
    BY <1>2 DEF OtherRead, Bodies
  <2>2. buildSettings(settings, in) \in Rows /\ Fits(buildSettings(settings, in))
    BY <1>1, <2>1, BuiltSettings
  <2>3. other' \in [row : Settings, sent : BOOLEAN] /\ Fits(other'.row)
    BY <2>1, <2>2 DEF Settings
  <2>. QED
    BY <1>1, <2>1, <2>3 DEF FormInv, FormTypeOK, SubmitTypeOK, PendingFits, SettingsFitTogether, Fits
<1>3. CASE OtherWritten
  <2>1. other # NoSave /\ settings' = other.row /\ other' = NoSave
    BY <1>3 DEF OtherWritten, UpdateSettings
  <2>2. settings' \in Settings /\ Fits(settings') /\ other' \in [row : Settings, sent : BOOLEAN]
    BY <1>1, <2>1 DEF PendingFits, NoSave, Settings
  <2>. QED
    BY <1>1, <2>1, <2>2 DEF FormInv, FormTypeOK, SubmitTypeOK, PendingFits, SettingsFitTogether, Fits
<1>. QED
  BY <1>2, <1>3

\* Every step of the forms keeps the invariant.
LEMMA FormStep == FormInv /\ [FormNext]_formVars => FormInv'
<1> SUFFICES ASSUME FormInv, [FormNext]_formVars PROVE FormInv'
  OBVIOUS
<1>1. CASE UNCHANGED formVars
  BY <1>1 DEF formVars, FormInv, FormTypeOK, SubmitTypeOK, PendingFits, SettingsFitTogether, Fits
<1>. QED
  BY <1>1, FieldsStep, SubmitStep, CreateServedStep, SettingsReadStep, SettingsWrittenStep, EventCreatedStep,
     AnsweredStep, OtherStep DEF FormNext

-----------------------------------------------------------------------------
\* What is stored of an event's access fits together, however the saves of two
\* clients overlap (events/service.go:416, repository.go:337).
THEOREM StoredSettingsFit == FormSpec => []SettingsFitTogether
<1>1. FormInv => SettingsFitTogether
  BY DEF FormInv
<1>. QED
  BY FormInitInv, FormStep, <1>1, PTL DEF FormSpec

-----------------------------------------------------------------------------
(***************************************************************************)
(* A proof that the key shown after a rotation is the one the server takes *)
(* from the device, for any number of devices and of keys.  While it is    *)
(* shown no rotation is under way and none can be confirmed: its dialog    *)
(* was closed with the answer, and nothing opens behind the key.           *)
(***************************************************************************)

CallRecords == [device : Devices \cup {0}, ends : {"none", "ok", "404", "409"}, key : Nat]

DeviceTypeOK ==
    /\ keyOf \in [Devices -> Nat] /\ issued \in Nat
    /\ listed.known \subseteq Devices
    /\ target \in [Dialogs -> Devices \cup {0}]
    /\ call \in [Dialogs -> CallRecords]

\* A mutation is for a device.
CallHasDevice == \A k \in Dialogs : call[k] # Idle => call[k].device \in Devices

\* A device that has a key; 0 is none.
TakesKey(d, key) == d \in Devices /\ key = keyOf[d] /\ key # 0

\* The answer on its way carries the key the device has.
AnswerWorks == call["rotate"].ends = "ok" => TakesKey(call["rotate"].device, call["rotate"].key)

\* So does the key that is shown, and no other rotation is under way.
ShownWorks == keyResult.action = "rotated" =>
    TakesKey(keyResult.device, keyResult.key) /\ target["rotate"] = 0 /\ call["rotate"] = Idle

DeviceInv == DeviceTypeOK /\ CallHasDevice /\ AnswerWorks /\ ShownWorks

-----------------------------------------------------------------------------
\* At first no mutation is in flight and no key is shown.
LEMMA DeviceInitInv == DeviceInit => DeviceInv
<1>. SUFFICES ASSUME DeviceInit PROVE DeviceInv
  OBVIOUS
<1>1. 1 \in Devices
  BY DeviceKeysAssumption DEF Devices
<1>2. Idle \in CallRecords
  BY DEF Idle, CallRecords
<1>3. keyOf \in [Devices -> Nat] /\ issued \in Nat /\ target \in [Dialogs -> Devices \cup {0}]
  BY DEF DeviceInit
<1>4. call \in [Dialogs -> CallRecords] /\ \A k \in Dialogs : call[k] = Idle
  BY <1>2 DEF DeviceInit
<1>5. listed.known \subseteq Devices
  BY <1>1 DEF DeviceInit
<1>6. CallHasDevice /\ AnswerWorks /\ ShownWorks
  BY <1>4 DEF DeviceInit, CallHasDevice, AnswerWorks, ShownWorks, Idle, NoKey, Dialogs
<1>. QED
  BY <1>3, <1>4, <1>5, <1>6 DEF DeviceInv, DeviceTypeOK

\* A dialog is opened, left, or confirmed: with a key shown none can be.
LEMMA DialogStep ==
    ASSUME DeviceInv,
           \/ DevicesPanel \/ DeviceActions \/ CloseForm \/ onSubmitDevice \/ close
           \/ \E k \in Dialogs : CloseDialog(k) \/ Confirm(k)
    PROVE  DeviceInv'
<1>1. DeviceTypeOK /\ CallHasDevice /\ AnswerWorks /\ ShownWorks
  BY DEF DeviceInv
<1>2. UNCHANGED <<keyOf, issued, listed>>
  BY DEF DevicesPanel, DeviceActions, CloseForm, onSubmitDevice, close, CloseDialog, Confirm
<1>3. CASE DevicesPanel \/ CloseForm \/ onSubmitDevice \/ close
  <2>1. UNCHANGED <<target, call>> /\ (keyResult' = keyResult \/ keyResult' = NoKey)
    BY <1>3 DEF DevicesPanel, CloseForm, onSubmitDevice, close
  <2>. QED
    BY <1>1, <1>2, <2>1 DEF DeviceInv, DeviceTypeOK, CallHasDevice, AnswerWorks, ShownWorks, TakesKey, NoKey
<1>4. CASE DeviceActions
  <2>1. UNCHANGED <<call, keyResult>> /\ keyResult.action # "rotated"
    BY <1>4 DEF DeviceActions, Modal, NoKey
  <2>2. PICK k \in Dialogs, d \in listed.known : target' = [target EXCEPT ![k] = d]
    BY <1>4 DEF DeviceActions
  <2>3. target' \in [Dialogs -> Devices \cup {0}]
    BY <1>1, <2>2 DEF DeviceTypeOK
  <2>. QED
    BY <1>1, <1>2, <2>1, <2>3 DEF DeviceInv, DeviceTypeOK, CallHasDevice, AnswerWorks, ShownWorks, TakesKey
<1>5. CASE \E k \in Dialogs : CloseDialog(k)
  <2>1. PICK k \in Dialogs : target' = [target EXCEPT ![k] = 0]
    BY <1>5 DEF CloseDialog
  <2>2. UNCHANGED <<call, keyResult>>
    BY <1>5 DEF CloseDialog
  <2>3. target' \in [Dialogs -> Devices \cup {0}] /\ (target["rotate"] = 0 => target'["rotate"] = 0)
    BY <1>1, <2>1 DEF DeviceTypeOK, Dialogs
  <2>. QED
    BY <1>1, <1>2, <2>2, <2>3 DEF DeviceInv, DeviceTypeOK, CallHasDevice, AnswerWorks, ShownWorks, TakesKey
<1>6. CASE \E k \in Dialogs : Confirm(k)
  <2>1. PICK k \in Dialogs : Confirm(k)
    BY <1>6
  <2> DEFINE sent == [Idle EXCEPT !.device = target[k]]
  <2>2. UNCHANGED <<target, keyResult>> /\ target[k] \in Devices /\ target[k] # 0
    BY <1>1, <2>1 DEF Confirm, DeviceTypeOK
  <2>3. sent \in CallRecords /\ sent.device = target[k] /\ sent.ends = "none"
    BY <2>2 DEF Idle, CallRecords
  <2>4. call' = [call EXCEPT ![k] = sent]
    BY <2>1 DEF Confirm
  <2> HIDE DEF sent
  <2>5. call' \in [Dialogs -> CallRecords] /\ call'[k] = sent /\ \A o \in Dialogs \ {k} : call'[o] = call[o]
    BY <1>1, <2>3, <2>4 DEF DeviceTypeOK
  <2>6. CallHasDevice'
    BY <1>1, <2>2, <2>3, <2>5 DEF CallHasDevice
  <2>7. AnswerWorks'
    BY <1>1, <1>2, <2>3, <2>5 DEF AnswerWorks, TakesKey, Dialogs
  <2>8. ShownWorks'
    BY <1>1, <1>2, <2>2, <2>5 DEF ShownWorks, TakesKey, Dialogs
  <2>. QED
    BY <1>1, <1>2, <2>2, <2>5, <2>6, <2>7, <2>8 DEF DeviceInv, DeviceTypeOK
<1>. QED
  BY <1>3, <1>4, <1>5, <1>6

\* The server issues a key: for a device that had none, or to the one rotation.
LEMMA DeviceServerStep ==
    ASSUME DeviceInv, (\E c \in creating : CreateDevice(c)) \/ (\E k \in Dialogs : ServeDevice(k))
    PROVE  DeviceInv'
<1>1. DeviceTypeOK /\ CallHasDevice /\ AnswerWorks /\ ShownWorks
  BY DEF DeviceInv
<1>2. UNCHANGED <<listed, target, keyResult>>
  BY DEF CreateDevice, ServeDevice
<1>3. CASE \E c \in creating : CreateDevice(c)
  <2>1. UNCHANGED call /\ issued' = issued + 1
    BY <1>3 DEF CreateDevice, NewKey
  <2>2. PICK d \in Devices : keyOf[d] = 0 /\ keyOf' = [keyOf EXCEPT ![d] = issued']
    BY <1>3 DEF CreateDevice
  <2>3. keyOf' \in [Devices -> Nat] /\ issued' \in Nat /\ \A e \in Devices : keyOf[e] # 0 => keyOf'[e] = keyOf[e]
    BY <1>1, <2>1, <2>2 DEF DeviceTypeOK
  <2>4. \A e, key : TakesKey(e, key) => TakesKey(e, key)'
    BY <2>3 DEF TakesKey
  <2>. QED
    BY <1>1, <1>2, <2>1, <2>3, <2>4 DEF DeviceInv, DeviceTypeOK, CallHasDevice, AnswerWorks, ShownWorks
<1>4. CASE \E k \in Dialogs : ServeDevice(k)
  <2>1. PICK k \in Dialogs : ServeDevice(k)
    BY <1>4
  <2>2. call[k] # Idle /\ call[k] \in CallRecords /\ call[k].device \in Devices
    BY <1>1, <2>1 DEF ServeDevice, CallHasDevice, DeviceTypeOK
  <2>3. CASE UNCHANGED <<keyOf, issued>>
    <3> DEFINE e == IF k = "rename" THEN "ok" ELSE IF k = "rotate" THEN "409"
                    ELSE IF call[k].device \in revokedAt THEN "404" ELSE "ok"
               r == [call[k] EXCEPT !.ends = e]
    <3>1. issued' # issued + 1
      BY <1>1, <2>3 DEF DeviceTypeOK
    <3>2. call' = [call EXCEPT ![k] = r]
      BY <2>1, <3>1 DEF ServeDevice, NewKey
    <3>3. r \in CallRecords /\ r.device = call[k].device /\ (k = "rotate" => r.ends = "409")
      BY <2>2 DEF CallRecords
    <3> HIDE DEF r
    <3>4. call' \in [Dialogs -> CallRecords] /\ call'[k] = r /\ \A o \in Dialogs \ {k} : call'[o] = call[o]
      BY <1>1, <3>2, <3>3 DEF DeviceTypeOK
    <3>5. CallHasDevice'
      BY <1>1, <2>2, <3>3, <3>4 DEF CallHasDevice
    <3>6. AnswerWorks'
      BY <1>1, <2>3, <3>3, <3>4 DEF AnswerWorks, TakesKey, Dialogs
    <3>7. ShownWorks'
      BY <1>1, <1>2, <2>2, <2>3, <3>4 DEF ShownWorks, TakesKey, Dialogs
    <3>. QED
      BY <1>1, <1>2, <2>3, <3>4, <3>5, <3>6, <3>7 DEF DeviceInv, DeviceTypeOK
  <2>4. CASE ~UNCHANGED <<keyOf, issued>>
    <3> DEFINE d == call[k].device
               r == [call[k] EXCEPT !.ends = "ok", !.key = issued']
    <3>1. k = "rotate" /\ issued' = issued + 1 /\ keyOf' = [keyOf EXCEPT ![d] = issued'] /\ call' = [call EXCEPT ![k] = r]
      BY <2>1, <2>4 DEF ServeDevice, NewKey
    <3>2. keyOf' \in [Devices -> Nat] /\ issued' \in Nat /\ keyOf'[d] = issued' /\ issued' # 0
      BY <1>1, <2>2, <3>1 DEF DeviceTypeOK
    <3>3. r \in CallRecords /\ r.device = d /\ r.key = issued'
      BY <2>2, <3>2 DEF CallRecords
    <3> HIDE DEF r
    <3>4. call' \in [Dialogs -> CallRecords] /\ call'[k] = r /\ \A o \in Dialogs \ {k} : call'[o] = call[o]
      BY <1>1, <3>1, <3>3 DEF DeviceTypeOK
    <3>5. CallHasDevice'
      BY <1>1, <2>2, <3>3, <3>4 DEF CallHasDevice
    <3>6. AnswerWorks'
      BY <2>2, <3>1, <3>2, <3>3, <3>4 DEF AnswerWorks, TakesKey
    <3>7. ShownWorks'
      BY <1>1, <1>2, <2>2, <3>1 DEF ShownWorks
    <3>. QED
      BY <1>1, <1>2, <3>2, <3>4, <3>5, <3>6, <3>7 DEF DeviceInv, DeviceTypeOK
  <2>. QED
    BY <2>3, <2>4
<1>. QED
  BY <1>3, <1>4

\* The page takes an answer: of a creation, of a mutation, of the list.
LEMMA AnswerStep ==
    ASSUME DeviceInv, (\E c \in creating : Created(c)) \/ (\E k \in Dialogs : Confirmed(k)) \/ useDevices
    PROVE  DeviceInv'
<1>1. DeviceTypeOK /\ CallHasDevice /\ AnswerWorks /\ ShownWorks
  BY DEF DeviceInv
<1>2. UNCHANGED <<keyOf, issued>>
  BY DEF Created, Confirmed, useDevices
<1>3. CASE \E c \in creating : Created(c)
  <2>1. UNCHANGED <<listed, target, call>> /\ (keyResult' = keyResult \/ keyResult'.action = "created")
    BY <1>3 DEF Created, Show
  <2>. QED
    BY <1>1, <1>2, <2>1 DEF DeviceInv, DeviceTypeOK, CallHasDevice, AnswerWorks, ShownWorks, TakesKey
<1>4. CASE useDevices
  <2>1. UNCHANGED <<target, call, keyResult>> /\ listed'.known \subseteq Devices
    BY <1>4 DEF useDevices
  <2>. QED
    BY <1>1, <1>2, <2>1 DEF DeviceInv, DeviceTypeOK, CallHasDevice, AnswerWorks, ShownWorks, TakesKey
<1>5. CASE \E k \in Dialogs : Confirmed(k)
  <2>1. PICK k \in Dialogs : Confirmed(k)
    BY <1>5
  <2>2. call' = [call EXCEPT ![k] = Idle] /\ UNCHANGED listed
    BY <2>1 DEF Confirmed
  <2>3. target' = target \/ target' = [target EXCEPT ![k] = 0]
    BY <2>1 DEF Confirmed, closed
  <2>4. target' \in [Dialogs -> Devices \cup {0}] /\ (target["rotate"] = 0 => target'["rotate"] = 0)
    BY <1>1, <2>3 DEF DeviceTypeOK, Dialogs
  <2>5. Idle \in CallRecords /\ Idle.ends # "ok"
    BY DEF Idle, CallRecords
  <2>6. call' \in [Dialogs -> CallRecords] /\ \A o \in Dialogs : call'[o] = call[o] \/ call'[o] = Idle
    BY <1>1, <2>2, <2>5 DEF DeviceTypeOK
  <2>7. CallHasDevice' /\ AnswerWorks'
    BY <1>1, <1>2, <2>5, <2>6 DEF CallHasDevice, AnswerWorks, TakesKey, Dialogs
  <2>8. ShownWorks'
    <3>1. CASE keyResult' = keyResult
      BY <1>1, <1>2, <2>4, <2>6, <3>1 DEF ShownWorks, TakesKey, Dialogs
    <3>2. CASE keyResult' # keyResult
      <4>1. k = "rotate" /\ call[k].ends = "ok" /\ target' = [target EXCEPT ![k] = 0]
            /\ keyResult' = [device |-> call[k].device, key |-> call[k].key, action |-> "rotated"]
        BY <2>1, <3>2 DEF Confirmed, closed, Show
      <4>2. target'["rotate"] = 0 /\ call'["rotate"] = Idle
        BY <1>1, <2>2, <4>1 DEF DeviceTypeOK
      <4>. QED
        BY <1>1, <1>2, <4>1, <4>2 DEF AnswerWorks, ShownWorks, TakesKey
    <3>. QED
      BY <3>1, <3>2
  <2>. QED
    BY <1>1, <1>2, <2>2, <2>4, <2>6, <2>7, <2>8 DEF DeviceInv, DeviceTypeOK
<1>. QED
  BY <1>3, <1>4, <1>5

\* The key shown after a rotation is the one the server takes from its device
\* (rotate-key-dialog.tsx:32-40), for any number of devices and keys.
THEOREM ShownKeyWorks == DeviceSpec => []RotatedKeyWorks
<1>1. DeviceInv /\ [DeviceNext]_deviceVars => DeviceInv'
  <2>. SUFFICES ASSUME DeviceInv, [DeviceNext]_deviceVars PROVE DeviceInv'
    OBVIOUS
  <2>1. CASE DeviceNext
    BY <2>1, DialogStep, DeviceServerStep, AnswerStep DEF DeviceNext
  <2>2. CASE UNCHANGED deviceVars
    BY <2>2 DEF deviceVars, DeviceInv, DeviceTypeOK, CallHasDevice, AnswerWorks, ShownWorks, TakesKey
  <2>. QED
    BY <2>1, <2>2
<1>2. DeviceInv => RotatedKeyWorks
  BY DEF DeviceInv, ShownWorks, TakesKey, RotatedKeyWorks
<1>. QED
  BY <1>1, <1>2, DeviceInitInv, PTL DEF DeviceSpec

-----------------------------------------------------------------------------
(***************************************************************************)
(* A proof that the logo of a gallery is an object that was stored, for    *)
(* any number of uploads, keys and failures.  A key travels from the       *)
(* upload to what is staged, to the patch, to the row that is merged and   *)
(* to the row that is written; an object that is stored stays.             *)
(***************************************************************************)

Stored == objects \cup {0}

IsRow(r) == r = [f \in Fields |-> r[f]]

BrandingTypeOK ==
    /\ IsRow(brandingRow)
    /\ upload \in [1..MaxUploads -> [at : {"idle", "presign", "put"}, key : Nat, again : BOOLEAN]]
    /\ assets \in Nat

\* Wherever a logo's key is, its object is stored.
StagedIsStored == logoChange.key \in Stored
PatchIsStored  == patching.on = "sent" => ("logoKey" \in DOMAIN patching.patch => patching.patch["logoKey"] \in Stored)
MergedIsStored == patching.on \in {"merged", "served"} => IsRow(patching.row) /\ patching.row["logoKey"] \in Stored
SaveTypeOK     == patching = [on |-> patching.on, patch |-> patching.patch, row |-> patching.row]

BrandingInv == BrandingTypeOK /\ StagedIsStored /\ PatchIsStored /\ MergedIsStored /\ SaveTypeOK /\ LogoIsStored

saveVars == <<brandingRow, patching>>

-----------------------------------------------------------------------------
\* Nothing is stored, staged or named at first.
LEMMA BrandingInitInv == BrandingInit => BrandingInv
BY DEF BrandingInit, BrandingInv, BrandingTypeOK, StagedIsStored, PatchIsStored, MergedIsStored, SaveTypeOK, LogoIsStored,
       Stored, IsRow, NoBranding, Unchanged, NoUpload, NoPatch, Fields

\* A step that writes no row and starts no save, and loses no object.
LEMMA AwayFromTheSave ==
    ASSUME BrandingInv, UNCHANGED saveVars, objects \subseteq objects', upload' \in [1..MaxUploads -> [at : {"idle", "presign", "put"}, key : Nat, again : BOOLEAN]],
           assets' \in Nat, logoChange'.key \in Stored'
    PROVE  BrandingInv'
BY DEF BrandingInv, BrandingTypeOK, StagedIsStored, PatchIsStored, MergedIsStored, SaveTypeOK, LogoIsStored, Stored, saveVars

\* An upload: the key that is staged is that of the object that was put.
LEMMA UploadStep ==
    ASSUME BrandingInv, NEW u \in 1..MaxUploads,
           ChooseFile(u) \/ CreateAssetUpload(u) \/ PutAsset(u) \/ isExpiredUrlError(u) \/ UploadFails(u)
    PROVE  BrandingInv'
<1> DEFINE Uploads == [1..MaxUploads -> [at : {"idle", "presign", "put"}, key : Nat, again : BOOLEAN]]
<1>1. upload \in Uploads /\ assets \in Nat /\ logoChange.key \in Stored
  BY DEF BrandingInv, BrandingTypeOK, StagedIsStored
<1>2. UNCHANGED saveVars
  BY DEF ChooseFile, CreateAssetUpload, PutAsset, isExpiredUrlError, UploadFails, saveVars
<1>3. objects \subseteq objects' /\ assets' \in Nat
  BY <1>1 DEF ChooseFile, CreateAssetUpload, PutAsset, isExpiredUrlError, UploadFails
<1>4. upload' \in Uploads
  <2>1. CASE ChooseFile(u)
    <3>1. upload' = [upload EXCEPT ![u] = [NoUpload EXCEPT !.at = "presign"]]
      BY <2>1 DEF ChooseFile
    <3>2. [NoUpload EXCEPT !.at = "presign"] \in [at : {"idle", "presign", "put"}, key : Nat, again : BOOLEAN]
      BY DEF NoUpload
    <3>. QED
      BY <1>1, <3>1, <3>2
  <2>2. CASE CreateAssetUpload(u)
    <3>1. assets' \in Nat /\ upload' = [upload EXCEPT ![u] = [@ EXCEPT !.at = "put", !.key = assets']]
      BY <1>1, <2>2 DEF CreateAssetUpload
    <3>2. upload[u] \in [at : {"idle", "presign", "put"}, key : Nat, again : BOOLEAN]
      BY <1>1
    <3>3. [upload[u] EXCEPT !.at = "put", !.key = assets'] \in [at : {"idle", "presign", "put"}, key : Nat, again : BOOLEAN]
      BY <3>1, <3>2
    <3>. QED
      BY <1>1, <3>1, <3>3
  <2>3. CASE PutAsset(u)
    BY <1>1, <2>3 DEF PutAsset, NoUpload
  <2>4. CASE isExpiredUrlError(u)
    BY <1>1, <2>4 DEF isExpiredUrlError, NoUpload
  <2>5. CASE UploadFails(u)
    BY <1>1, <2>5 DEF UploadFails, NoUpload
  <2>. QED
    BY <2>1, <2>2, <2>3, <2>4, <2>5
<1>5. logoChange'.key \in Stored'
  <2>1. CASE PutAsset(u)
    BY <2>1 DEF PutAsset, storageKey, Stored
  <2>2. CASE ~PutAsset(u)
    BY <1>1, <1>3, <2>2 DEF ChooseFile, CreateAssetUpload, isExpiredUrlError, UploadFails, Stored
  <2>. QED
    BY <2>1, <2>2
<1>. QED
  BY <1>2, <1>3, <1>4, <1>5, AwayFromTheSave

\* The form and its dialog: what is staged is what was, or nothing.
LEMMA FormStepStored ==
    ASSUME BrandingInv,
           onClear \/ confirmClear \/ (\E f \in TextFields, value \in Texts : Field(f, value)) \/ discard \/ useBranding
    PROVE  BrandingInv'
<1>1. UNCHANGED <<saveVars, objects, upload, assets>>
  BY DEF onClear, confirmClear, Field, discard, useBranding, saveVars
<1>2. logoChange.key \in Stored /\ Unchanged.key = 0 /\ [Unchanged EXCEPT !.mode = "clear"].key = 0
  BY DEF BrandingInv, StagedIsStored, Unchanged
<1>3. logoChange'.key \in Stored'
  BY <1>1, <1>2 DEF onClear, confirmClear, Field, discard, useBranding, Stored
<1>. QED
  BY <1>1, <1>3, AwayFromTheSave DEF BrandingInv, BrandingTypeOK

\* A save: sent, answered, or failed.
LEMMA SaveStep ==
    ASSUME BrandingInv, SubmitBranding \/ BrandingSaved \/ BrandingFails
    PROVE  BrandingInv'
<1>1. UNCHANGED <<brandingRow, objects, upload, assets>>
  BY DEF SubmitBranding, BrandingSaved, BrandingFails
<1>2. logoChange'.key \in Stored'
  BY <1>1 DEF SubmitBranding, BrandingSaved, BrandingFails, BrandingInv, StagedIsStored, Stored, Unchanged
<1>3. (PatchIsStored /\ MergedIsStored /\ SaveTypeOK)'
  <2>1. CASE SubmitBranding
    <3>1. patching' = [on |-> "sent", patch |-> toBrandingPatch, row |-> NoBranding]
      BY <2>1 DEF SubmitBranding, NoPatch
    <3>2. "logoKey" \in Changed => toBrandingPatch["logoKey"] = logoChange.key
      BY BrandingFormAssumption DEF toBrandingPatch
    <3>3. DOMAIN toBrandingPatch = Changed
      BY DEF toBrandingPatch
    <3>. QED
      BY <1>1, <3>1, <3>2, <3>3 DEF PatchIsStored, MergedIsStored, SaveTypeOK, BrandingInv, StagedIsStored, Stored
  <2>2. CASE BrandingSaved \/ BrandingFails
    <3>1. patching' = NoPatch
      BY <2>2 DEF BrandingSaved, BrandingFails
    <3>. QED
      BY <3>1 DEF NoPatch, PatchIsStored, MergedIsStored, SaveTypeOK
  <2>. QED
    BY <2>1, <2>2
<1>. QED
  BY <1>1, <1>2, <1>3 DEF BrandingInv, BrandingTypeOK, StagedIsStored, LogoIsStored, Stored

\* The server reads and merges, then writes; or serves another tab.
LEMMA BrandingServerStep ==
    ASSUME BrandingInv, UpdateBranding \/ UpsertBranding \/ OtherBranding
    PROVE  BrandingInv'
<1>1. UNCHANGED <<objects, upload, assets, logoChange>>
  BY DEF UpdateBranding, UpsertBranding, OtherBranding
<1>2. CASE UpdateBranding
  <2>1. /\ UNCHANGED brandingRow /\ patching.on = "sent"
        /\ patching' = [on |-> "merged", patch |-> patching.patch, row |-> applyBrandingInput(brandingRow, patching.patch)]
    BY <1>2 DEF UpdateBranding, BrandingInv, SaveTypeOK
  <2>2. /\ IsRow(applyBrandingInput(brandingRow, patching.patch))
        /\ applyBrandingInput(brandingRow, patching.patch)["logoKey"] \in Stored
    BY <2>1 DEF applyBrandingInput, IsRow, Fields, BrandingInv, PatchIsStored, LogoIsStored, Stored
  <2>. QED
    BY <1>1, <2>1, <2>2 DEF BrandingInv, BrandingTypeOK, StagedIsStored, PatchIsStored, MergedIsStored, SaveTypeOK, LogoIsStored, Stored
<1>3. CASE UpsertBranding
  <2>1. /\ patching.on = "merged" /\ brandingRow' = patching.row
        /\ patching' = [on |-> "served", patch |-> patching.patch, row |-> patching.row]
    BY <1>3 DEF UpsertBranding, BrandingInv, SaveTypeOK
  <2>. QED
    BY <1>1, <2>1 DEF BrandingInv, BrandingTypeOK, StagedIsStored, PatchIsStored, MergedIsStored, SaveTypeOK, LogoIsStored, Stored
<1>4. CASE OtherBranding
  <2>1. UNCHANGED patching /\ \E f \in TextFields, value \in Texts : brandingRow' = [brandingRow EXCEPT ![f] = value]
    BY <1>4 DEF OtherBranding
  <2>2. PICK f \in TextFields, value \in Texts : brandingRow' = [brandingRow EXCEPT ![f] = value]
    BY <2>1
  <2>3. f # "logoKey" /\ "logoKey" \in Fields /\ f \in Fields
    BY BrandingFormAssumption DEF Fields
  <2>4. IsRow(brandingRow') /\ brandingRow'["logoKey"] = brandingRow["logoKey"]
    BY <2>2, <2>3 DEF BrandingInv, BrandingTypeOK, IsRow
  <2>. QED
    BY <1>1, <2>1, <2>4 DEF BrandingInv, BrandingTypeOK, StagedIsStored, PatchIsStored, MergedIsStored, SaveTypeOK, LogoIsStored, Stored, IsRow
<1>. QED
  BY <1>2, <1>3, <1>4

\* Every step of the branding page keeps the invariant.
LEMMA BrandingStep == BrandingInv /\ [BrandingNext]_brandingVars => BrandingInv'
<1> SUFFICES ASSUME BrandingInv, [BrandingNext]_brandingVars PROVE BrandingInv'
  OBVIOUS
<1>1. ASSUME NEW u \in 1..MaxUploads,
             ChooseFile(u) \/ CreateAssetUpload(u) \/ PutAsset(u) \/ isExpiredUrlError(u) \/ UploadFails(u)
      PROVE  BrandingInv'
  BY <1>1, UploadStep
<1>2. CASE onClear \/ confirmClear \/ (\E f \in TextFields, value \in Texts : Field(f, value)) \/ discard \/ useBranding
  BY <1>2, FormStepStored
<1>3. CASE SubmitBranding \/ BrandingSaved \/ BrandingFails
  BY <1>3, SaveStep
<1>4. CASE UpdateBranding \/ UpsertBranding \/ OtherBranding
  BY <1>4, BrandingServerStep
<1>5. CASE UNCHANGED brandingVars
  BY <1>5, AwayFromTheSave DEF brandingVars, saveVars, BrandingInv, BrandingTypeOK, StagedIsStored, Stored
<1>. QED
  BY <1>1, <1>2, <1>3, <1>4, <1>5 DEF BrandingNext, BrandingFormBody, AssetUploadField

-----------------------------------------------------------------------------
\* The logo a gallery shows names an object that was stored
\* (asset-upload.tsx:74, branding-form.tsx:268).
THEOREM LogoStored == BrandingSpec => []LogoIsStored
<1>1. BrandingInv => LogoIsStored
  BY DEF BrandingInv
<1>. QED
  BY BrandingInitInv, BrandingStep, <1>1, PTL DEF BrandingSpec

-----------------------------------------------------------------------------
(***************************************************************************)
(* The pages of the dashboard together.                                    *)
(***************************************************************************)

\* Each page goes by its own steps while one of them is open, so that what is
\* proved of the pages holds of the system that is model-checked.
LEMMA ScreensKeepApart ==
  DashboardSpec => /\ ExportInit /\ [][ExportNext]_exportVars
                   /\ FormSpec /\ DeviceSpec /\ BrandingSpec
<1>1. DashboardInit => ExportInit /\ FormInit /\ DeviceInit /\ BrandingInit
  BY DEF DashboardInit
<1>2. [DashboardNext]_dashboardVars =>
         [ExportNext]_exportVars /\ [FormNext]_formVars /\ [DeviceNext]_deviceVars /\ [BrandingNext]_brandingVars
  BY DEF DashboardNext, dashboardVars
<1>. QED
  BY <1>1, <1>2, PTL DEF DashboardSpec, FormSpec, DeviceSpec, BrandingSpec

\* The safety properties of the dashboard's pages, of any of them that is open
\* (features/events, features/devices, features/branding).
THEOREM DashboardSafe ==
    DashboardSpec => [](ExportNeverStuck /\ SettingsFitTogether /\ RotatedKeyWorks /\ LogoIsStored)
BY ScreensKeepApart, CardSafe, StoredSettingsFit, ShownKeyWorks, LogoStored, PTL

-----------------------------------------------------------------------------
(***************************************************************************)
(* The upload queue, for any number of files, processes, photos, mishaps   *)
(* and departures.                                                         *)
(*                                                                         *)
(* What the map, the registry, the page, the requests and a held item call *)
(* a file's photo is one photo, but for those the history excepts          *)
(* (NamesAgree); and while a process or the map holds the item, every      *)
(* other row of its file is excepted or has its Initialize answered now    *)
(* (HeldPhotos).  What waits is in the registry, being answered or being   *)
(* undone (WaitingKnown): an entry that is dropped names the photo of an   *)
(* item that is done, or of one whose DELETE is on its way.                *)
(*                                                                         *)
(* The copies of a file are bounded by the processes that asked for a      *)
(* photo before the first was answered (CopiesOK): from then on the item   *)
(* has a photo, and an attempt goes on with it.  Those are as many as the  *)
(* processes that a queue runs beside each other (Places), which is what   *)
(* counting the active ones in pump() achieves.                            *)
(***************************************************************************)
\* The calls a process makes for a photo its item knows.
Sending == {"presign", "put", "partUrls", "parts", "join", "complete", "completed"}
Empty   == {"idle", "initialize", "sleep"}
OrNoPhoto == Photos \cup {NoPhoto}
Entries   == OrNoPhoto \cup {NoEntry}
ItemRecords == [status : Statuses, attempts : Nat, photo : OrNoPhoto, parts : SUBSET Int]
SlotRecords == [key : Keys \cup {0}, pc : Sending \cup Empty \cup {"initialized"},
                target : OrNoPhoto, parts : SUBSET Int, error : Answers \cup {"abort"}]
OpRecords == [op : {"abort", "delete", "discard", "remove"}, key : Keys, photo : Photos]
RowStatuses == {"none", "UPLOADING", "PROCESSING", "READY", "FAILED", "gone"}
DoneStatuses == {"PROCESSING", "READY"}

UploadsTypeOK ==
    /\ added \in Keys \cup {0} /\ departed \in 0..added /\ mounted \in BOOLEAN
    /\ items \subseteq Keys
    /\ item \in [Keys -> ItemRecords]
    /\ slot \in [Slots -> SlotRecords]
    /\ registry \in [Keys -> Entries] /\ todo \in [Keys -> Entries]
    /\ restored \in [Keys -> OrNoPhoto]
    /\ ops \subseteq OpRecords
    /\ row \in [Photos -> RowStatuses]
    /\ file \in [Photos -> Keys \cup {0}]
    /\ disowned \subseteq Photos

\* Where a key may be: the map, the processes, the registry, rows, requests.
KeysOK ==
    /\ \A k \in items : departed < k /\ k <= added
    /\ \A s \in Slots : slot[s].key <= added /\ (slot[s].pc = "idle" <=> slot[s].key = 0)
    /\ \A o \in ops : o.key <= added
    /\ \A k \in Keys : k > added => item[k].photo = NoPhoto /\ registry[k] = NoEntry
    /\ \A k \in Keys : k > departed => todo[k] = NoEntry /\ restored[k] = NoPhoto
    /\ \A k \in Keys : todo[k] # NoEntry => restored[k] = NoPhoto
    /\ ~mounted => departed = added /\ \A k \in Keys : restored[k] = NoPhoto

\* A photo of file k that something in the browser names.
Named(k, p) ==
    /\ p \in Photos
    /\ \/ p \in {registry[k], todo[k], restored[k]}
       \/ \E o \in ops : o.key = k /\ o.photo = p
       \/ Held(k, items, slot) /\ item[k].photo = p

\* A row belongs to a file that was added, and what is named has one.
RowsOK ==
    /\ \A p \in Photos : row[p] # "none" => file[p] \in 1..added
    /\ \A k \in Keys : item[k].photo # NoPhoto => row[item[k].photo] # "none" /\ file[item[k].photo] = k
    /\ \A k \in Keys : item[k].status \in {"processing", "ready"} => item[k].photo # NoPhoto
NamedRows == \A k \in Keys, p \in Photos : Named(k, p) => row[p] # "none"

\* What a process is at.
TargetsOK ==
    \A s \in Slots :
        /\ slot[s].pc \in Empty => slot[s].target = NoPhoto
        /\ slot[s].pc \in Sending \cup {"initialized"} =>
              /\ slot[s].target # NoPhoto
              /\ row[slot[s].target] # "none" /\ file[slot[s].target] = slot[s].key
        /\ slot[s].pc \in Sending => item[slot[s].key].photo # NoPhoto

\* A photo whose Initialize is being answered is unknown to all others; and
\* its item has none, but for one the history excepts.
NewPhotosOK ==
    \A s \in Slots : slot[s].pc = "initialized" =>
        /\ row[slot[s].target] \notin DoneStatuses
        /\ \A k \in Keys : item[k].photo # slot[s].target
        /\ \A t \in Slots \ {s} : slot[t].target # slot[s].target
        /\ slot[s].target \notin disowned =>
              /\ item[slot[s].key].photo \in disowned \cup {NoPhoto}
              /\ \A t \in Slots \ {s} : slot[t].pc = "initialized" /\ slot[t].key = slot[s].key =>
                    slot[t].target \in disowned

\* The photos of a file whose item is held are the item's or about to be.
Answered(p) == \E s \in Slots : slot[s].pc = "initialized" /\ slot[s].target = p
HeldPhotos ==
    \A p \in Photos : row[p] # "none" /\ p \notin disowned /\ Held(file[p], items, slot) =>
        item[file[p]].photo = p \/ Answered(p)

\* Of the names of a file's photos one is not excepted; while the item is
\* held it is the item's.
NamesAgree ==
    /\ \A k \in Keys, p, q \in Photos : Named(k, p) /\ Named(k, q) /\ p # q => p \in disowned
    /\ \A k \in Keys, p \in Photos : Named(k, p) /\ Held(k, items, slot) => item[k].photo # NoPhoto

Awaiting(p) == p \in Photos /\ row[p] = "UPLOADING" /\ p \notin disowned
Undoing(p) == \E o \in ops : o.op \in {"abort", "delete"} /\ o.photo = p

\* What is shown outlives the page, and is not cleared while it waits.
ItemsRegistered == \A k \in items : item[k].photo # NoPhoto => registry[k] = item[k].photo
ReadyDone == \A k \in items : item[k].status = "ready" => ~Awaiting(item[k].photo)
PageRegistered ==
    /\ \A k \in Keys : Awaiting(restored[k]) => registry[k] = restored[k]
    /\ \A k \in Keys : Awaiting(todo[k]) => registry[k] = todo[k]
    /\ \A o \in ops : Awaiting(o.photo) => registry[o.key] = o.photo \/ Undoing(o.photo)

\* The processes that ask for a photo, and the photos that are the item's,
\* are sent to or are done.
Asking(k) == {s \in Slots : slot[s].key = k /\ slot[s].pc \in {"initialize", "initialized"}}
SentTo(k, p) == \E s \in Slots : slot[s].key = k /\ slot[s].pc \in Sending /\ slot[s].target = p
Live(k) == {p \in Photos : /\ file[p] = k
                           /\ \/ row[p] \in DoneStatuses \/ SentTo(k, p)
                              \/ Held(k, items, slot) /\ item[k].photo = p}
Unanswered(k) == Held(k, items, slot) /\ item[k].photo = NoPhoto
CopiesOK ==
    \A k \in Keys : IF Unanswered(k) THEN Live(k) = {}
                    ELSE Cardinality(Asking(k)) + Cardinality(Live(k)) <= Concurrency

\* How many processes run: beside each other in the queue, and for a file.
ProcessesOf(k) == {s \in Slots : slot[s].key = k}
ActiveSlots == {s \in Slots : slot[s].key > departed}
Places == Cardinality(ActiveSlots) <= Concurrency /\ \A k \in Keys : Cardinality(ProcessesOf(k)) <= Concurrency

\* An upload that waits is in the registry, about to be, or being undone.
WaitingKnown ==
    \A p \in Photos : Awaiting(p) => (\E k \in Keys : registry[k] = p) \/ Answered(p) \/ Undoing(p)

UploadsInv ==
    /\ UploadsTypeOK /\ KeysOK /\ RowsOK /\ NamedRows /\ TargetsOK /\ NewPhotosOK
    /\ HeldPhotos /\ NamesAgree /\ ItemsRegistered /\ ReadyDone /\ PageRegistered
    /\ WaitingKnown /\ CopiesOK

LEMMA UploadConstants ==
  /\ Keys \subseteq Nat \ {0} /\ Slots \subseteq Nat \ {0} /\ Photos \subseteq Nat \ {0}
  /\ NoPhoto = 0 /\ NoEntry = -1 /\ NoPhoto \notin Photos /\ NoEntry \notin Photos
  /\ MaxAttempts \in Nat /\ Keys = 1..MaxFiles /\ MaxFiles \in Nat /\ Concurrency \in Nat \ {0}
BY BrowserUploadsAssumption DEF Keys, Slots, Photos, NoPhoto, NoEntry

LEMMA FreshRow ==
  ASSUME \E p \in Photos : row[p] = "none"
  PROVE  Fresh \in Photos /\ row[Fresh] = "none"
<1>. DEFINE Free == {p \in Photos : row[p] = "none"}
<1>1. Free \in SUBSET Nat /\ Free # {}
  BY UploadConstants
<1>2. PICK p \in Free : \A q \in Free : p <= q
  BY <1>1, Least
<1>3. \E x \in Photos : row[x] = "none" /\ \A q \in Photos : row[q] = "none" => x <= q
  BY <1>2
<1>. QED BY <1>3 DEF Fresh

AttemptOf(k, pc, p, S) == [NoProcess EXCEPT !.key = k, !.pc = pc, !.target = p, !.parts = S]

LEMMA AttemptRecord ==
  ASSUME NEW k \in Keys, NEW pc \in Sending \cup Empty, NEW p \in OrNoPhoto, NEW S \in SUBSET Int
  PROVE  LET a == AttemptOf(k, pc, p, S) IN
         a \in SlotRecords /\ a.key = k /\ a.pc = pc /\ a.target = p
BY DEF AttemptOf, NoProcess, SlotRecords, Answers

\* What an attempt starts with is the item's photo, if it has one.
AttemptAt(a, k, p) ==
    /\ a \in SlotRecords /\ a.key = k /\ a.target = p
    /\ \/ a.pc = "initialize" /\ p = NoPhoto
       \/ a.pc \in Sending /\ p # NoPhoto

LEMMA AttemptIs ==
  ASSUME NEW k \in Keys, NEW it, it \in [Keys -> ItemRecords]
  PROVE  AttemptAt(Attempt(k, it), k, it[k].photo)
<1>. DEFINE missing == IF it[k].photo # NoPhoto /\ uploadKindFor(k) = "multipart"
                       THEN PartNumbers(k) \ it[k].parts ELSE {}
            pc == IF it[k].photo = NoPhoto THEN "initialize"
                  ELSE IF uploadKindFor(k) = "simple" THEN "presign"
                  ELSE IF missing = {} THEN "join" ELSE "partUrls"
<1>1. Attempt(k, it) = AttemptOf(k, pc, it[k].photo, missing)
  BY Zenon DEF Attempt, AttemptOf
<1>2. it[k].photo \in OrNoPhoto
  BY DEF ItemRecords
<1>3. missing \in SUBSET Int
  BY DEF PartNumbers
<1>. HIDE DEF missing
<1>4. /\ pc \in Sending \cup Empty
      /\ \/ pc = "initialize" /\ it[k].photo = NoPhoto
         \/ pc \in Sending /\ it[k].photo # NoPhoto
  BY Zenon DEF Sending, Empty
<1>. HIDE DEF pc
<1>. DEFINE a == Attempt(k, it)
<1>5. a \in SlotRecords /\ a.key = k /\ a.pc = pc /\ a.target = it[k].photo
  BY <1>1, <1>2, <1>3, <1>4, AttemptRecord
<1>. HIDE DEF a
<1>6. AttemptAt(a, k, it[k].photo)
  BY <1>4, <1>5 DEF AttemptAt
<1>. QED BY <1>6 DEF a

-----------------------------------------------------------------------------
(* What a step of the queue may do to a process, and to the items.         *)

GoesOn(a, b, in, n) ==
    /\ b \in SlotRecords /\ b.key <= n /\ (b.pc = "idle" <=> b.key = 0)
    /\ b.key # 0 => b.key = a.key \/ b.key \in in
    /\ "initialized" \in {a.pc, b.pc} => b.pc = a.pc /\ b.key = a.key /\ b.target = a.target
    /\ b.pc \in Empty => b.target = NoPhoto
    /\ b.pc = "initialize" => item[b.key].photo = NoPhoto \/ (a.pc = "initialize" /\ b.key = a.key)
    /\ b.pc \in Sending =>
          /\ item[b.key].photo # NoPhoto
          /\ b.target = item[b.key].photo \/ (a.pc \in Sending /\ b.key = a.key /\ b.target = a.target)

\* The items a step leaves to the processes: the photos are the old ones.
Rewrites(it, in) ==
    /\ it \in [Keys -> ItemRecords]
    /\ \A k \in Keys : it[k].photo = item[k].photo
    /\ \A k \in Keys : it[k].status \in {"processing", "ready"} => it[k].photo # NoPhoto
    /\ \A k \in in : it[k].status = "ready" =>
                        item[k].status = "ready" \/ row'[item[k].photo] \in {"READY", "FAILED"}

Quiet ==
    /\ items' \subseteq Keys /\ \A k \in items' : k \in items \/ k > added
    /\ item' \in [Keys -> ItemRecords] /\ slot' \in [Slots -> SlotRecords]
    /\ \A s \in Slots : GoesOn(slot[s], slot'[s], items', added')
    /\ \A k \in Keys : \/ item'[k].photo = item[k].photo
                       \/ ~Held(k, items', slot') /\ item'[k].photo = NoPhoto
    /\ \A k \in Keys : item'[k].status \in {"processing", "ready"} => item'[k].photo # NoPhoto
    /\ \A k \in items' : item'[k].status = "ready" =>
                            item[k].status = "ready" \/ row'[item[k].photo] \in {"READY", "FAILED"}

\* A process ends, or waits for its next attempt.
LEMMA EmptyIs ==
  /\ NewItem \in ItemRecords /\ NewItem.photo = NoPhoto /\ NewItem.status = "queued"
  /\ NoProcess \in SlotRecords /\ NoProcess.pc = "idle" /\ NoProcess.key = 0 /\ NoProcess.target = NoPhoto
  /\ \A k \in Keys : LET b == [NoProcess EXCEPT !.key = k, !.pc = "sleep"] IN
        b \in SlotRecords /\ b.pc = "sleep" /\ b.key = k /\ b.target = NoPhoto
BY UploadConstants DEF NewItem, ItemRecords, NoProcess, SlotRecords, Empty, OrNoPhoto, Statuses, Answers

LEMMA UnpumpedQuiet ==
  ASSUME NEW it, NEW in, NEW sl, NEW ct, Unpumped(it, in, sl, ct), Rewrites(it, in),
         in \subseteq Keys, \A k \in in : k \in items \/ k > added,
         sl \in [Slots -> SlotRecords],
         \A s \in Slots : GoesOn(slot[s], sl[s], in, added')
  PROVE  Quiet
<1>1. items' = in /\ slot' = sl /\ item' = [k \in Keys |-> IF Held(k, in, sl) THEN it[k] ELSE NewItem]
  BY DEF Unpumped
<1>2. \A k \in in : Held(k, in, sl)
  BY DEF Held
<1>3. \A k \in Keys : item'[k] = IF Held(k, in, sl) THEN it[k] ELSE NewItem
  BY <1>1
<1>4. item' \in [Keys -> ItemRecords]
  BY <1>1, EmptyIs DEF Rewrites
<1>5. \A k \in Keys : \/ item'[k].photo = item[k].photo
                      \/ ~Held(k, items', slot') /\ item'[k].photo = NoPhoto
  BY <1>1, <1>3, EmptyIs DEF Rewrites
<1>6. \A k \in Keys : item'[k].status \in {"processing", "ready"} => item'[k].photo # NoPhoto
  BY <1>3, EmptyIs DEF Rewrites
<1>7. \A k \in items' : item'[k].status = "ready" =>
                            item[k].status = "ready" \/ row'[item[k].photo] \in {"READY", "FAILED"}
  BY <1>1, <1>2, <1>3 DEF Rewrites
<1>. QED BY <1>1, <1>4, <1>5, <1>6, <1>7 DEF Quiet

\* A queue starts processes in idle slots only, each with an attempt.
LEMMA PumpQuiet ==
  ASSUME NEW it, NEW in, NEW sl, NEW ct, Pump(it, in, sl, ct), Rewrites(it, in),
         in \subseteq Keys, \A k \in in : k \in items \/ k > added,
         \A k \in in : k <= added', item \in [Keys -> ItemRecords],
         sl \in [Slots -> SlotRecords],
         \A s \in Slots : GoesOn(slot[s], sl[s], in, added')
  PROVE  Quiet
<1>. DEFINE waiting == {k \in in : it[k].status = "queued"}
            idle    == {s \in Slots : sl[s].pc = "idle"}
            active  == Cardinality({s \in Slots \ idle : sl[s].key > departed})
            started == {k \in waiting : Rank(k, waiting) <= Concurrency - active}
            Runs(s, k) == Rank(s, idle) = Rank(k, started)
            it2 == [k \in Keys |-> IF k \in started THEN [it[k] EXCEPT !.status = "uploading"] ELSE it[k]]
            sl2 == [s \in Slots |-> IF s \in idle /\ \E k \in started : Runs(s, k)
                                    THEN Attempt(CHOOSE k \in started : Runs(s, k), it) ELSE sl[s]]
            ct2 == [k \in Keys |-> IF k \in started THEN CHOOSE s \in idle : Runs(s, k) ELSE ct[k]]
<1>1. Unpumped(it2, in, sl2, ct2)
  BY DEF Pump
<1>2. started \subseteq in
  OBVIOUS
<1>3. \A s \in Slots : \/ sl2[s] = sl[s]
                       \/ sl[s].pc = "idle" /\ \E k \in in : sl2[s] = Attempt(k, it)
  <2>. TAKE s \in Slots
  <2>1. CASE s \in idle /\ \E k \in started : Runs(s, k)
    <3>1. (CHOOSE k \in started : Runs(s, k)) \in started
      BY <2>1
    <3>. HIDE DEF started, Runs
    <3>2. sl2[s] = Attempt(CHOOSE k \in started : Runs(s, k), it)
      BY <2>1
    <3>. QED BY <2>1, <3>1, <3>2, <1>2
  <2>2. CASE ~(s \in idle /\ \E k \in started : Runs(s, k))
    <3>. HIDE DEF started, Runs, idle
    <3>. QED BY <2>2
  <2>. QED BY <2>1, <2>2
<1>4. Rewrites(it2, in)
  <2>. HIDE DEF started
  <2>1. \A k \in Keys : /\ it2[k].photo = it[k].photo /\ it2[k] \in ItemRecords
                        /\ it2[k].status \in {it[k].status, "uploading"}
    BY DEF Rewrites, ItemRecords, Statuses
  <2>2. it2 \in [Keys -> ItemRecords]
    BY <2>1
  <2>. HIDE DEF it2
  <2>. QED BY <2>1, <2>2 DEF Rewrites
<1>. HIDE DEF started, idle, Runs, it2, ct2
<1>5. \A s \in Slots : sl2[s] \in SlotRecords /\ GoesOn(slot[s], sl2[s], in, added')
  <2>. TAKE s \in Slots
  <2>. HIDE DEF sl2
  <2>1. CASE sl2[s] = sl[s]
    BY <2>1
  <2>2. CASE sl[s].pc = "idle" /\ \E k \in in : sl2[s] = Attempt(k, it)
    <3>1. PICK k \in in : sl2[s] = Attempt(k, it)
      BY <2>2
    <3>2. k \in Keys /\ k # 0 /\ k <= added' /\ it[k].photo = item[k].photo /\ it \in [Keys -> ItemRecords]
      BY UploadConstants DEF Rewrites
    <3>3. AttemptAt(sl2[s], k, it[k].photo)
      BY <3>1, <3>2, AttemptIs
    <3>4. slot[s].pc # "initialized"
      BY <2>2 DEF GoesOn
    <3>. QED BY <3>2, <3>3, <3>4 DEF GoesOn, AttemptAt, Sending, Empty
  <2>. QED BY <1>3, <2>1, <2>2
<1>6. sl2 \in [Slots -> SlotRecords]
  BY <1>5
<1>. HIDE DEF sl2
<1>. QED BY <1>1, <1>4, <1>5, <1>6, UnpumpedQuiet

LEMMA SlotsGoOn ==
  ASSUME UploadsTypeOK, KeysOK, TargetsOK, NEW in, NEW n \in Nat, added <= n
  PROVE  \A s \in Slots : GoesOn(slot[s], slot[s], in, n)
<1>. TAKE s \in Slots
<1>1. slot[s] \in SlotRecords /\ added \in Nat
  BY UploadConstants DEF UploadsTypeOK
<1>2. slot[s].key \in Nat /\ slot[s].key <= n
  BY <1>1, UploadConstants DEF KeysOK, SlotRecords
<1>. QED BY <1>1, <1>2 DEF KeysOK, TargetsOK, GoesOn

\* What a step of one process leaves to the others.
LEMMA OneGoesOn ==
  ASSUME UploadsTypeOK, KeysOK, TargetsOK, NEW s \in Slots, NEW b, NEW in, GoesOn(slot[s], b, in, added)
  PROVE  LET sl == [slot EXCEPT ![s] = b] IN
         sl \in [Slots -> SlotRecords] /\ \A t \in Slots : GoesOn(slot[t], sl[t], in, added)
<1>1. added \in Nat
  BY UploadConstants DEF UploadsTypeOK
<1>2. \A t \in Slots : GoesOn(slot[t], slot[t], in, added)
  BY <1>1, SlotsGoOn
<1>3. b \in SlotRecords
  BY DEF GoesOn
<1>. QED BY <1>2, <1>3 DEF UploadsTypeOK

LEMMA ReturnQuiet ==
  ASSUME UploadsTypeOK, KeysOK, TargetsOK, NEW s \in Slots, slot[s].pc # "initialized", NEW it, NEW ct,
         Return(s, it, ct), Rewrites(it, items), added' = added
  PROVE  Quiet /\ items' = items
<1>. DEFINE sl == [slot EXCEPT ![s] = NoProcess]
<1>1. GoesOn(slot[s], NoProcess, items, added)
  <2>1. added \in Nat /\ 0 <= added
    BY UploadConstants DEF UploadsTypeOK
  <2>. QED BY <2>1, EmptyIs DEF GoesOn, Sending
<1>2. sl \in [Slots -> SlotRecords] /\ \A t \in Slots : GoesOn(slot[t], sl[t], items, added')
  BY <1>1, OneGoesOn
<1>3. items \subseteq Keys /\ (\A k \in items : k \in items \/ k > added) /\ (\A k \in items : k <= added')
      /\ item \in [Keys -> ItemRecords]
  BY DEF UploadsTypeOK, KeysOK
<1>4. Unpumped(it, items, sl, ct) \/ Pump(it, items, sl, ct)
  BY DEF Return
<1>. HIDE DEF sl
<1>5. items' = items
  BY <1>4 DEF Pump, Unpumped
<1>. QED BY <1>2, <1>3, <1>4, <1>5, PumpQuiet, UnpumpedQuiet

\* The items, with another status for one of them.
LEMMA ItemRewrites ==
  ASSUME UploadsTypeOK, RowsOK, NEW k \in Keys, NEW st \in {"queued", "uploading", "failed"}, NEW n \in Nat
  PROVE  /\ Rewrites(item, items) /\ Rewrites([item EXCEPT ![k].status = st], items)
         /\ Rewrites([item EXCEPT ![k].status = st, ![k].attempts = n], items)
         /\ Rewrites([[item EXCEPT ![k].attempts = n] EXCEPT ![k].status = st], items)
<1>1. item \in [Keys -> ItemRecords]
  BY DEF UploadsTypeOK
<1>2. \A j \in Keys : item[j].status \in {"processing", "ready"} => item[j].photo # NoPhoto
  BY DEF RowsOK
<1>3. items \subseteq Keys
  BY DEF UploadsTypeOK
<1>. QED BY <1>1, <1>2, <1>3 DEF Rewrites, ItemRecords, Statuses

PersistsHeld(k) == registry' = registry \/ Persist(k, item[k].photo)

LEMMA FailQuiet ==
  ASSUME UploadsTypeOK, KeysOK, RowsOK, TargetsOK, NEW s \in Slots, slot[s].pc \notin {"idle", "initialized"},
         NEW why, Fail(s, why), added' = added
  PROVE  Quiet /\ items' = items /\ slot[s].key \in Keys /\ PersistsHeld(slot[s].key)
<1>. DEFINE k == slot[s].key
            ct == [controller EXCEPT ![k] = NoSlot]
            tried == [item EXCEPT ![k].attempts = @ + 1]
            n == item[k].attempts + 1
            b == [NoProcess EXCEPT !.key = k, !.pc = "sleep"]
<1>1. k \in Keys
  BY DEF UploadsTypeOK, KeysOK, SlotRecords
<1>2. n \in Nat
  BY <1>1 DEF UploadsTypeOK, ItemRecords
<1>3. tried = [item EXCEPT ![k].attempts = n]
  BY Zenon
<1>. HIDE DEF k, n, tried
<1>4. CASE why = "abort"
  <2>1. Return(s, IF k \in items THEN [item EXCEPT ![k].status = "queued"] ELSE item, ct) /\ registry' = registry
    BY <1>4, Zenon DEF Fail, k
  <2>2. Rewrites(IF k \in items THEN [item EXCEPT ![k].status = "queued"] ELSE item, items)
    BY <1>1, <1>2, ItemRewrites
  <2>. QED BY <1>1, <2>1, <2>2, ReturnQuiet DEF PersistsHeld, k
<1>5. CASE why # "abort" /\ why = "retry" /\ tried[k].attempts < MaxAttempts
  <2>1. Unpumped([tried EXCEPT ![k].status = "queued"], items, [slot EXCEPT ![s] = b], ct) /\ registry' = registry
    BY <1>5, Zenon DEF Fail, k, tried
  <2>2. Rewrites([tried EXCEPT ![k].status = "queued"], items)
    BY <1>1, <1>2, <1>3, ItemRewrites
  <2>3. GoesOn(slot[s], b, items, added)
    <3>1. b \in SlotRecords /\ b.pc = "sleep" /\ b.key = k /\ b.target = NoPhoto
      BY <1>1, EmptyIs
    <3>. HIDE DEF b
    <3>2. k <= added /\ k = slot[s].key /\ k # 0
      BY <1>1, UploadConstants DEF KeysOK, k
    <3>. QED BY <3>1, <3>2 DEF GoesOn, Sending
  <2>. DEFINE sl == [slot EXCEPT ![s] = b]
  <2>4. sl \in [Slots -> SlotRecords] /\ \A t \in Slots : GoesOn(slot[t], sl[t], items, added')
    BY <2>3, OneGoesOn
  <2>5. items' = items
    BY <2>1 DEF Unpumped
  <2>6. items \subseteq Keys /\ \A j \in items : j \in items \/ j > added
    BY DEF UploadsTypeOK
  <2>. HIDE DEF sl
  <2>7. Quiet
    BY <2>1, <2>2, <2>4, <2>6, UnpumpedQuiet DEF sl
  <2>. QED BY <1>1, <2>1, <2>5, <2>7 DEF PersistsHeld, k
<1>6. CASE why # "abort" /\ ~(why = "retry" /\ tried[k].attempts < MaxAttempts)
  <2>1. Return(s, [tried EXCEPT ![k].status = "failed"], ct) /\ Persist(k, item[k].photo)
    BY <1>6, Zenon DEF Fail, k, tried
  <2>2. Rewrites([tried EXCEPT ![k].status = "failed"], items)
    BY <1>1, <1>2, <1>3, ItemRewrites
  <2>. QED BY <1>1, <2>1, <2>2, ReturnQuiet DEF PersistsHeld, k
<1>. QED BY <1>4, <1>5, <1>6

-----------------------------------------------------------------------------
(* What a step may do to the rows, and what follows with a quiet queue.    *)

Completes(p) == \E s \in Slots : slot[s].pc = "complete" /\ slot[s].target = p

RowsGo ==
    /\ row' \in [Photos -> RowStatuses] /\ file' \in [Photos -> Keys \cup {0}]
    /\ disowned \subseteq disowned' /\ disowned' \subseteq Photos
    /\ added' \in Nat /\ added <= added'
    /\ \A p \in Photos : row[p] # "none" =>
          row'[p] # "none" /\ file'[p] = file[p] /\ (row'[p] = "UPLOADING" => row[p] = "UPLOADING")
    /\ \A p \in Photos : row[p] = "none" /\ row'[p] # "none" =>
          row'[p] = "UPLOADING" /\ file'[p] \in 1..added /\ p \in disowned'
    /\ \A p \in Photos : row'[p] \in DoneStatuses => row[p] \in DoneStatuses \/ Completes(p)

LEMMA StillWaits ==
  ASSUME RowsGo
  PROVE  \A p : p \in Photos /\ row'[p] = "UPLOADING" /\ p \notin disowned' => Awaiting(p)
BY DEF RowsGo, Awaiting

\* Only a new item is held that was not held before.
LEMMA StillHeld ==
  ASSUME UploadsTypeOK, KeysOK, Quiet, NEW k \in Keys, Held(k, items', slot')
  PROVE  /\ item'[k].photo = item[k].photo
         /\ Held(k, items, slot) \/ (k > added /\ \A p \in Photos : ~Named(k, p))
<1>1. item'[k].photo = item[k].photo
  BY DEF Quiet
<1>2. Held(k, items, slot) \/ k > added
  <2>1. CASE k \in items'
    BY <2>1 DEF Quiet, Held
  <2>2. CASE k \notin items'
    <3>1. PICK s \in Slots : slot'[s].key = k
      BY <2>2 DEF Held
    <3>2. slot[s].key = k
      BY <2>2, <3>1, UploadConstants DEF Quiet, GoesOn
    <3>. QED BY <3>2 DEF Held
  <2>. QED BY <2>1, <2>2
<1>3. ASSUME k > added, NEW p \in Photos, Named(k, p) PROVE FALSE
  <2>1. k > departed /\ added \in Nat /\ k \in Nat
    BY <1>3, UploadConstants DEF UploadsTypeOK
  <2>2. registry[k] = NoEntry /\ todo[k] = NoEntry /\ restored[k] = NoPhoto /\ item[k].photo = NoPhoto
    BY <1>3, <2>1 DEF KeysOK
  <2>3. \A o \in ops : o.key # k
    BY <1>3, <2>1, UploadConstants DEF KeysOK, UploadsTypeOK, OpRecords
  <2>. QED BY <1>3, <2>2, <2>3, UploadConstants DEF Named
<1>. QED BY <1>1, <1>2, <1>3

LEMMA RowsKept ==
  ASSUME UploadsTypeOK, KeysOK, RowsOK, Quiet, RowsGo
  PROVE  RowsOK'
<1>1. ASSUME NEW p \in Photos, row'[p] # "none" PROVE file'[p] \in 1..added'
  <2>1. file'[p] \in 1..added
    BY <1>1 DEF RowsGo, RowsOK
  <2>2. added \in Nat /\ added' \in Nat /\ added <= added'
    BY UploadConstants DEF RowsGo, UploadsTypeOK
  <2>. QED BY <2>1, <2>2
<1>2. ASSUME NEW k \in Keys, item'[k].photo # NoPhoto
      PROVE  row'[item'[k].photo] # "none" /\ file'[item'[k].photo] = k
  <2>1. item'[k].photo = item[k].photo
    BY <1>2 DEF Quiet
  <2>2. item[k].photo \in Photos
    BY <1>2, <2>1 DEF UploadsTypeOK, ItemRecords, OrNoPhoto
  <2>. QED BY <1>2, <2>1, <2>2 DEF RowsOK, RowsGo
<1>3. ASSUME NEW k \in Keys, item'[k].status \in {"processing", "ready"} PROVE item'[k].photo # NoPhoto
  BY <1>3 DEF Quiet
<1>. QED BY <1>1, <1>2, <1>3 DEF RowsOK

LEMMA TargetsKept ==
  ASSUME UploadsTypeOK, KeysOK, RowsOK, TargetsOK, Quiet, RowsGo
  PROVE  TargetsOK'
<1>. SUFFICES ASSUME NEW s \in Slots
     PROVE  /\ slot'[s].pc \in Empty => slot'[s].target = NoPhoto
            /\ slot'[s].pc \in Sending \cup {"initialized"} =>
                  /\ slot'[s].target # NoPhoto
                  /\ row'[slot'[s].target] # "none" /\ file'[slot'[s].target] = slot'[s].key
            /\ slot'[s].pc \in Sending => item'[slot'[s].key].photo # NoPhoto
  BY DEF TargetsOK
<1>. DEFINE a == slot[s]  b == slot'[s]
<1>1. GoesOn(a, b, items', added') /\ a \in SlotRecords /\ b \in SlotRecords
  BY DEF Quiet, UploadsTypeOK
<1>2. a.pc \in Sending \cup {"initialized"} =>
          a.target # NoPhoto /\ row[a.target] # "none" /\ file[a.target] = a.key /\ a.target \in Photos
  BY <1>1 DEF TargetsOK, SlotRecords, OrNoPhoto
<1>3. a.pc \in Sending => item[a.key].photo # NoPhoto
  BY DEF TargetsOK
<1>4. ASSUME b.pc \in Sending
      PROVE  /\ b.key \in Keys /\ item'[b.key].photo = item[b.key].photo /\ item[b.key].photo # NoPhoto
             /\ b.target = item[b.key].photo \/ (a.pc \in Sending /\ b.key = a.key /\ b.target = a.target)
  <2>1. b.key \in Keys
    BY <1>1, <1>4 DEF GoesOn, SlotRecords, Sending
  <2>2. Held(b.key, items', slot')
    BY DEF Held
  <2>. QED BY <1>1, <1>4, <2>1, <2>2, StillHeld DEF GoesOn
<1>5. CASE b.pc \in Empty
  BY <1>1, <1>5 DEF GoesOn, Empty, Sending
<1>6. CASE b.pc = "initialized"
  <2>1. b.pc = a.pc /\ b.key = a.key /\ b.target = a.target
    BY <1>1, <1>6 DEF GoesOn
  <2>2. a.target \in Photos /\ row[a.target] # "none" /\ file[a.target] = a.key
    BY <1>2, <1>6, <2>1
  <2>3. row'[b.target] # "none" /\ file'[b.target] = b.key /\ b.target # NoPhoto
    BY <2>1, <2>2, UploadConstants DEF RowsGo
  <2>. QED BY <1>6, <2>3 DEF Empty, Sending
<1>7. CASE b.pc \in Sending
  <2>1. CASE a.pc \in Sending /\ b.key = a.key /\ b.target = a.target
    <3>1. b.target \in Photos /\ row[b.target] # "none" /\ file[b.target] = b.key
      BY <1>2, <2>1
    <3>2. row'[b.target] # "none" /\ file'[b.target] = b.key /\ b.target # NoPhoto
      BY <3>1, UploadConstants DEF RowsGo
    <3>. QED BY <1>4, <1>7, <3>2 DEF Empty, Sending
  <2>2. CASE b.target = item[b.key].photo
    <3>1. b.target \in Photos /\ row[b.target] # "none" /\ file[b.target] = b.key
      BY <1>4, <1>7, <2>2 DEF RowsOK, UploadsTypeOK, ItemRecords, OrNoPhoto
    <3>2. row'[b.target] # "none" /\ file'[b.target] = b.key /\ b.target # NoPhoto
      BY <3>1, UploadConstants DEF RowsGo
    <3>. QED BY <1>4, <1>7, <3>2 DEF Empty, Sending
  <2>. QED BY <1>4, <1>7, <2>1, <2>2
<1>. QED BY <1>1, <1>5, <1>6, <1>7 DEF SlotRecords

\* An answer that is awaited stays so, and its photo is nobody else's.
LEMMA AnsweredKept ==
  ASSUME UploadsTypeOK, RowsOK, TargetsOK, NewPhotosOK, Quiet, RowsGo,
         NEW s \in Slots, slot[s].pc = "initialized" \/ slot'[s].pc = "initialized"
  PROVE  /\ slot[s].pc = "initialized" /\ slot'[s].pc = "initialized"
         /\ slot'[s].key = slot[s].key /\ slot'[s].target = slot[s].target
         /\ slot[s].key \in Keys \cup {0} /\ slot[s].target \in Photos
         /\ \A t \in Slots \ {s} : slot'[t].target # slot[s].target
<1>1. GoesOn(slot[s], slot'[s], items', added')
  BY DEF Quiet
<1>2. /\ slot[s].pc = "initialized" /\ slot'[s].pc = "initialized"
      /\ slot'[s].key = slot[s].key /\ slot'[s].target = slot[s].target
  BY <1>1 DEF GoesOn
<1>3. slot[s].key \in Keys \cup {0} /\ slot[s].target \in Photos
  BY <1>2 DEF UploadsTypeOK, SlotRecords, TargetsOK, OrNoPhoto
<1>4. ASSUME NEW t \in Slots \ {s} PROVE slot'[t].target # slot[s].target
  <2>1. GoesOn(slot[t], slot'[t], items', added') /\ slot'[t] \in SlotRecords
    BY DEF Quiet
  <2>2. slot[t].target # slot[s].target /\ \A k \in Keys : item[k].photo # slot[s].target
    BY <1>2 DEF NewPhotosOK
  <2>3. slot[s].target # NoPhoto
    BY <1>3, UploadConstants
  <2>4. slot'[t].pc \in Sending => slot'[t].key \in Keys
    BY <2>1 DEF GoesOn, SlotRecords, Sending
  <2>. QED BY <2>1, <2>2, <2>3, <2>4 DEF GoesOn, SlotRecords
<1>. QED BY <1>2, <1>3, <1>4

LEMMA NewPhotosKept ==
  ASSUME UploadsTypeOK, KeysOK, RowsOK, TargetsOK, NewPhotosOK, Quiet, RowsGo
  PROVE  NewPhotosOK'
<1>. SUFFICES ASSUME NEW s \in Slots, slot'[s].pc = "initialized"
     PROVE  /\ row'[slot'[s].target] \notin DoneStatuses
            /\ \A k \in Keys : item'[k].photo # slot'[s].target
            /\ \A t \in Slots \ {s} : slot'[t].target # slot'[s].target
            /\ slot'[s].target \notin disowned' =>
                  /\ item'[slot'[s].key].photo \in disowned' \cup {NoPhoto}
                  /\ \A t \in Slots \ {s} : slot'[t].pc = "initialized" /\ slot'[t].key = slot'[s].key =>
                        slot'[t].target \in disowned'
  BY DEF NewPhotosOK
<1>. DEFINE p == slot[s].target
<1>1. /\ slot[s].pc = "initialized" /\ slot'[s].key = slot[s].key /\ slot'[s].target = p /\ p \in Photos
      /\ slot[s].key \in Keys \cup {0} /\ \A t \in Slots \ {s} : slot'[t].target # p
  BY AnsweredKept
<1>2. /\ row[p] \notin DoneStatuses /\ (\A k \in Keys : item[k].photo # p)
      /\ \A t \in Slots \ {s} : slot[t].target # p
      /\ p \notin disowned =>
              /\ item[slot[s].key].photo \in disowned \cup {NoPhoto}
              /\ \A t \in Slots \ {s} : slot[t].pc = "initialized" /\ slot[t].key = slot[s].key =>
                    slot[t].target \in disowned
  BY <1>1 DEF NewPhotosOK
<1>. HIDE DEF p
<1>3. row'[p] \notin DoneStatuses
  <2>1. ~Completes(p)
    BY <1>1, <1>2 DEF Completes, p
  <2>. QED BY <1>1, <1>2, <2>1 DEF RowsGo
<1>4. \A k \in Keys : item'[k].photo # p
  BY <1>1, <1>2, UploadConstants DEF Quiet
<1>5. ASSUME p \notin disowned'
      PROVE  /\ item'[slot[s].key].photo \in disowned' \cup {NoPhoto}
             /\ \A t \in Slots \ {s} : slot'[t].pc = "initialized" /\ slot'[t].key = slot[s].key =>
                        slot'[t].target \in disowned'
  <2>1. p \notin disowned /\ disowned \subseteq disowned'
    BY <1>5 DEF RowsGo
  <2>2. slot[s].key \in Keys
    BY <1>1 DEF KeysOK
  <2>3. item'[slot[s].key].photo \in disowned' \cup {NoPhoto}
    BY <1>2, <2>1, <2>2 DEF Quiet
  <2>4. ASSUME NEW t \in Slots \ {s}, slot'[t].pc = "initialized", slot'[t].key = slot[s].key
        PROVE  slot'[t].target \in disowned'
    <3>1. slot[t].pc = "initialized" /\ slot[t].key = slot'[t].key /\ slot'[t].target = slot[t].target
      BY <2>4, AnsweredKept
    <3>. QED BY <1>2, <2>1, <2>4, <3>1
  <2>. QED BY <2>3, <2>4
<1>. QED BY <1>1, <1>3, <1>4, <1>5

LEMMA HeldPhotosKept ==
  ASSUME UploadsTypeOK, KeysOK, RowsOK, TargetsOK, NewPhotosOK, HeldPhotos, Quiet, RowsGo
  PROVE  HeldPhotos'
<1>. SUFFICES ASSUME NEW p \in Photos, row'[p] # "none", p \notin disowned', Held(file'[p], items', slot')
     PROVE  item'[file'[p]].photo = p \/ \E s \in Slots : slot'[s].pc = "initialized" /\ slot'[s].target = p
  BY DEF HeldPhotos, Answered
<1>1. row[p] # "none" /\ p \notin disowned /\ file'[p] = file[p] /\ file[p] \in 1..added
  BY DEF RowsGo, RowsOK
<1>2. file[p] \in Keys /\ ~(file[p] > added)
  BY <1>1, UploadConstants DEF UploadsTypeOK
<1>3. Held(file[p], items, slot) /\ item'[file[p]].photo = item[file[p]].photo
  BY <1>1, <1>2, StillHeld
<1>4. item[file[p]].photo = p \/ Answered(p)
  BY <1>1, <1>3 DEF HeldPhotos
<1>5. CASE Answered(p)
  <2>1. PICK s \in Slots : slot[s].pc = "initialized" /\ slot[s].target = p
    BY <1>5 DEF Answered
  <2>2. slot'[s].pc = "initialized" /\ slot'[s].target = p
    BY <2>1, AnsweredKept
  <2>. QED BY <2>2
<1>. QED BY <1>1, <1>3, <1>4, <1>5

LEMMA FiniteIds == IsFiniteSet(Slots) /\ IsFiniteSet(Photos)
<1>1. MaxSlots \in Nat /\ MaxPhotos \in Nat
  BY BrowserUploadsAssumption
<1>2. IsFiniteSet(1..MaxSlots)
  BY <1>1, FS_Interval
<1>3. IsFiniteSet(1..MaxPhotos)
  BY <1>1, FS_Interval
<1>. QED BY <1>2, <1>3 DEF Slots, Photos

LEMMA FewerCopies ==
  ASSUME NEW A \in SUBSET Slots, NEW L \in SUBSET Photos, NEW B \in SUBSET A, NEW M \in SUBSET L
  PROVE  /\ Cardinality(A) \in Nat /\ Cardinality(B) \in Nat
         /\ Cardinality(L) \in Nat /\ Cardinality(M) \in Nat
         /\ Cardinality(B) + Cardinality(M) <= Cardinality(A) + Cardinality(L)
<1>1. IsFiniteSet(A) /\ IsFiniteSet(L)
  BY FiniteIds, FS_Subset
<1>2. /\ IsFiniteSet(B) /\ Cardinality(B) <= Cardinality(A)
      /\ IsFiniteSet(M) /\ Cardinality(M) <= Cardinality(L)
  BY <1>1, FS_Subset
<1>3. /\ Cardinality(A) \in Nat /\ Cardinality(B) \in Nat
      /\ Cardinality(L) \in Nat /\ Cardinality(M) \in Nat
  BY <1>1, <1>2, FS_CardinalityType
<1>. QED BY <1>2, <1>3

LEMMA LiveIs ==
  ASSUME UploadsTypeOK, KeysOK, RowsOK, TargetsOK, NEW k \in Keys
  PROVE  /\ \A p \in Live(k) : p \in Photos /\ row[p] # "none" /\ file[p] = k
         /\ k > added => Live(k) = {}
<1>1. ASSUME NEW p \in Live(k) PROVE p \in Photos /\ row[p] # "none" /\ file[p] = k
  <2>1. p \in Photos /\ file[p] = k /\ (row[p] \in DoneStatuses \/ SentTo(k, p) \/ item[k].photo = p)
    BY DEF Live
  <2>2. CASE row[p] \in DoneStatuses
    BY <2>1, <2>2 DEF DoneStatuses
  <2>3. CASE SentTo(k, p)
    BY <2>1, <2>3 DEF SentTo, TargetsOK
  <2>4. CASE item[k].photo = p
    BY <2>1, <2>4, UploadConstants DEF RowsOK
  <2>. QED BY <2>1, <2>2, <2>3, <2>4
<1>2. ASSUME k > added, NEW p \in Live(k) PROVE FALSE
  <2>1. k \in 1..added
    BY <1>1 DEF RowsOK
  <2>. QED BY <1>2, <2>1, UploadConstants DEF UploadsTypeOK
<1>. QED BY <1>1, <1>2

\* No step of a quiet queue makes a photo that could become another copy ...
LEMMA LiveKept ==
  ASSUME UploadsTypeOK, KeysOK, RowsOK, TargetsOK, Quiet, RowsGo, NEW k \in Keys
  PROVE  Live(k)' \subseteq Live(k)
<1>. SUFFICES ASSUME NEW p \in Photos, file'[p] = k,
                     row'[p] \in DoneStatuses \/ SentTo(k, p)' \/ (Held(k, items', slot') /\ item'[k].photo = p)
     PROVE  p \in Live(k)
  BY DEF Live, Held
<1>1. ASSUME row[p] # "none" PROVE file[p] = k
  BY <1>1 DEF RowsGo
<1>2. ASSUME Held(k, items', slot'), item[k].photo = p PROVE p \in Live(k)
  <2>1. row[p] # "none"
    BY <1>2, UploadConstants DEF RowsOK
  <2>2. Held(k, items, slot)
    BY <1>2, UploadConstants, StillHeld DEF KeysOK
  <2>. QED BY <1>1, <1>2, <2>1, <2>2 DEF Live
<1>3. CASE Held(k, items', slot') /\ item'[k].photo = p
  BY <1>2, <1>3, StillHeld
<1>4. CASE SentTo(k, p)'
  <2>1. PICK s \in Slots : slot'[s].key = k /\ slot'[s].pc \in Sending /\ slot'[s].target = p
    BY <1>4 DEF SentTo
  <2>2. /\ GoesOn(slot[s], slot'[s], items', added') /\ Held(k, items', slot')
    BY <2>1 DEF Quiet, Held
  <2>3. CASE item[k].photo = p
    BY <1>2, <2>2, <2>3
  <2>4. CASE slot[s].pc \in Sending /\ slot[s].key = k /\ slot[s].target = p
    <3>1. row[p] # "none" /\ SentTo(k, p)
      BY <2>4 DEF TargetsOK, SentTo
    <3>. QED BY <1>1, <3>1 DEF Live
  <2>. QED BY <2>1, <2>2, <2>3, <2>4 DEF GoesOn
<1>5. CASE row'[p] \in DoneStatuses
  <2>1. row[p] \in DoneStatuses \/ Completes(p)
    BY <1>5 DEF RowsGo
  <2>2. CASE row[p] \in DoneStatuses
    BY <1>1, <2>2 DEF Live, DoneStatuses
  <2>3. CASE Completes(p)
    <3>1. PICK s \in Slots : slot[s].pc \in Sending /\ slot[s].target = p
      BY <2>3 DEF Completes, Sending
    <3>2. row[p] # "none" /\ file[p] = slot[s].key
      BY <3>1 DEF TargetsOK
    <3>3. SentTo(k, p)
      BY <1>1, <3>1, <3>2 DEF SentTo
    <3>. QED BY <1>1, <3>2, <3>3 DEF Live
  <2>. QED BY <2>1, <2>2, <2>3
<1>. QED BY <1>3, <1>4, <1>5

\* ... and once the item has a photo, no process asks for one anew.
LEMMA CopiesKept ==
  ASSUME UploadsTypeOK, KeysOK, RowsOK, TargetsOK, CopiesOK, Quiet, RowsGo
  PROVE  CopiesOK'
<1>. SUFFICES ASSUME NEW k \in Keys
     PROVE  IF Unanswered(k)' THEN Live(k)' = {}
            ELSE Cardinality(Asking(k)') + Cardinality(Live(k)') <= Concurrency
  BY DEF CopiesOK
<1>1. Live(k)' \subseteq Live(k)
  BY LiveKept
<1>2. Unanswered(k)' <=> Held(k, items', slot') /\ item'[k].photo = NoPhoto
  BY DEF Unanswered, Held
<1>3. CASE Unanswered(k)'
  <2>1. item[k].photo = NoPhoto /\ (Held(k, items, slot) \/ k > added)
    BY <1>2, <1>3, StillHeld
  <2>2. Live(k) = {}
    BY <2>1, LiveIs DEF CopiesOK, Unanswered
  <2>. QED BY <1>1, <1>3, <2>2
<1>4. CASE ~Unanswered(k)'
  <2>1. Asking(k)' = {s \in Slots : slot'[s].key = k /\ slot'[s].pc \in {"initialize", "initialized"}}
    BY DEF Asking
  <2>2. Asking(k) \in SUBSET Slots /\ Live(k) \in SUBSET Photos /\ Concurrency \in Nat
    BY UploadConstants DEF Asking, Live
  <2>3. CASE Unanswered(k)
    <3>1. item'[k].photo = NoPhoto
      BY <2>3 DEF Quiet, Unanswered
    <3>2. ~Held(k, items', slot')
      BY <1>2, <1>4, <3>1
    <3>3. Asking(k)' = {}
      BY <2>1, <3>2 DEF Held
    <3>4. Live(k)' = {}
      BY <1>1, <2>3 DEF CopiesOK
    <3>. QED BY <1>4, <2>2, <3>3, <3>4, FS_EmptySet
  <2>4. CASE ~Unanswered(k)
    <3>1. Asking(k)' \subseteq Asking(k)
      <4>. SUFFICES ASSUME NEW s \in Slots, slot'[s].key = k, slot'[s].pc \in {"initialize", "initialized"}
           PROVE  slot[s].key = k /\ slot[s].pc \in {"initialize", "initialized"}
        BY <2>1 DEF Asking
      <4>1. Held(k, items', slot') /\ GoesOn(slot[s], slot'[s], items', added')
        BY DEF Held, Quiet
      <4>2. item[k].photo # NoPhoto
        BY <1>2, <1>4, <4>1, StillHeld
      <4>. QED BY <4>1, <4>2 DEF GoesOn
    <3>2. Cardinality(Asking(k)) + Cardinality(Live(k)) <= Concurrency
      BY <2>4 DEF CopiesOK
    <3>. DEFINE A == Asking(k)  L == Live(k)  B == Asking(k)'  M == Live(k)'
    <3>3. B \in SUBSET A /\ M \in SUBSET L /\ A \in SUBSET Slots /\ L \in SUBSET Photos
      BY <1>1, <2>2, <3>1
    <3>. HIDE DEF A, L, B, M
    <3>4. /\ Cardinality(A) \in Nat /\ Cardinality(B) \in Nat /\ Cardinality(L) \in Nat /\ Cardinality(M) \in Nat
          /\ Cardinality(B) + Cardinality(M) <= Cardinality(A) + Cardinality(L)
      BY <3>3, FewerCopies
    <3>5. Cardinality(A) + Cardinality(L) <= Concurrency
      BY <3>2 DEF A, L
    <3>6. Cardinality(B) + Cardinality(M) <= Concurrency
      BY <2>2, <3>4, <3>5
    <3>. QED BY <1>4, <3>6 DEF B, M
  <2>. QED BY <2>3, <2>4
<1>. QED BY <1>3, <1>4

LEMMA ReadyKept ==
  ASSUME UploadsTypeOK, KeysOK, RowsOK, ReadyDone, Quiet, RowsGo
  PROVE  ReadyDone'
<1>. SUFFICES ASSUME NEW k \in items', item'[k].status = "ready", item'[k].photo \in Photos,
                     row'[item'[k].photo] = "UPLOADING", item'[k].photo \notin disowned'
     PROVE  FALSE
  BY DEF ReadyDone, Awaiting
<1>1. k \in Keys /\ (k \in items \/ k > added)
  BY DEF Quiet
<1>2. Held(k, items', slot')
  BY DEF Held
<1>3. item'[k].photo = item[k].photo
  BY <1>1, <1>2, StillHeld
<1>4. Awaiting(item[k].photo)
  BY <1>3, StillWaits
<1>5. item[k].status = "ready"
  BY <1>3 DEF Quiet
<1>6. k \in items
  BY <1>1, <1>3, UploadConstants DEF KeysOK
<1>. QED BY <1>4, <1>5, <1>6 DEF ReadyDone

-----------------------------------------------------------------------------
(* The names of the photos.                                                *)

\* What the registry, the page and the requests name has been named before.
OldNames ==
    /\ ops' \subseteq OpRecords
    /\ \A k \in Keys, p \in Photos : p \in {registry'[k], todo'[k], restored'[k]} => Named(k, p)
    /\ \A o \in ops' : Named(o.key, o.photo)

LEMMA NamesKept ==
  ASSUME UploadsTypeOK, KeysOK, NamedRows, NamesAgree, Quiet, RowsGo, OldNames
  PROVE  NamedRows' /\ NamesAgree'
<1>1. ASSUME NEW k \in Keys, NEW p \in Photos, Named(k, p)' PROVE Named(k, p)
  <2>1. CASE p \in {registry'[k], todo'[k], restored'[k]} \/ \E o \in ops' : o.key = k /\ o.photo = p
    BY <2>1 DEF OldNames
  <2>2. CASE Held(k, items', slot') /\ item'[k].photo = p
    <3>1. item[k].photo = p
      BY <2>2, StillHeld
    <3>2. Held(k, items, slot) \/ k > added
      BY <2>2, StillHeld
    <3>3. k > added => item[k].photo = NoPhoto
      BY DEF KeysOK
    <3>. QED BY <3>1, <3>2, <3>3, UploadConstants DEF Named
  <2>. QED BY <1>1, <2>1, <2>2 DEF Named, Held
<1>2. NamedRows'
  <2>. SUFFICES ASSUME NEW k \in Keys, NEW p \in Photos, Named(k, p)' PROVE row'[p] # "none"
    BY DEF NamedRows
  <2>1. Named(k, p)
    BY <1>1
  <2>. QED BY <2>1 DEF NamedRows, RowsGo
<1>3. ASSUME NEW k \in Keys, NEW p \in Photos, NEW q \in Photos, Named(k, p)', Named(k, q)', p # q
      PROVE  p \in disowned'
  <2>1. Named(k, p) /\ Named(k, q)
    BY <1>1, <1>3
  <2>. QED BY <1>3, <2>1 DEF NamesAgree, RowsGo
<1>4. ASSUME NEW k \in Keys, NEW p \in Photos, Named(k, p)', Held(k, items', slot')
      PROVE  item'[k].photo # NoPhoto
  <2>1. Named(k, p)
    BY <1>1, <1>4
  <2>2. item'[k].photo = item[k].photo /\ Held(k, items, slot)
    BY <1>4, <2>1, StillHeld
  <2>. QED BY <2>1, <2>2 DEF NamesAgree
<1>. QED BY <1>2, <1>3, <1>4 DEF NamesAgree, Held

\* While its item is held, what a file's photo is called and that counts is
\* the item's photo.
LEMMA HeldName ==
  ASSUME UploadsTypeOK, NamesAgree, NEW k \in Keys, Held(k, items, slot), NEW p, Named(k, p), p \notin disowned
  PROVE  item[k].photo = p
<1>1. p \in Photos
  BY DEF Named
<1>2. item[k].photo \in Photos
  BY <1>1 DEF NamesAgree, UploadsTypeOK, ItemRecords, OrNoPhoto
<1>3. Named(k, item[k].photo)
  BY <1>2 DEF Named
<1>. QED BY <1>1, <1>2, <1>3 DEF NamesAgree

\* Steps of the processes, the list and the server: the page and the
\* requests are as they were, and an item's photo may be written down.
LEMMA ProcessKeeps ==
  ASSUME UploadsInv, Quiet, RowsGo, items' = items,
         UNCHANGED <<added, departed, mounted, restored, todo, ops>>,
         registry' = registry \/ \E k \in Keys : Held(k, items, slot) /\ Persist(k, item[k].photo)
  PROVE  UploadsInv'
<1>. USE DEF UploadsInv
<1>1. PICK k0 \in Keys \cup {NoPhoto} :
          \/ k0 = NoPhoto /\ registry' = registry
          \/ k0 \in Keys /\ Held(k0, items, slot) /\ registry' = [registry EXCEPT ![k0] = item[k0].photo]
  BY Zenon DEF Persist
<1>2. \A k \in Keys : \/ registry'[k] = registry[k]
                      \/ k = k0 /\ Held(k, items, slot) /\ registry'[k] = item[k].photo
  BY <1>1 DEF UploadsTypeOK
<1>3. UploadsTypeOK'
  <2>1. registry' \in [Keys -> Entries]
    BY <1>1 DEF UploadsTypeOK, ItemRecords, Entries
  <2>. QED BY <2>1 DEF UploadsTypeOK, Quiet, RowsGo
<1>4. KeysOK'
  <2>1. \A s \in Slots : slot'[s].key <= added' /\ (slot'[s].pc = "idle" <=> slot'[s].key = 0)
    BY DEF Quiet, GoesOn
  <2>2. ASSUME NEW k \in Keys, k > added PROVE item'[k].photo = NoPhoto /\ registry'[k] = NoEntry
    <3>1. item[k].photo = NoPhoto /\ registry[k] = NoEntry
      BY <2>2 DEF KeysOK
    <3>2. ~Held(k, items, slot)
      BY <2>2, UploadConstants DEF KeysOK, Held, UploadsTypeOK, SlotRecords
    <3>. QED BY <1>2, <3>1, <3>2 DEF Quiet
  <2>. QED BY <2>1, <2>2 DEF KeysOK
<1>5. OldNames
  <2>1. \A k \in Keys, p \in Photos : p \in {registry'[k], todo'[k], restored'[k]} => Named(k, p)
    BY <1>2 DEF Named
  <2>2. \A o \in ops' : Named(o.key, o.photo)
    BY DEF UploadsTypeOK, OpRecords, Named
  <2>. QED BY <2>1, <2>2 DEF OldNames, UploadsTypeOK
<1>6. ASSUME NEW k \in Keys, NEW p, Named(k, p), p \notin disowned, registry[k] = p PROVE registry'[k] = p
  BY <1>2, <1>6, HeldName
<1>7. ItemsRegistered'
  <2>. SUFFICES ASSUME NEW k \in items, item'[k].photo # NoPhoto PROVE registry'[k] = item'[k].photo
    BY DEF ItemsRegistered
  <2>1. k \in Keys /\ Held(k, items', slot')
    BY DEF UploadsTypeOK, Held
  <2>2. item'[k].photo = item[k].photo
    BY <2>1, StillHeld
  <2>. QED BY <1>2, <2>1, <2>2 DEF ItemsRegistered
<1>8. PageRegistered'
  <2>1. ASSUME NEW k \in Keys, Awaiting(restored[k])' PROVE registry'[k] = restored'[k]
    <3>1. Awaiting(restored[k])
      BY <2>1, StillWaits DEF Awaiting
    <3>2. registry[k] = restored[k] /\ Named(k, restored[k]) /\ restored[k] \notin disowned
      BY <3>1 DEF PageRegistered, Named, Awaiting
    <3>. QED BY <1>6, <3>2
  <2>2. ASSUME NEW k \in Keys, Awaiting(todo[k])' PROVE registry'[k] = todo'[k]
    <3>1. Awaiting(todo[k])
      BY <2>2, StillWaits DEF Awaiting
    <3>2. registry[k] = todo[k] /\ Named(k, todo[k]) /\ todo[k] \notin disowned
      BY <3>1 DEF PageRegistered, Named, Awaiting
    <3>. QED BY <1>6, <3>2
  <2>3. ASSUME NEW o \in ops, Awaiting(o.photo)' PROVE registry'[o.key] = o.photo \/ Undoing(o.photo)'
    <3>1. Awaiting(o.photo) /\ o.key \in Keys
      BY <2>3, StillWaits DEF Awaiting, UploadsTypeOK, OpRecords
    <3>2. registry[o.key] = o.photo \/ Undoing(o.photo)
      BY <3>1 DEF PageRegistered
    <3>3. Named(o.key, o.photo) /\ o.photo \notin disowned
      BY <3>1 DEF Named, Awaiting
    <3>4. Undoing(o.photo) => Undoing(o.photo)'
      BY DEF Undoing
    <3>. QED BY <1>6, <3>1, <3>2, <3>3, <3>4
  <2>. QED BY <2>1, <2>2, <2>3 DEF PageRegistered, Awaiting, Undoing
<1>9. WaitingKnown'
  <2>. SUFFICES ASSUME NEW p \in Photos, Awaiting(p)'
       PROVE  (\E k \in Keys : registry'[k] = p) \/ Answered(p)' \/ Undoing(p)'
    BY DEF WaitingKnown
  <2>1. Awaiting(p)
    BY StillWaits DEF Awaiting
  <2>2. CASE \E k \in Keys : registry[k] = p
    BY <1>6, <2>1, <2>2 DEF Named, Awaiting
  <2>3. CASE Answered(p)
    BY <2>3, AnsweredKept DEF Answered
  <2>4. CASE Undoing(p)
    BY <2>4 DEF Undoing
  <2>. QED BY <2>1, <2>2, <2>3, <2>4 DEF WaitingKnown
<1>10. RowsOK' /\ TargetsOK' /\ NewPhotosOK' /\ HeldPhotos' /\ CopiesOK' /\ ReadyDone'
  BY RowsKept, TargetsKept, NewPhotosKept, HeldPhotosKept, CopiesKept, ReadyKept
<1>11. NamedRows' /\ NamesAgree'
  BY <1>5, NamesKept
<1>. QED BY <1>3, <1>4, <1>7, <1>8, <1>9, <1>10, <1>11

-----------------------------------------------------------------------------
(* The steps of a process.                                                 *)

LEMMA RowsSame ==
  ASSUME UploadsTypeOK, UNCHANGED <<row, file>>, disowned \subseteq disowned', disowned' \subseteq Photos,
         added' \in Nat, added <= added'
  PROVE  RowsGo
BY DEF UploadsTypeOK, RowsGo

\* Nothing but one row moved, to a status none is waited for in.
LEMMA RowMoved ==
  ASSUME UploadsTypeOK, file' = file, disowned' = disowned, added' = added,
         NEW p \in Photos, row[p] # "none", NEW st \in {"FAILED", "gone", "PROCESSING", "READY"},
         row' = [row EXCEPT ![p] = st], st \in DoneStatuses => row[p] \in DoneStatuses \/ Completes(p)
  PROVE  RowsGo
<1>1. added \in Nat
  BY UploadConstants DEF UploadsTypeOK
<1>2. row' \in [Photos -> RowStatuses]
  BY DEF UploadsTypeOK, RowStatuses
<1>3. \A q \in Photos : row'[q] = row[q] \/ (q = p /\ row'[q] = st)
  BY DEF UploadsTypeOK
<1>. QED BY <1>1, <1>2, <1>3 DEF UploadsTypeOK, RowsGo

LEMMA QueueSame ==
  ASSUME UploadsInv, UNCHANGED queueVars, added' \in Nat, added <= added'
  PROVE  Quiet
<1>1. \A s \in Slots : GoesOn(slot[s], slot[s], items, added')
  BY SlotsGoOn DEF UploadsInv
<1>. QED BY <1>1 DEF Quiet, queueVars, UploadsInv, UploadsTypeOK, RowsOK

\* A process is at its next await, and its item keeps photo and status.
LEMMA SlotQuiet ==
  ASSUME UploadsInv, NEW s \in Slots, NEW b, GoesOn(slot[s], b, items, added),
         slot' = [slot EXCEPT ![s] = b], items' = items, added' = added,
         item' \in [Keys -> ItemRecords],
         \A k \in Keys : item'[k].photo = item[k].photo /\ item'[k].status = item[k].status
  PROVE  Quiet
<1>1. slot' \in [Slots -> SlotRecords] /\ \A t \in Slots : GoesOn(slot[t], slot'[t], items, added)
  BY OneGoesOn DEF UploadsInv
<1>. QED BY <1>1 DEF Quiet, UploadsInv, UploadsTypeOK, RowsOK

LEMMA SenderIs ==
  ASSUME UploadsInv, NEW s \in Slots, slot[s].pc \in Sending
  PROVE  /\ slot[s].key \in Keys /\ slot[s].key <= added /\ Held(slot[s].key, items, slot)
         /\ slot[s].target \in Photos /\ row[slot[s].target] # "none" /\ file[slot[s].target] = slot[s].key
         /\ item[slot[s].key].photo \in Photos
         /\ slot[s].pc \notin {"idle", "initialized"}
BY DEF UploadsInv, UploadsTypeOK, KeysOK, TargetsOK, SlotRecords, ItemRecords, OrNoPhoto, Sending, Held

LEMMA AwaitQuiet ==
  ASSUME UploadsInv, NEW s \in Slots, slot[s].pc \in Sending, NEW pc \in Sending, NEW p,
         p = slot[s].target \/ p = item[slot[s].key].photo,
         Await(s, pc, p), UNCHANGED <<item, items, added>>
  PROVE  Quiet
<1>. DEFINE b == [slot[s] EXCEPT !.pc = pc, !.target = p]
<1>1. slot' = [slot EXCEPT ![s] = b]
  BY Zenon DEF Await
<1>2. slot[s] \in SlotRecords
  BY DEF UploadsInv, UploadsTypeOK
<1>3. b \in SlotRecords /\ b.pc = pc /\ b.target = p /\ b.key = slot[s].key
  BY <1>2, SenderIs DEF SlotRecords, OrNoPhoto
<1>. HIDE DEF b
<1>4. GoesOn(slot[s], b, items, added)
  BY <1>3, SenderIs, UploadConstants DEF GoesOn, Sending, Empty
<1>. QED BY <1>1, <1>4, SlotQuiet DEF UploadsInv, UploadsTypeOK

LEMMA ProcessDone ==
  ASSUME UploadsInv, NEW s \in Slots, slot[s].key \in Keys, Quiet, RowsGo, items' = items,
         PersistsHeld(slot[s].key), UNCHANGED <<pageVars, ops>>
  PROVE  UploadsInv'
<1>1. Held(slot[s].key, items, slot)
  BY DEF Held
<1>2. UNCHANGED <<added, departed, mounted, restored, todo, ops>>
  BY DEF pageVars
<1>. QED BY <1>1, <1>2, ProcessKeeps DEF PersistsHeld

\* A process whose requests leave the rows alone.
LEMMA SenderDone ==
  ASSUME UploadsInv, NEW s \in Slots, slot[s].pc \in Sending, Quiet, items' = items,
         PersistsHeld(slot[s].key), UNCHANGED <<pageVars, ops, row, file, disowned>>
  PROVE  UploadsInv'
<1>1. added' = added /\ added \in Nat /\ disowned \subseteq Photos /\ UploadsTypeOK
  BY UploadConstants DEF pageVars, UploadsInv, UploadsTypeOK
<1>2. RowsGo
  BY <1>1, RowsSame
<1>. QED BY <1>2, SenderIs, ProcessDone

LEMMA SenderFails ==
  ASSUME UploadsInv, NEW s \in Slots, slot[s].pc \in Sending, NEW why, Fail(s, why),
         UNCHANGED <<pageVars, ops, row, file, disowned>>
  PROVE  UploadsInv'
<1>1. added' = added
  BY DEF pageVars
<1>2. Quiet /\ items' = items /\ PersistsHeld(slot[s].key)
  BY <1>1, SenderIs, FailQuiet DEF UploadsInv
<1>. QED BY <1>2, SenderDone

LEMMA SenderGoesOn ==
  ASSUME UploadsInv, NEW s \in Slots, slot[s].pc \in Sending, NEW pc \in Sending, NEW p,
         p = slot[s].target \/ p = item[slot[s].key].photo, Await(s, pc, p),
         UNCHANGED <<item, items, registry, pageVars, ops, row, file, disowned>>
  PROVE  UploadsInv'
<1>1. UNCHANGED <<item, items, added>>
  BY DEF pageVars
<1>2. Quiet
  BY <1>1, AwaitQuiet
<1>. QED BY <1>2, SenderDone DEF PersistsHeld

LEMMA InitializeFailsStep ==
  ASSUME UploadsInv, NEW s \in Slots, InitializeFails(s)
  PROVE  UploadsInv'
<1>1. PICK why \in {"retry", "fatal"} : Fail(s, why)
  BY DEF InitializeFails
<1>2. slot[s].pc = "initialize" /\ UNCHANGED <<pageVars, ops>> /\ added' = added
  BY DEF InitializeFails, pageVars
<1>3. Quiet /\ items' = items /\ slot[s].key \in Keys /\ PersistsHeld(slot[s].key)
  BY <1>1, <1>2, FailQuiet DEF UploadsInv
<1>4. UploadsTypeOK /\ added \in Nat /\ slot[s].key \in 1..added
  BY <1>3, UploadConstants DEF UploadsInv, UploadsTypeOK, KeysOK
<1>5. RowsGo
  <2>1. CASE UNCHANGED <<serverVars, disowned>>
    <3>1. UNCHANGED <<row, file>> /\ disowned' = disowned /\ disowned \subseteq Photos
      BY <2>1, <1>4 DEF serverVars, UploadsTypeOK
    <3>. QED BY <1>2, <1>4, <3>1, RowsSame
  <2>2. CASE /\ \E p \in Photos : row[p] = "none"
             /\ InsertRow(Fresh, slot[s].key) /\ disowned' = disowned \cup {Fresh}
    <3>. DEFINE f == Fresh
    <3>1. f \in Photos /\ row[f] = "none"
      BY <2>2, FreshRow
    <3>2. /\ row' = [row EXCEPT ![f] = "UPLOADING"] /\ file' = [file EXCEPT ![f] = slot[s].key]
          /\ disowned' = disowned \cup {f}
      BY <2>2 DEF InsertRow
    <3>. HIDE DEF f
    <3>3. row' \in [Photos -> RowStatuses] /\ file' \in [Photos -> Keys \cup {0}]
      BY <1>3, <1>4, <3>2 DEF UploadsTypeOK, RowStatuses
    <3>4. \A p \in Photos : \/ p # f /\ row'[p] = row[p] /\ file'[p] = file[p]
                            \/ p = f /\ row'[p] = "UPLOADING" /\ file'[p] = slot[s].key
      BY <1>4, <3>1, <3>2 DEF UploadsTypeOK
    <3>5. disowned \subseteq disowned' /\ disowned' \subseteq Photos /\ f \in disowned'
      BY <1>4, <3>1, <3>2 DEF UploadsTypeOK
    <3>. QED BY <1>2, <1>4, <3>1, <3>3, <3>4, <3>5 DEF RowsGo, DoneStatuses
  <2>. QED BY <2>1, <2>2, Zenon DEF InitializeFails
<1>. QED BY <1>2, <1>3, <1>5, ProcessDone

LEMMA SendingIs ==
  {"presign", "put", "partUrls", "parts", "join", "complete", "completed"} \subseteq Sending
BY DEF Sending

LEMMA RequestLostStep ==
  ASSUME UploadsInv, NEW s \in Slots, RequestLost(s)
  PROVE  UploadsInv'
<1>1. slot[s].pc \in Sending /\ Fail(s, "retry")
      /\ UNCHANGED <<pageVars, ops, row, file, disowned>>
  BY DEF RequestLost, Sending, serverVars
<1>. QED BY <1>1, SenderFails

LEMMA RePresignStep ==
  ASSUME UploadsInv, NEW s \in Slots, RePresign(s)
  PROVE  UploadsInv'
<1>1. slot[s].pc \in Sending /\ UNCHANGED <<pageVars, ops, row, file, disowned>>
  BY DEF RePresign, Sending, serverVars
<1>2. CASE Fail(s, "fatal")
  BY <1>1, <1>2, SenderFails
<1>3. CASE Await(s, "put", slot[s].target) /\ UNCHANGED <<item, items, controller, registry>>
  BY <1>1, <1>3, SenderGoesOn, SendingIs
<1>. QED BY <1>2, <1>3, Zenon DEF RePresign

LEMMA PutStep ==
  ASSUME UploadsInv, NEW s \in Slots, Put(s)
  PROVE  UploadsInv'
<1>1. slot[s].pc \in Sending /\ UNCHANGED <<pageVars, ops, row, file, disowned>>
  BY DEF Put, Sending
<1>2. CASE Fail(s, "retry")
  BY <1>1, <1>2, SenderFails
<1>3. CASE Await(s, "complete", item[slot[s].key].photo) /\ UNCHANGED <<item, items, controller, registry, troubles>>
  BY <1>1, <1>3, SenderGoesOn, SendingIs
<1>. QED BY <1>2, <1>3, Zenon DEF Put

LEMMA PartUrlsStep ==
  ASSUME UploadsInv, NEW s \in Slots, PartUrls(s)
  PROVE  UploadsInv'
<1>1. slot[s].pc \in Sending /\ UNCHANGED <<pageVars, ops, row, file, disowned>>
  BY DEF PartUrls, Sending, serverVars
<1>2. CASE Fail(s, "fatal")
  BY <1>1, <1>2, SenderFails
<1>3. CASE Await(s, "parts", slot[s].target) /\ UNCHANGED <<item, items, controller, registry>>
  BY <1>1, <1>3, SenderGoesOn, SendingIs
<1>. QED BY <1>2, <1>3, Zenon DEF PartUrls

LEMMA PutPartStep ==
  ASSUME UploadsInv, NEW s \in Slots, PutPart(s)
  PROVE  UploadsInv'
<1>. DEFINE PartSettled(n, e) == slot' = [slot EXCEPT ![s].parts = @ \ {n},
                                              ![s].error = IF @ = "ok" THEN e ELSE @]
            k == slot[s].key
<1>1. slot[s].pc \in Sending /\ UNCHANGED <<items, controller, pageVars, registry, ops, row, object, file, disowned>>
  BY DEF PutPart, Sending
<1>2. PICK n \in slot[s].parts, e \in {"ok", "fatal", "retry"} :
         PartSettled(n, e) /\ (item' = item \/ item' = [item EXCEPT ![k].parts = @ \cup {n}])
  BY DEF PutPart
<1>3. slot[s] \in SlotRecords /\ item \in [Keys -> ItemRecords] /\ k \in Keys
  BY <1>1, SenderIs DEF UploadsInv, UploadsTypeOK
<1>. DEFINE err == IF slot[s].error = "ok" THEN e ELSE slot[s].error
            ps == slot[s].parts \ {n}
            b == [slot[s] EXCEPT !.parts = ps, !.error = err]
<1>4. slot' = [slot EXCEPT ![s] = b]
  BY <1>2, Zenon
<1>5. err \in Answers \cup {"abort"} /\ ps \in SUBSET Int /\ n \in Int
  BY <1>3 DEF SlotRecords, Answers
<1>. HIDE DEF err, ps
<1>6. b \in SlotRecords /\ b.pc = slot[s].pc /\ b.target = slot[s].target /\ b.key = slot[s].key
  BY <1>3, <1>5 DEF SlotRecords
<1>. HIDE DEF b
<1>7. GoesOn(slot[s], b, items, added)
  BY <1>1, <1>6, SenderIs, UploadConstants DEF GoesOn, Sending, Empty
<1>8. /\ item' \in [Keys -> ItemRecords]
      /\ \A j \in Keys : item'[j].photo = item[j].photo /\ item'[j].status = item[j].status
  BY <1>2, <1>3, <1>5 DEF ItemRecords
<1>9. Quiet
  BY <1>1, <1>4, <1>7, <1>8, SlotQuiet DEF pageVars
<1>. QED BY <1>1, <1>9, SenderDone DEF PersistsHeld

LEMMA PoolSettledStep ==
  ASSUME UploadsInv, NEW s \in Slots, PoolSettled(s)
  PROVE  UploadsInv'
<1>1. slot[s].pc \in Sending /\ UNCHANGED <<pageVars, ops, row, file, disowned>>
  BY DEF PoolSettled, Sending, serverVars
<1>2. CASE Fail(s, slot[s].error)
  BY <1>1, <1>2, SenderFails
<1>3. CASE Await(s, "join", slot[s].target) /\ UNCHANGED <<item, items, controller, registry>>
  BY <1>1, <1>3, SenderGoesOn, SendingIs
<1>. QED BY <1>2, <1>3, Zenon DEF PoolSettled

LEMMA CompleteMultipartStep ==
  ASSUME UploadsInv, NEW s \in Slots, CompleteMultipart(s)
  PROVE  UploadsInv'
<1>1. slot[s].pc \in Sending /\ UNCHANGED <<pageVars, ops, row, file, disowned>>
  BY DEF CompleteMultipart, Sending
<1>2. CASE \E why \in {"retry", "fatal"} : Fail(s, why)
  BY <1>1, <1>2, SenderFails
<1>3. CASE Await(s, "complete", item[slot[s].key].photo) /\ UNCHANGED <<item, items, controller, registry, troubles>>
  BY <1>1, <1>3, SenderGoesOn, SendingIs
<1>. QED BY <1>2, <1>3, Zenon DEF CompleteMultipart

LEMMA CompleteStep ==
  ASSUME UploadsInv, NEW s \in Slots, Complete(s)
  PROVE  UploadsInv'
<1>. DEFINE p == slot[s].target
            done == row[p] \in {"PROCESSING", "READY"} \/ (row[p] # "gone" /\ object[p] = "stored")
<1>1. slot[s].pc = "complete" /\ slot[s].pc \in Sending
      /\ UNCHANGED <<item, items, controller, pageVars, registry, ops, object, part, file, disowned>>
  BY DEF Complete, Sending
<1>2. PICK e \in Answers : slot' = [slot EXCEPT ![s].pc = "completed", ![s].error = e]
  BY DEF Complete, Answers
<1>3. row' = row \/ (row[p] = "UPLOADING" /\ row' = [row EXCEPT ![p] = "PROCESSING"])
  BY DEF Complete
<1>4. slot[s] \in SlotRecords /\ item \in [Keys -> ItemRecords] /\ UploadsTypeOK /\ added \in Nat /\ disowned \subseteq Photos
  BY UploadConstants DEF UploadsInv, UploadsTypeOK
<1>5. added' = added
  BY <1>1 DEF pageVars
<1>. DEFINE b == [slot[s] EXCEPT !.pc = "completed", !.error = e]
<1>6. slot' = [slot EXCEPT ![s] = b]
  BY <1>2, Zenon
<1>7. b \in SlotRecords /\ b.pc = "completed" /\ b.target = slot[s].target /\ b.key = slot[s].key
  BY <1>4, SendingIs DEF SlotRecords
<1>. HIDE DEF b
<1>8. GoesOn(slot[s], b, items, added)
  BY <1>1, <1>7, SenderIs, UploadConstants DEF GoesOn, Sending, Empty
<1>9. Quiet
  BY <1>1, <1>4, <1>5, <1>6, <1>8, SlotQuiet
<1>10. RowsGo
  <2>1. CASE row' = row
    BY <1>1, <1>4, <1>5, <2>1, RowsSame
  <2>2. CASE row[p] = "UPLOADING" /\ row' = [row EXCEPT ![p] = "PROCESSING"]
    <3>1. Completes(p) /\ p \in Photos /\ row[p] # "none"
      BY <1>1, SenderIs DEF Completes
    <3>. HIDE DEF p
    <3>. QED BY <1>1, <1>4, <1>5, <2>2, <3>1, RowMoved
  <2>. QED BY <1>3, <2>1, <2>2
<1>. QED BY <1>1, <1>9, <1>10, SenderIs, ProcessDone DEF PersistsHeld

LEMMA CompletedStep ==
  ASSUME UploadsInv, NEW s \in Slots, Completed(s)
  PROVE  UploadsInv'
<1>. DEFINE k == slot[s].key
            it == [item EXCEPT ![k].status = "processing"]
<1>1. slot[s].pc \in Sending /\ UNCHANGED <<pageVars, ops, row, file, disowned>> /\ added' = added
  BY DEF Completed, Sending, serverVars, pageVars
<1>2. CASE Fail(s, slot[s].error)
  BY <1>1, <1>2, SenderFails
<1>3. CASE Return(s, it, [controller EXCEPT ![k] = NoSlot]) /\ Persist(k, item[k].photo)
  <2>1. k \in Keys /\ item[k].photo \in Photos /\ slot[s].pc # "initialized"
    BY <1>1, SenderIs
  <2>. HIDE DEF k
  <2>2. Rewrites(it, items)
    <3>1. /\ item \in [Keys -> ItemRecords] /\ items \subseteq Keys
          /\ \A j \in Keys : item[j].status \in {"processing", "ready"} => item[j].photo # NoPhoto
      BY DEF UploadsInv, UploadsTypeOK, RowsOK
    <3>2. /\ it \in [Keys -> ItemRecords]
          /\ \A j \in Keys : it[j].photo = item[j].photo
          /\ \A j \in Keys : it[j].status = item[j].status \/ (j = k /\ it[j].status = "processing")
      BY <2>1, <3>1 DEF ItemRecords, Statuses
    <3>. HIDE DEF it
    <3>. QED BY <2>1, <3>1, <3>2, UploadConstants DEF Rewrites
  <2>. HIDE DEF it
  <2>3. Quiet /\ items' = items
    BY <1>1, <1>3, <2>1, <2>2, ReturnQuiet DEF UploadsInv
  <2>. QED BY <1>1, <1>3, <2>3, SenderDone DEF PersistsHeld, k
<1>. QED BY <1>2, <1>3, Zenon DEF Completed

LEMMA SleptStep ==
  ASSUME UploadsInv, NEW s \in Slots, Slept(s)
  PROVE  UploadsInv'
<1>. DEFINE k == slot[s].key
            it == [item EXCEPT ![k].status = "uploading"]
<1>1. slot[s].pc = "sleep" /\ UNCHANGED <<pageVars, registry, ops, row, file, disowned>> /\ added' = added
  BY DEF Slept, serverVars, pageVars
<1>2. UploadsTypeOK /\ added \in Nat /\ disowned \subseteq Photos /\ items \subseteq Keys
      /\ k \in Keys /\ k <= added /\ item \in [Keys -> ItemRecords]
  BY <1>1, UploadConstants DEF UploadsInv, UploadsTypeOK, KeysOK, SlotRecords
<1>3. RowsGo
  BY <1>1, <1>2, RowsSame
<1>4. CASE Return(s, item, controller)
  <2>1. Rewrites(item, items)
    BY <1>2, ItemRewrites DEF UploadsInv
  <2>2. Quiet /\ items' = items
    BY <1>1, <1>4, <2>1, ReturnQuiet DEF UploadsInv
  <2>. QED BY <1>1, <1>2, <1>3, <2>2, ProcessDone DEF PersistsHeld
<1>5. CASE Unpumped(it, items, [slot EXCEPT ![s] = Attempt(k, item)], [controller EXCEPT ![k] = s])
  <2>. DEFINE b == Attempt(k, item)
              sl == [slot EXCEPT ![s] = b]
  <2>1. Rewrites(it, items)
    BY <1>2, ItemRewrites DEF UploadsInv
  <2>2. AttemptAt(b, k, item[k].photo)
    BY <1>2, AttemptIs
  <2>. HIDE DEF b, it
  <2>3. GoesOn(slot[s], b, items, added)
    BY <1>1, <1>2, <2>2, UploadConstants DEF GoesOn, AttemptAt, Sending, Empty
  <2>4. sl \in [Slots -> SlotRecords] /\ \A t \in Slots : GoesOn(slot[t], sl[t], items, added')
    BY <1>1, <2>3, OneGoesOn DEF UploadsInv
  <2>5. items' = items
    BY <1>5 DEF Unpumped
  <2>6. \A j \in items : j \in items \/ j > added
    OBVIOUS
  <2>7. Unpumped(it, items, sl, [controller EXCEPT ![k] = s])
    BY <1>5 DEF b, it
  <2>. HIDE DEF sl
  <2>8. Quiet
    BY <1>2, <2>1, <2>4, <2>6, <2>7, UnpumpedQuiet
  <2>. QED BY <1>1, <1>2, <1>3, <2>5, <2>8, ProcessDone DEF PersistsHeld
<1>. QED BY <1>4, <1>5, Zenon DEF Slept

-----------------------------------------------------------------------------
(* Steps of the list, the server and the user that leave registry, page    *)
(* and requests alone.                                                     *)

LEMMA NothingSaid ==
  ASSUME UploadsInv, Quiet, RowsGo, items' = items, UNCHANGED <<pageVars, registry, ops>>
  PROVE  UploadsInv'
<1>1. UNCHANGED <<added, departed, mounted, restored, todo, ops>> /\ registry' = registry
  BY DEF pageVars
<1>. QED BY <1>1, ProcessKeeps

LEMMA RetryStep ==
  ASSUME UploadsInv, NEW k \in Keys, Retry(k)
  PROVE  UploadsInv'
<1>. DEFINE it == [item EXCEPT ![k].status = "queued", ![k].attempts = 0]
<1>1. Pump(it, items, slot, controller) /\ UNCHANGED <<pageVars, registry, ops, row, file, disowned>> /\ added' = added
  BY DEF Retry, serverVars, pageVars
<1>2. /\ UploadsTypeOK /\ added \in Nat /\ disowned \subseteq Photos /\ items \subseteq Keys
      /\ item \in [Keys -> ItemRecords] /\ slot \in [Slots -> SlotRecords]
      /\ \A j \in items : j <= added
  BY UploadConstants DEF UploadsInv, UploadsTypeOK, KeysOK
<1>3. Rewrites(it, items)
  BY ItemRewrites DEF UploadsInv
<1>4. \A s \in Slots : GoesOn(slot[s], slot[s], items, added')
  BY <1>1, <1>2, SlotsGoOn DEF UploadsInv
<1>5. \A j \in items : j \in items \/ j > added
  OBVIOUS
<1>. HIDE DEF it
<1>6. Quiet /\ items' = items
  <2>1. items' = items
    BY <1>1 DEF Pump, Unpumped
  <2>. QED BY <1>1, <1>2, <1>3, <1>4, <1>5, <2>1, PumpQuiet
<1>7. RowsGo
  BY <1>1, <1>2, RowsSame
<1>. QED BY <1>1, <1>6, <1>7, NothingSaid

LEMMA ApplyPhotoStatusesStep ==
  ASSUME UploadsInv, ApplyPhotoStatuses
  PROVE  UploadsInv'
<1>1. /\ item' = [k \in Keys |-> SettledItem(k)] /\ items' = items /\ slot' = slot
      /\ UNCHANGED <<pageVars, registry, ops, row, file, disowned>> /\ added' = added
  BY DEF ApplyPhotoStatuses, serverVars, pageVars
<1>2. /\ UploadsTypeOK /\ added \in Nat /\ disowned \subseteq Photos /\ items \subseteq Keys
      /\ item \in [Keys -> ItemRecords] /\ slot \in [Slots -> SlotRecords]
      /\ \A k \in Keys : item[k].status \in {"processing", "ready"} => item[k].photo # NoPhoto
  BY UploadConstants DEF UploadsInv, UploadsTypeOK, RowsOK
<1>3. \A s \in Slots : GoesOn(slot[s], slot[s], items, added)
  BY <1>1, <1>2, SlotsGoOn DEF UploadsInv
<1>4. ASSUME NEW k \in Keys
      PROVE  /\ item'[k] \in ItemRecords /\ item'[k].photo = item[k].photo
             /\ item'[k].status \in {"processing", "ready"} => item'[k].photo # NoPhoto
             /\ item'[k].status = "ready" => item[k].status = "ready" \/ row'[item[k].photo] \in {"READY", "FAILED"}
  <2>1. item'[k] = SettledItem(k) /\ item[k] \in ItemRecords
    BY <1>1, <1>2
  <2>2. CASE k \in items /\ item[k].status = "processing" /\ row[item[k].photo] \in {"READY", "FAILED"}
    <3>. DEFINE st == IF row[item[k].photo] = "READY" THEN "ready" ELSE "failed"
    <3>1. SettledItem(k) = [item[k] EXCEPT !.status = st]
      BY <2>2, Zenon DEF SettledItem
    <3>2. st \in {"ready", "failed"}
      OBVIOUS
    <3>. HIDE DEF st
    <3>3. item'[k] \in ItemRecords /\ item'[k].photo = item[k].photo
      BY <2>1, <3>1, <3>2 DEF ItemRecords, Statuses
    <3>. QED BY <1>1, <1>2, <2>2, <3>3
  <2>3. CASE ~(k \in items /\ item[k].status = "processing" /\ row[item[k].photo] \in {"READY", "FAILED"})
    <3>1. SettledItem(k) = item[k]
      BY <2>3, Zenon DEF SettledItem
    <3>. QED BY <1>2, <2>1, <3>1
  <2>. QED BY <2>2, <2>3
<1>5. item' \in [Keys -> ItemRecords]
  BY <1>1, <1>4
<1>6. Quiet
  BY <1>1, <1>2, <1>3, <1>4, <1>5 DEF Quiet
<1>7. RowsGo
  BY <1>1, <1>2, RowsSame
<1>. QED BY <1>1, <1>6, <1>7, NothingSaid

LEMMA RowStep ==
  ASSUME UploadsInv, NEW p \in Photos, row[p] # "none", NEW st \in {"FAILED", "gone", "READY"},
         st = "READY" => row[p] \in DoneStatuses, row' = [row EXCEPT ![p] = st],
         UNCHANGED <<queueVars, pageVars, registry, ops, object, part, file, disowned>>
  PROVE  UploadsInv'
<1>1. UploadsTypeOK /\ added \in Nat /\ added' = added /\ items' = items
  BY UploadConstants DEF UploadsInv, UploadsTypeOK, pageVars, queueVars
<1>2. Quiet
  BY <1>1, QueueSame
<1>3. RowsGo
  BY <1>1, RowMoved DEF DoneStatuses
<1>. QED BY <1>1, <1>2, <1>3, NothingSaid

LEMMA ServerStep ==
  ASSUME UploadsInv, NEW p \in Photos, ProcessPhoto(p) \/ FailStaleUploads(p) \/ DeletePhoto(p)
  PROVE  UploadsInv'
<1>1. PICK st \in {"FAILED", "gone", "READY"} :
          /\ row' = [row EXCEPT ![p] = st] /\ row[p] # "none"
          /\ st = "READY" => row[p] \in DoneStatuses
  BY DEF ProcessPhoto, FailStaleUploads, DeletePhoto, DoneStatuses
<1>2. UNCHANGED <<queueVars, pageVars, registry, ops, object, part, file, disowned>>
  BY Zenon DEF ProcessPhoto, FailStaleUploads, DeletePhoto
<1>. QED BY <1>1, <1>2, RowStep

-----------------------------------------------------------------------------
(* What the user, the page and the answers to the user's requests do.      *)

\* The entries of F are forgotten: what they name no longer waits, or is
\* being undone.
LEMMA BrowserKeeps ==
  ASSUME UploadsInv, Quiet, RowsGo, OldNames, UploadsTypeOK', KeysOK',
         NEW F \in SUBSET Keys, \A k \in Keys : registry'[k] = IF k \in F THEN NoEntry ELSE registry[k],
         items' \cap F = {},
         \A k \in F, p \in Photos : registry[k] = p /\ Awaiting(p)' => Undoing(p)',
         \A k \in Keys, p \in Photos : p \in {restored'[k], todo'[k]} /\ Awaiting(p)' => k \notin F /\ registry[k] = p,
         \A o \in ops' : o \notin ops /\ Awaiting(o.photo)' => registry'[o.key] = o.photo \/ Undoing(o.photo)',
         \A p \in Photos : Undoing(p) /\ Awaiting(p)' => Undoing(p)'
  PROVE  UploadsInv'
<1>. USE DEF UploadsInv
<1>1. RowsOK' /\ TargetsOK' /\ NewPhotosOK' /\ HeldPhotos' /\ CopiesOK' /\ ReadyDone'
  BY RowsKept, TargetsKept, NewPhotosKept, HeldPhotosKept, CopiesKept, ReadyKept
<1>2. NamedRows' /\ NamesAgree'
  BY NamesKept
<1>3. ItemsRegistered'
  <2>. SUFFICES ASSUME NEW k \in items', item'[k].photo # NoPhoto PROVE registry'[k] = item'[k].photo
    BY DEF ItemsRegistered
  <2>1. k \in Keys /\ Held(k, items', slot') /\ k \notin F /\ (k \in items \/ k > added)
    BY DEF Quiet, Held
  <2>2. item'[k].photo = item[k].photo
    BY <2>1, StillHeld
  <2>3. k \in items
    BY <2>1, <2>2 DEF KeysOK
  <2>. QED BY <2>1, <2>2, <2>3 DEF ItemsRegistered
<1>4. PageRegistered'
  <2>1. ASSUME NEW k \in Keys, NEW p \in {restored'[k], todo'[k]}, Awaiting(p)' PROVE registry'[k] = p
    BY <2>1 DEF Awaiting
  <2>2. ASSUME NEW o \in ops', Awaiting(o.photo)' PROVE registry'[o.key] = o.photo \/ Undoing(o.photo)'
    <3>1. CASE o \in ops
      <4>. DEFINE p == o.photo
      <4>1. Awaiting(p) /\ p \in Photos /\ o.key \in Keys /\ Named(o.key, p)
        BY <2>2, <3>1, StillWaits DEF Awaiting, UploadsTypeOK, OpRecords, Named
      <4>2. registry[o.key] = p \/ Undoing(p)
        BY <3>1, <4>1 DEF PageRegistered
      <4>3. Awaiting(p)'
        BY <2>2
      <4>. HIDE DEF p
      <4>4. registry'[o.key] = p \/ Undoing(p)'
        BY <4>1, <4>2, <4>3
      <4>. QED BY <4>4 DEF p
    <3>. QED BY <2>2, <3>1
  <2>. QED BY <2>1, <2>2 DEF PageRegistered, Awaiting, Undoing
<1>5. WaitingKnown'
  <2>. SUFFICES ASSUME NEW p \in Photos, Awaiting(p)'
       PROVE  (\E k \in Keys : registry'[k] = p) \/ Answered(p)' \/ Undoing(p)'
    BY DEF WaitingKnown
  <2>1. Awaiting(p)
    BY StillWaits DEF Awaiting
  <2>2. CASE \E k \in Keys : registry[k] = p
    <3>1. PICK k \in Keys : registry[k] = p
      BY <2>2
    <3>. QED BY <2>1, <3>1 DEF Awaiting
  <2>3. CASE Answered(p)
    BY <2>3, AnsweredKept DEF Answered
  <2>. QED BY <2>1, <2>2, <2>3 DEF WaitingKnown
<1>. QED BY <1>1, <1>2, <1>3, <1>4, <1>5

\* The same while the page stays: a row may leave it.
LEMMA PageKeeps ==
  ASSUME UploadsInv, Quiet, RowsGo, UNCHANGED <<added, departed, mounted, todo>>,
         restored' \in [Keys -> OrNoPhoto], \A k \in Keys : restored'[k] \in {restored[k], NoPhoto},
         \A o \in ops' : o \in ops \/ (o \in OpRecords /\ o.key <= added /\ Named(o.key, o.photo)),
         NEW F \in SUBSET Keys, registry' = [k \in Keys |-> IF k \in F THEN NoEntry ELSE registry[k]],
         items' \subseteq items, items' \cap F = {},
         \A k \in F, p \in Photos : Named(k, p) /\ Awaiting(p)' => Undoing(p)',
         \A k \in F, p \in Photos : p \in {restored'[k], todo[k]} => ~Awaiting(p)',
         \A o \in ops' : o \notin ops /\ Awaiting(o.photo)' => registry'[o.key] = o.photo \/ Undoing(o.photo)',
         \A p \in Photos : Undoing(p) /\ Awaiting(p)' => Undoing(p)'
  PROVE  UploadsInv'
<1>1. \A k \in Keys : registry'[k] = IF k \in F THEN NoEntry ELSE registry[k]
  OBVIOUS
<1>2. UploadsTypeOK'
  <2>1. registry' \in [Keys -> Entries]
    BY DEF UploadsInv, UploadsTypeOK, Entries
  <2>2. ops' \subseteq OpRecords
    BY DEF UploadsInv, UploadsTypeOK
  <2>. QED BY <2>1, <2>2 DEF UploadsInv, UploadsTypeOK, Quiet, RowsGo
<1>3. KeysOK'
  <2>1. \A s \in Slots : slot'[s].key <= added' /\ (slot'[s].pc = "idle" <=> slot'[s].key = 0)
    BY DEF Quiet, GoesOn
  <2>2. \A k \in Keys : k > added => item'[k].photo = NoPhoto /\ registry'[k] = NoEntry
    BY <1>1 DEF Quiet, UploadsInv, KeysOK
  <2>3. \A o \in ops' : o.key <= added'
    BY DEF UploadsInv, KeysOK
  <2>. QED BY <2>1, <2>2, <2>3 DEF UploadsInv, KeysOK
<1>4. OldNames
  <2>1. \A k \in Keys, p \in Photos : p \in {registry'[k], todo'[k], restored'[k]} => Named(k, p)
    BY <1>1, UploadConstants DEF Named
  <2>2. \A o \in ops' : Named(o.key, o.photo)
    BY DEF UploadsInv, UploadsTypeOK, OpRecords, Named
  <2>. QED BY <1>2, <2>1, <2>2 DEF OldNames, UploadsTypeOK
<1>5. ASSUME NEW k \in Keys, NEW p \in Photos, p \in {restored'[k], todo'[k]}, Awaiting(p)'
      PROVE  k \notin F /\ registry[k] = p
  <2>1. k \notin F /\ p \in {restored[k], todo[k]}
    BY <1>5, UploadConstants
  <2>2. Awaiting(p)
    BY <1>5, StillWaits DEF Awaiting
  <2>. QED BY <2>1, <2>2 DEF UploadsInv, PageRegistered
<1>6. \A k \in F, p \in Photos : registry[k] = p /\ Awaiting(p)' => Undoing(p)'
  BY DEF Named
<1>7. OldNames /\ UploadsTypeOK' /\ KeysOK' /\ items' \cap F = {}
  BY <1>2, <1>3, <1>4
<1>. HIDE DEF UploadsInv
<1>. QED BY <1>1, <1>5, <1>6, <1>7, BrowserKeeps

\* abort() leaves a process with its photo.
LEMMA AbortGoesOn ==
  ASSUME UploadsInv, NEW s \in Slots, NEW in, NEW n \in Nat, added <= n
  PROVE  GoesOn(slot[s], Abort(s), in, n)
<1>1. GoesOn(slot[s], slot[s], in, n)
  BY SlotsGoOn DEF UploadsInv
<1>2. CASE slot[s].pc = "put" \/ (slot[s].pc = "parts" /\ slot[s].parts # {})
  <2>. DEFINE err == IF slot[s].error = "ok" THEN "abort" ELSE slot[s].error
              b == [slot[s] EXCEPT !.pc = "parts", !.parts = {}, !.error = err]
  <2>1. Abort(s) = b
    BY <1>2, Zenon DEF Abort
  <2>2. slot[s] \in SlotRecords /\ slot[s].pc \in Sending
    BY <1>2, SendingIs DEF UploadsInv, UploadsTypeOK
  <2>3. err \in Answers \cup {"abort"}
    BY <2>2 DEF SlotRecords
  <2>. HIDE DEF err
  <2>4. b \in SlotRecords /\ b.pc = "parts" /\ b.key = slot[s].key /\ b.target = slot[s].target
    BY <2>2, <2>3, SendingIs DEF SlotRecords
  <2>. HIDE DEF b
  <2>5. GoesOn(slot[s], b, in, n)
    BY <1>1, <2>2, <2>4, SenderIs, UploadConstants DEF GoesOn, Sending, Empty
  <2>. QED BY <2>1, <2>5
<1>3. CASE ~(slot[s].pc = "put" \/ (slot[s].pc = "parts" /\ slot[s].parts # {}))
  <2>1. Abort(s) = slot[s]
    BY <1>3, Zenon DEF Abort
  <2>. QED BY <1>1, <2>1
<1>. QED BY <1>2, <1>3

\* Items leave the map or are added to it, and PUTs are aborted.
LEMMA DropsQuiet ==
  ASSUME UploadsInv, added' \in Nat, added <= added', NEW in \in SUBSET Keys,
         \A k \in in : k \in items \/ k > added, \A k \in in : k <= added',
         NEW it, Rewrites(it, in), NEW sl, sl = [s \in Slots |-> sl[s]],
         \A s \in Slots : sl[s] = slot[s] \/ sl[s] = Abort(s),
         NEW ct, Unpumped(it, in, sl, ct) \/ Pump(it, in, sl, ct)
  PROVE  Quiet /\ items' = in
<1>1. item \in [Keys -> ItemRecords]
  BY DEF UploadsInv, UploadsTypeOK
<1>2. \A s \in Slots : GoesOn(slot[s], slot[s], in, added')
  BY SlotsGoOn DEF UploadsInv
<1>3. \A s \in Slots : GoesOn(slot[s], sl[s], in, added')
  BY <1>2, AbortGoesOn
<1>4. sl \in [Slots -> SlotRecords]
  <2>1. \A s \in Slots : sl[s] \in SlotRecords
    BY <1>3 DEF GoesOn
  <2>. QED BY <2>1
<1>5. items' = in
  BY DEF Pump, Unpumped
<1>. QED BY <1>1, <1>3, <1>4, <1>5, PumpQuiet, UnpumpedQuiet

\* Items leave the map, or none.
LEMMA DropQuiet ==
  ASSUME UploadsInv, added' = added, NEW in \in SUBSET items, NEW ct,
         Unpumped(item, in, slot, ct) \/ Pump(item, in, slot, ct)
  PROVE  Quiet /\ items' = in
<1>1. /\ added \in Nat /\ in \in SUBSET Keys /\ slot = [s \in Slots |-> slot[s]]
      /\ \A k \in in : k \in items \/ k > added
      /\ \A k \in in : k <= added
  BY UploadConstants DEF UploadsInv, UploadsTypeOK, KeysOK
<1>2. Rewrites(item, in)
  BY DEF Rewrites, UploadsInv, UploadsTypeOK, RowsOK
<1>. QED BY <1>1, <1>2, DropsQuiet

\* A finished photo waits for nothing, whatever its file's entry names.
LEMMA ReadyNames ==
  ASSUME UploadsInv, RowsGo, NEW k \in Ready, NEW p \in Photos, Named(k, p)
  PROVE  ~Awaiting(p)'
<1>. SUFFICES ASSUME Awaiting(p)' PROVE FALSE
  OBVIOUS
<1>1. k \in items /\ k \in Keys /\ item[k].status = "ready" /\ Held(k, items, slot)
  BY DEF Ready, Held, UploadsInv, UploadsTypeOK
<1>2. Awaiting(p) /\ p \notin disowned
  BY StillWaits DEF Awaiting
<1>3. item[k].photo = p
  BY <1>1, <1>2, HeldName DEF UploadsInv
<1>. QED BY <1>1, <1>2, <1>3 DEF UploadsInv, ReadyDone

LEMMA ClearFinishedStep ==
  ASSUME UploadsInv, ClearFinished
  PROVE  UploadsInv'
<1>1. /\ Unpumped(item, items \ Ready, slot, controller) /\ Forget(Ready)
      /\ UNCHANGED <<row, file, disowned, ops>> /\ restored' = restored
      /\ UNCHANGED <<added, departed, mounted, todo>>
  BY DEF ClearFinished, serverVars, pageVars
<1>2. UploadsTypeOK /\ added \in Nat /\ disowned \subseteq Photos /\ Ready \in SUBSET Keys
      /\ restored \in [Keys -> OrNoPhoto]
  <2>1. /\ UploadsTypeOK /\ added \in Nat /\ disowned \subseteq Photos /\ items \subseteq Keys
        /\ restored \in [Keys -> OrNoPhoto]
    BY UploadConstants DEF UploadsInv, UploadsTypeOK
  <2>. QED BY <2>1 DEF Ready
<1>3. RowsGo
  BY <1>1, <1>2, RowsSame
<1>4. Quiet /\ items' = items \ Ready
  BY <1>1, DropQuiet
<1>5. \A k \in Ready, p \in Photos : Named(k, p) => ~Awaiting(p)'
  BY <1>3, ReadyNames
<1>6. \A k \in Ready, p \in Photos : p \in {restored'[k], todo[k]} => ~Awaiting(p)'
  <2>. SUFFICES ASSUME NEW k \in Ready, NEW p \in Photos, p \in {restored[k], todo[k]} PROVE ~Awaiting(p)'
    BY <1>1
  <2>1. Named(k, p)
    BY DEF Named
  <2>. QED BY <1>5, <2>1
<1>7. registry' = [k \in Keys |-> IF k \in Ready THEN NoEntry ELSE registry[k]]
  BY <1>1 DEF Forget
<1>8. \A p \in Photos : Undoing(p) /\ Awaiting(p)' => Undoing(p)'
  BY <1>1 DEF Undoing
<1>9. /\ UNCHANGED <<added, departed, mounted, todo>> /\ restored' \in [Keys -> OrNoPhoto]
      /\ \A k \in Keys : restored'[k] \in {restored[k], NoPhoto}
      /\ items' \subseteq items /\ items' \cap Ready = {}
      /\ \A o \in ops' : o \in ops
  BY <1>1, <1>2, <1>4
<1>. HIDE DEF UploadsInv
<1>. QED BY <1>2, <1>3, <1>4, <1>5, <1>6, <1>7, <1>8, <1>9, PageKeeps

\* The requests that undo a photo name it as its item does.
LEMMA CancelStep ==
  ASSUME UploadsInv, NEW k \in Keys, Cancel(k)
  PROVE  UploadsInv'
<1>. DEFINE aborted == [s \in Slots |-> IF controller[k] = s THEN Abort(s) ELSE slot[s]]
            ct == [controller EXCEPT ![k] = NoSlot]
            p == item[k].photo
            op == [op |-> IF uploadKindFor(k) = "multipart" THEN "abort" ELSE "delete", key |-> k, photo |-> p]
<1>1. /\ k \in items /\ Forget({k})
      /\ UNCHANGED <<row, file, disowned>> /\ restored' = restored
      /\ UNCHANGED <<added, departed, mounted, todo>>
  BY DEF Cancel, RowActions, isActive, serverVars, pageVars
<1>2. \/ p = NoPhoto /\ Pump(item, items \ {k}, aborted, ct) /\ ops' = ops
      \/ p # NoPhoto /\ Unpumped(item, items \ {k}, aborted, ct) /\ ops' = ops \cup {op}
  BY Zenon DEF Cancel
<1>3. /\ UploadsTypeOK /\ added \in Nat /\ disowned \subseteq Photos /\ restored \in [Keys -> OrNoPhoto]
      /\ items \subseteq Keys /\ item \in [Keys -> ItemRecords] /\ p \in OrNoPhoto
      /\ Held(k, items, slot) /\ departed < k /\ k <= added
  BY <1>1, UploadConstants DEF UploadsInv, UploadsTypeOK, KeysOK, ItemRecords, Held
<1>4. RowsGo
  BY <1>1, <1>3, RowsSame
<1>5. Quiet /\ items' = items \ {k}
  <2>. DEFINE in == items \ {k}
  <2>1. in \in SUBSET Keys /\ (\A j \in in : j \in items \/ j > added) /\ (\A j \in in : j <= added')
    BY <1>1, <1>3 DEF UploadsInv, KeysOK
  <2>2. Rewrites(item, in)
    BY <1>3 DEF Rewrites, UploadsInv, RowsOK
  <2>3. aborted = [s \in Slots |-> aborted[s]] /\ \A s \in Slots : aborted[s] = slot[s] \/ aborted[s] = Abort(s)
    OBVIOUS
  <2>4. Unpumped(item, in, aborted, ct) \/ Pump(item, in, aborted, ct)
    BY <1>2
  <2>. HIDE DEF aborted, in
  <2>5. Quiet /\ items' = in
    BY <1>1, <1>3, <2>1, <2>2, <2>3, <2>4, DropsQuiet
  <2>. QED BY <2>5 DEF in
<1>6. op.op \in {"abort", "delete"} /\ op.key = k /\ op.photo = p
  OBVIOUS
<1>7. p # NoPhoto => op \in OpRecords /\ Named(k, p) /\ op \in ops'
  BY <1>2, <1>3 DEF OpRecords, OrNoPhoto, Named
<1>. HIDE DEF op, p, aborted
<1>8. ASSUME NEW q \in Photos, Named(k, q), Awaiting(q)' PROVE Undoing(q)'
  <2>1. Awaiting(q) /\ q \notin disowned
    BY <1>4, <1>8, StillWaits DEF Awaiting
  <2>2. p = q
    BY <1>3, <1>8, <2>1, HeldName DEF UploadsInv, p
  <2>3. p # NoPhoto
    BY <2>2, UploadConstants
  <2>. QED BY <1>6, <1>7, <2>2, <2>3 DEF Undoing
<1>9. \A q \in Photos : q \notin {restored[k], todo[k]}
  BY <1>3, UploadConstants DEF UploadsInv, KeysOK
<1>10. \A o \in ops' : o \in ops \/ (o \in OpRecords /\ o.key <= added /\ Named(o.key, o.photo))
  BY <1>2, <1>3, <1>6, <1>7
<1>11. \A o \in ops' : o \notin ops => Undoing(o.photo)'
  BY <1>2, <1>6, <1>7 DEF Undoing
<1>12. \A q \in Photos : Undoing(q) => Undoing(q)'
  BY <1>2 DEF Undoing
<1>. DEFINE F == {k}
<1>13. /\ F \in SUBSET Keys /\ registry' = [j \in Keys |-> IF j \in F THEN NoEntry ELSE registry[j]]
       /\ items' \subseteq items /\ items' \cap F = {}
       /\ UNCHANGED <<added, departed, mounted, todo>> /\ restored' \in [Keys -> OrNoPhoto]
       /\ \A j \in Keys : restored'[j] \in {restored[j], NoPhoto}
       /\ \A j \in F, q \in Photos : Named(j, q) /\ Awaiting(q)' => Undoing(q)'
       /\ \A j \in F, q \in Photos : q \in {restored'[j], todo[j]} => ~Awaiting(q)'
  BY <1>1, <1>3, <1>5, <1>8, <1>9 DEF Forget
<1>. HIDE DEF F, UploadsInv
<1>. QED BY <1>4, <1>5, <1>10, <1>11, <1>12, <1>13, PageKeeps

\* A request is about a file that was added, and a photo with a row.
LEMMA OpIs ==
  ASSUME UploadsInv, NEW o \in ops
  PROVE  /\ o \in OpRecords /\ o.key \in Keys /\ o.key <= added /\ o.photo \in Photos
         /\ Named(o.key, o.photo) /\ row[o.photo] # "none"
<1>1. o \in OpRecords /\ o.key \in Keys /\ o.key <= added /\ o.photo \in Photos
  BY DEF UploadsInv, UploadsTypeOK, KeysOK, OpRecords
<1>2. Named(o.key, o.photo)
  BY <1>1 DEF Named
<1>. QED BY <1>1, <1>2 DEF UploadsInv, NamedRows

\* Requests come and go, and nothing is forgotten.
LEMMA OpsKeep ==
  ASSUME UploadsInv, Quiet, RowsGo, UNCHANGED <<pageVars, registry>>, items' = items,
         \A o \in ops' : o \in ops \/ (o \in OpRecords /\ o.key <= added /\ Named(o.key, o.photo)),
         \A o \in ops' : o \notin ops /\ Awaiting(o.photo)' => registry[o.key] = o.photo \/ Undoing(o.photo)',
         \A p \in Photos : Undoing(p) /\ Awaiting(p)' => Undoing(p)'
  PROVE  UploadsInv'
<1>. DEFINE F == {}
<1>1. UNCHANGED <<added, departed, mounted, todo>> /\ restored' = restored /\ registry' = registry
  BY DEF pageVars
<1>2. restored' \in [Keys -> OrNoPhoto] /\ registry \in [Keys -> Entries]
  BY <1>1 DEF UploadsInv, UploadsTypeOK
<1>3. /\ F \in SUBSET Keys /\ registry' = [k \in Keys |-> IF k \in F THEN NoEntry ELSE registry[k]]
      /\ items' \subseteq items /\ items' \cap F = {}
      /\ \A k \in Keys : restored'[k] \in {restored[k], NoPhoto}
      /\ \A k \in F, p \in Photos : Named(k, p) /\ Awaiting(p)' => Undoing(p)'
      /\ \A k \in F, p \in Photos : p \in {restored'[k], todo[k]} => ~Awaiting(p)'
      /\ \A o \in ops' : o \notin ops /\ Awaiting(o.photo)' => registry'[o.key] = o.photo \/ Undoing(o.photo)'
  BY <1>1, <1>2
<1>. HIDE DEF F, UploadsInv
<1>. QED BY <1>1, <1>2, <1>3, PageKeeps

LEMMA AbortAnsweredStep ==
  ASSUME UploadsInv, NEW o \in ops, AbortAnswered(o)
  PROVE  UploadsInv'
<1>. DEFINE p == o.photo
            k == o.key
            q == IF Held(k, {}, slot) THEN item[k].photo ELSE p
            d == [op |-> "delete", key |-> k, photo |-> q]
<1>1. /\ o.op = "abort" /\ ops' = (ops \ {o}) \cup {d}
      /\ UNCHANGED <<queueVars, pageVars, registry, file, disowned>> /\ added' = added /\ items' = items
  BY DEF AbortAnswered, pageVars, queueVars
<1>2. row' = row \/ row' = [row EXCEPT ![p] = "FAILED"]
  <2>1. UploadsTypeOK
    BY DEF UploadsInv
  <2>2. CASE row' = [row EXCEPT ![p] = IF @ = "READY" THEN @ ELSE "FAILED"]
    BY <2>1, <2>2, OpIs DEF UploadsTypeOK
  <2>. QED BY <2>2 DEF AbortAnswered
<1>3. UploadsTypeOK /\ added \in Nat /\ disowned \subseteq Photos /\ NamesAgree
  BY UploadConstants DEF UploadsInv, UploadsTypeOK
<1>4. k \in Keys /\ k <= added /\ p \in Photos /\ Named(k, p) /\ row[p] # "none"
  BY OpIs
<1>. HIDE DEF p, k
<1>5. RowsGo
  BY <1>1, <1>2, <1>3, <1>4, RowsSame, RowMoved DEF DoneStatuses
<1>6. Quiet
  BY <1>1, <1>3, QueueSame
<1>7. q \in Photos /\ Named(k, q) /\ (Awaiting(p) => q = p)
  <2>1. CASE Held(k, {}, slot)
    <3>1. Held(k, items, slot)
      BY <2>1 DEF Held
    <3>2. item[k].photo \in Photos
      BY <1>3, <1>4, <3>1 DEF NamesAgree, UploadsTypeOK, ItemRecords, OrNoPhoto
    <3>3. Awaiting(p) => item[k].photo = p
      BY <1>3, <1>4, <3>1, HeldName DEF Awaiting
    <3>. QED BY <2>1, <3>1, <3>2, <3>3 DEF Named
  <2>. QED BY <1>4, <2>1
<1>8. d \in OpRecords /\ d.op = "delete" /\ d.key = k /\ d.photo = q
  BY <1>4, <1>7 DEF OpRecords
<1>. HIDE DEF d, q
<1>9. \A o2 \in ops' : o2 \in ops \/ (o2 \in OpRecords /\ o2.key <= added /\ Named(o2.key, o2.photo))
  BY <1>1, <1>4, <1>7, <1>8
<1>10. \A o2 \in ops' : o2 \notin ops => Undoing(o2.photo)'
  BY <1>1, <1>8 DEF Undoing
<1>11. ASSUME NEW x \in Photos, Undoing(x), Awaiting(x)' PROVE Undoing(x)'
  <2>1. Awaiting(x)
    BY <1>5, <1>11, StillWaits DEF Awaiting
  <2>2. PICK o2 \in ops : o2.op \in {"abort", "delete"} /\ o2.photo = x
    BY <1>11 DEF Undoing
  <2>3. CASE o2 = o
    BY <1>1, <1>7, <1>8, <2>1, <2>2, <2>3 DEF Undoing, p
  <2>4. CASE o2 # o
    BY <1>1, <2>2, <2>4 DEF Undoing
  <2>. QED BY <2>3, <2>4
<1>12. UNCHANGED <<pageVars, registry>>
  BY <1>1
<1>. HIDE DEF UploadsInv
<1>. QED BY <1>1, <1>5, <1>6, <1>9, <1>10, <1>11, <1>12, OpsKeep

LEMMA CancelDeletedStep ==
  ASSUME UploadsInv, NEW o \in ops, CancelDeleted(o)
  PROVE  UploadsInv'
<1>. DEFINE p == o.photo
<1>1. /\ o.op = "delete" /\ ops' = ops \ {o} /\ UNCHANGED <<pageVars, registry, file>> /\ added' = added
      /\ \/ row' = [row EXCEPT ![p] = "gone"] /\ disowned' = disowned
         \/ row' = row /\ disowned' = disowned \cup {p}
      /\ Pump(item, items, slot, controller) \/ UNCHANGED queueVars
  BY DEF CancelDeleted, pageVars
<1>2. UploadsTypeOK /\ added \in Nat /\ disowned \subseteq Photos /\ items \in SUBSET items
  BY UploadConstants DEF UploadsInv, UploadsTypeOK
<1>3. p \in Photos /\ row[p] # "none"
  BY OpIs
<1>4. RowsGo /\ ~Awaiting(p)'
  <2>. HIDE DEF p
  <2>1. CASE row' = [row EXCEPT ![p] = "gone"] /\ disowned' = disowned
    <3>1. RowsGo
      BY <1>1, <1>2, <1>3, <2>1, RowMoved DEF DoneStatuses
    <3>2. row'[p] = "gone"
      BY <1>2, <1>3, <2>1 DEF UploadsTypeOK
    <3>. QED BY <3>1, <3>2 DEF Awaiting
  <2>2. CASE row' = row /\ disowned' = disowned \cup {p}
    <3>1. disowned \subseteq disowned' /\ disowned' \subseteq Photos /\ p \in disowned'
      BY <1>2, <1>3, <2>2
    <3>2. RowsGo
      BY <1>1, <1>2, <2>2, <3>1, RowsSame
    <3>. QED BY <3>1, <3>2 DEF Awaiting
  <2>. QED BY <1>1, <2>1, <2>2
<1>5. Quiet /\ items' = items
  <2>1. CASE Pump(item, items, slot, controller)
    BY <1>1, <1>2, <2>1, DropQuiet
  <2>2. CASE UNCHANGED queueVars
    BY <1>1, <1>2, <2>2, QueueSame DEF queueVars
  <2>. QED BY <1>1, <2>1, <2>2
<1>6. \A o2 \in ops' : o2 \in ops
  BY <1>1
<1>7. \A x \in Photos : Undoing(x) /\ Awaiting(x)' => Undoing(x)'
  BY <1>1, <1>4 DEF Undoing
<1>. HIDE DEF UploadsInv
<1>. QED BY <1>1, <1>4, <1>5, <1>6, <1>7, OpsKeep

LEMMA DiscardStep ==
  ASSUME UploadsInv, NEW k \in Keys, Discard(k)
  PROVE  UploadsInv'
<1>. DEFINE p == IF restored[k] # NoPhoto THEN restored[k] ELSE item[k].photo
            d == [op |-> IF p = restored[k] THEN "remove" ELSE "discard", key |-> k, photo |-> p]
<1>1. /\ restored[k] # NoPhoto \/ k \in items
      /\ UNCHANGED <<pageVars, row, file, disowned>> /\ added' = added /\ restored' = restored
      /\ UNCHANGED <<added, departed, mounted, todo>>
  BY DEF Discard, RowActions, serverVars, pageVars
<1>2. \/ p = NoPhoto /\ Unpumped(item, items \ {k}, slot, controller) /\ Forget({k}) /\ ops' = ops
      \/ p # NoPhoto /\ ops' = ops \cup {d} /\ UNCHANGED <<queueVars, registry>>
  BY Zenon DEF Discard
<1>3. /\ UploadsTypeOK /\ added \in Nat /\ disowned \subseteq Photos /\ NamesAgree
      /\ restored \in [Keys -> OrNoPhoto] /\ restored[k] \in OrNoPhoto /\ item[k].photo \in OrNoPhoto
      /\ departed \in Nat /\ departed <= added /\ k \in Nat
  BY UploadConstants DEF UploadsInv, UploadsTypeOK, ItemRecords
<1>4. RowsGo
  BY <1>1, <1>3, RowsSame
<1>5. CASE p = NoPhoto
  <2>. DEFINE F == {k}
  <2>1. k \in items /\ item[k].photo = NoPhoto /\ Unpumped(item, items \ {k}, slot, controller) /\ Forget({k}) /\ ops' = ops
    BY <1>1, <1>2, <1>5
  <2>2. Quiet /\ items' = items \ {k}
    BY <1>1, <2>1, DropQuiet
  <2>3. \A q \in Photos : ~Named(k, q)
    BY <1>3, <2>1 DEF NamesAgree, Held
  <2>4. \A q \in Photos : q \notin {restored[k], todo[k]}
    BY <2>3 DEF Named
  <2>5. /\ F \in SUBSET Keys /\ registry' = [j \in Keys |-> IF j \in F THEN NoEntry ELSE registry[j]]
        /\ items' \subseteq items /\ items' \cap F = {}
        /\ UNCHANGED <<added, departed, mounted, todo>> /\ restored' \in [Keys -> OrNoPhoto]
        /\ \A j \in Keys : restored'[j] \in {restored[j], NoPhoto}
        /\ \A j \in F, q \in Photos : Named(j, q) /\ Awaiting(q)' => Undoing(q)'
        /\ \A j \in F, q \in Photos : q \in {restored'[j], todo[j]} => ~Awaiting(q)'
        /\ \A o \in ops' : o \in ops
    BY <1>1, <1>3, <2>1, <2>2, <2>3, <2>4 DEF Forget
  <2>6. \A q \in Photos : Undoing(q) => Undoing(q)'
    BY <2>1 DEF Undoing
  <2>. HIDE DEF F, UploadsInv
  <2>. QED BY <1>4, <2>2, <2>5, <2>6, PageKeeps
<1>6. CASE p # NoPhoto
  <2>1. ops' = ops \cup {d} /\ UNCHANGED <<queueVars, registry>> /\ items' = items
    BY <1>2, <1>6 DEF queueVars
  <2>2. p \in Photos
    BY <1>3, <1>6 DEF OrNoPhoto
  <2>3. k <= added
    BY <1>1, <1>3 DEF UploadsInv, KeysOK
  <2>4. Named(k, p) /\ (Awaiting(p) => registry[k] = p)
    <3>1. CASE restored[k] # NoPhoto
      BY <2>2, <3>1 DEF Named, UploadsInv, PageRegistered
    <3>2. CASE restored[k] = NoPhoto
      <4>1. k \in items /\ p = item[k].photo
        BY <1>1, <3>2
      <4>. QED BY <1>6, <2>2, <4>1 DEF Named, Held, UploadsInv, ItemsRegistered
    <3>. QED BY <3>1, <3>2
  <2>5. d \in OpRecords /\ d.key = k /\ d.photo = p
    BY <2>2 DEF OpRecords
  <2>. HIDE DEF d, p
  <2>6. Quiet
    BY <1>1, <1>3, <2>1, QueueSame
  <2>7. \A o \in ops' : o \in ops \/ (o \in OpRecords /\ o.key <= added /\ Named(o.key, o.photo))
    BY <2>1, <2>3, <2>4, <2>5
  <2>8. PICK x \in Photos : x = p
    BY <2>2
  <2>9. ASSUME NEW o \in ops', o \notin ops, Awaiting(o.photo)' PROVE registry[o.key] = o.photo
    <3>1. o = d
      BY <2>1, <2>9
    <3>2. o.photo = x /\ o.key = k
      BY <2>5, <2>8, <3>1
    <3>3. Awaiting(x)
      BY <1>4, <2>9, <3>2, StillWaits DEF Awaiting
    <3>. QED BY <2>4, <2>8, <3>2, <3>3
  <2>10. \A q \in Photos : Undoing(q) => Undoing(q)'
    BY <2>1 DEF Undoing
  <2>. HIDE DEF UploadsInv
  <2>. QED BY <1>1, <1>4, <2>1, <2>6, <2>7, <2>9, <2>10, OpsKeep
<1>. QED BY <1>5, <1>6

LEMMA DiscardedStep ==
  ASSUME UploadsInv, NEW o \in ops, Discarded(o)
  PROVE  UploadsInv'
<1>. DEFINE p == o.photo
            k == o.key
            F == {k}
<1>1. /\ o.op \in {"discard", "remove"} /\ ops' = ops \ {o}
      /\ UNCHANGED <<added, departed, mounted, todo, leaves, file, disowned>>
      /\ UNCHANGED <<added, departed, mounted, todo>>
  BY DEF Discarded
<1>2. /\ UploadsTypeOK /\ added \in Nat /\ disowned \subseteq Photos /\ NamesAgree
      /\ restored \in [Keys -> OrNoPhoto] /\ items \ {k} \in SUBSET items
  BY UploadConstants DEF UploadsInv, UploadsTypeOK
<1>3. k \in Keys /\ p \in Photos /\ row[p] # "none" /\ Named(k, p)
  BY OpIs
<1>4. \A x \in Photos : Undoing(x) => Undoing(x)'
  BY <1>1 DEF Undoing
<1>5. \A o2 \in ops' : o2 \in ops
  BY <1>1
<1>. HIDE DEF p, k
<1>6. CASE /\ row' = [row EXCEPT ![p] = "gone"] /\ Forget({k})
           /\ Unpumped(item, items \ {k}, slot, controller)
           /\ restored' = [restored EXCEPT ![k] = IF o.op = "remove" THEN NoPhoto ELSE @]
  <2>1. RowsGo
    BY <1>1, <1>2, <1>3, <1>6, RowMoved DEF DoneStatuses
  <2>2. row'[p] = "gone"
    BY <1>2, <1>3, <1>6 DEF UploadsTypeOK
  <2>3. Quiet /\ items' = items \ {k}
    BY <1>1, <1>2, <1>6, DropQuiet
  <2>4. ASSUME NEW q \in Photos, Named(k, q) PROVE ~Awaiting(q)'
    <3>1. q = p \/ q \in disowned
      BY <1>2, <1>3, <2>4 DEF NamesAgree
    <3>2. q \in disowned => q \in disowned'
      BY <1>1
    <3>. QED BY <2>2, <3>1, <3>2 DEF Awaiting
  <2>5. /\ restored' \in [Keys -> OrNoPhoto] /\ \A j \in Keys : restored'[j] \in {restored[j], NoPhoto}
    BY <1>2, <1>3, <1>6 DEF OrNoPhoto
  <2>6. \A j \in F, q \in Photos : q \in {restored'[j], todo[j]} => ~Awaiting(q)'
    <3>. SUFFICES ASSUME NEW q \in Photos, q \in {restored'[k], todo[k]} PROVE ~Awaiting(q)'
      BY DEF F
    <3>1. Named(k, q)
      BY <1>3, <2>5, UploadConstants DEF Named
    <3>. QED BY <2>4, <3>1
  <2>7. /\ F \in SUBSET Keys /\ registry' = [j \in Keys |-> IF j \in F THEN NoEntry ELSE registry[j]]
        /\ items' \subseteq items /\ items' \cap F = {}
        /\ \A j \in F, q \in Photos : Named(j, q) /\ Awaiting(q)' => Undoing(q)'
    BY <1>3, <1>6, <2>3, <2>4 DEF Forget
  <2>. HIDE DEF F, UploadsInv
  <2>. QED BY <1>1, <1>4, <1>5, <2>1, <2>3, <2>5, <2>6, <2>7, PageKeeps
<1>7. CASE UNCHANGED <<queueVars, row, registry, restored>>
  <2>1. UNCHANGED <<pageVars, registry>> /\ items' = items
    BY <1>1, <1>7 DEF pageVars, queueVars
  <2>2. Quiet
    BY <1>1, <1>2, <1>7, QueueSame
  <2>3. RowsGo
    BY <1>1, <1>2, <1>7, RowsSame
  <2>. HIDE DEF UploadsInv
  <2>. QED BY <1>4, <1>5, <2>1, <2>2, <2>3, OpsKeep
<1>. QED BY <1>6, <1>7 DEF Discarded, p, k

LEMMA AddFilesStep ==
  ASSUME UploadsInv, AddFiles
  PROVE  UploadsInv'
<1>. DEFINE k == added + 1
            in == (items \ Ready) \cup (IF validateFile(k) THEN {k} ELSE {})
<1>1. /\ mounted /\ added < MaxFiles /\ added' = k
      /\ Pump(item, in, slot, controller) /\ Forget(Ready)
      /\ UNCHANGED <<departed, mounted, restored, todo, ops, row, file, disowned>>
  BY DEF AddFiles, serverVars
<1>2. /\ UploadsTypeOK /\ disowned \subseteq Photos /\ items \subseteq Keys
      /\ added \in Nat /\ added' \in Nat /\ added <= added' /\ k \in Keys /\ k > added /\ k = added'
      /\ departed \in Nat /\ departed <= added
      /\ item \in [Keys -> ItemRecords] /\ slot = [s \in Slots |-> slot[s]] /\ MaxFiles \in Nat
  BY <1>1, UploadConstants DEF UploadsInv, UploadsTypeOK
<1>3. RowsGo
  BY <1>1, <1>2, RowsSame
<1>4. Ready \in SUBSET Keys
  BY <1>2 DEF Ready
<1>5. /\ in \in SUBSET Keys /\ (\A j \in in : j \in items \/ j > added) /\ (\A j \in in : j <= added')
      /\ (\A j \in in : departed < j) /\ in \cap Ready = {}
  <2>1. \A j \in items : departed < j /\ j <= added /\ j \in Nat
    BY <1>2, UploadConstants DEF UploadsInv, KeysOK
  <2>. HIDE DEF k
  <2>2. k \notin Ready
    BY <1>2, <2>1 DEF Ready
  <2>. QED BY <1>2, <2>1, <2>2 DEF Ready
<1>. HIDE DEF k, in
<1>6. Quiet /\ items' = in
  <2>1. Rewrites(item, in)
    BY <1>2 DEF Rewrites, UploadsInv, RowsOK
  <2>. QED BY <1>1, <1>2, <1>5, <2>1, DropsQuiet
<1>7. \A j \in Keys : registry'[j] = IF j \in Ready THEN NoEntry ELSE registry[j]
  BY <1>1 DEF Forget
<1>8. UploadsTypeOK'
  <2>1. registry' \in [Keys -> Entries]
    BY <1>1, <1>2 DEF Forget, UploadsTypeOK, Entries
  <2>2. added' \in Keys \cup {0} /\ departed' \in 0..added'
    BY <1>1, <1>2
  <2>. QED BY <1>1, <1>2, <1>5, <1>6, <2>1, <2>2 DEF UploadsTypeOK, Quiet, RowsGo
<1>9. KeysOK'
  <2>1. \A s \in Slots : slot'[s].key <= added' /\ (slot'[s].pc = "idle" <=> slot'[s].key = 0)
    BY <1>6 DEF Quiet, GoesOn
  <2>2. ASSUME NEW j \in Keys, j > added' PROVE item'[j].photo = NoPhoto /\ registry'[j] = NoEntry
    <3>1. j > added
      BY <1>2, <2>2, UploadConstants
    <3>2. item[j].photo = NoPhoto /\ registry[j] = NoEntry
      BY <3>1 DEF UploadsInv, KeysOK
    <3>. QED BY <1>6, <1>7, <3>2 DEF Quiet
  <2>3. \A o \in ops' : o.key <= added'
    <3>1. \A o \in ops : o.key <= added /\ o.key \in Nat
      BY OpIs, UploadConstants
    <3>. QED BY <1>1, <1>2, <3>1
  <2>4. \A j \in items' : departed' < j /\ j <= added'
    BY <1>1, <1>5, <1>6
  <2>. QED BY <1>1, <2>1, <2>2, <2>3, <2>4 DEF UploadsInv, KeysOK
<1>10. OldNames
  <2>1. \A j \in Keys, p \in Photos : p \in {registry'[j], todo'[j], restored'[j]} => Named(j, p)
    BY <1>1, <1>7, UploadConstants DEF Named
  <2>2. \A o \in ops' : Named(o.key, o.photo)
    BY <1>1, OpIs
  <2>. QED BY <1>1, <1>2, <2>1, <2>2 DEF OldNames, UploadsTypeOK
<1>11. \A j \in Ready, p \in Photos : registry[j] = p /\ Awaiting(p)' => Undoing(p)'
  <2>. SUFFICES ASSUME NEW j \in Ready, NEW p \in Photos, registry[j] = p PROVE ~Awaiting(p)'
    OBVIOUS
  <2>1. Named(j, p)
    BY DEF Named
  <2>. QED BY <1>3, <2>1, ReadyNames
<1>12. ASSUME NEW j \in Keys, NEW p \in Photos, p \in {restored'[j], todo'[j]}, Awaiting(p)'
       PROVE  j \notin Ready /\ registry[j] = p
  <2>1. Awaiting(p) /\ p \in {restored[j], todo[j]} /\ Named(j, p)
    BY <1>1, <1>3, <1>12, StillWaits DEF Awaiting, Named
  <2>2. j \notin Ready
    BY <1>3, <1>12, <2>1, ReadyNames
  <2>. QED BY <2>1, <2>2 DEF UploadsInv, PageRegistered
<1>13. \A o \in ops' : o \in ops
  BY <1>1
<1>14. \A p \in Photos : Undoing(p) => Undoing(p)'
  BY <1>1 DEF Undoing
<1>15. items' \cap Ready = {}
  BY <1>5, <1>6
<1>. HIDE DEF UploadsInv
<1>. QED BY <1>3, <1>4, <1>6, <1>7, <1>8, <1>9, <1>10, <1>11, <1>12, <1>13, <1>14, <1>15, BrowserKeeps

\* Steps of the page that leave the registry alone.
LEMMA PageStep ==
  ASSUME UploadsInv, Quiet, RowsGo, UploadsTypeOK', KeysOK', registry' = registry, ops' = ops,
         \A k \in Keys, p \in Photos : p \in {restored'[k], todo'[k]} =>
            Named(k, p) /\ (Awaiting(p) => registry[k] = p)
  PROVE  UploadsInv'
<1>. DEFINE F == {}
<1>1. OldNames
  <2>1. \A k \in Keys, p \in Photos : p \in {registry'[k], todo'[k], restored'[k]} => Named(k, p)
    BY DEF Named
  <2>2. \A o \in ops' : Named(o.key, o.photo)
    BY OpIs
  <2>. QED BY <2>1, <2>2 DEF OldNames, UploadsInv, UploadsTypeOK
<1>2. /\ F \in SUBSET Keys /\ items' \cap F = {}
      /\ \A k \in Keys : registry'[k] = IF k \in F THEN NoEntry ELSE registry[k]
      /\ \A k \in F, p \in Photos : registry[k] = p /\ Awaiting(p)' => Undoing(p)'
  OBVIOUS
<1>3. ASSUME NEW k \in Keys, NEW p \in Photos, p \in {restored'[k], todo'[k]}, Awaiting(p)'
      PROVE  k \notin F /\ registry[k] = p
  <2>1. Awaiting(p)
    BY <1>3, StillWaits DEF Awaiting
  <2>. QED BY <1>3, <2>1
<1>4. \A p \in Photos : Undoing(p) => Undoing(p)'
  BY DEF Undoing
<1>5. \A o \in ops' : o \in ops
  OBVIOUS
<1>. HIDE DEF F, UploadsInv
<1>. QED BY <1>1, <1>2, <1>3, <1>4, <1>5, BrowserKeeps

LEMMA AbortAllStep ==
  ASSUME UploadsInv, AbortAll
  PROVE  UploadsInv'
<1>. DEFINE it == [k \in Keys |-> IF k \in items /\ item[k].status = "uploading"
                                  THEN [item[k] EXCEPT !.status = "queued"] ELSE item[k]]
            sl == [s \in Slots |-> IF slot[s].pc # "idle" /\ controller[slot[s].key] = s
                                   THEN Abort(s) ELSE slot[s]]
<1>1. /\ todo' = todo /\ mounted' = FALSE /\ departed' = added
      /\ restored' = [k \in Keys |-> NoPhoto] /\ added' = added
      /\ UNCHANGED <<registry, ops, row, file, disowned>>
      /\ Unpumped(it, {}, sl, controller)
  BY DEF AbortAll, serverVars
<1>2. /\ UploadsTypeOK /\ RowsOK /\ added \in Nat /\ disowned \subseteq Photos
      /\ item \in [Keys -> ItemRecords]
  BY UploadConstants DEF UploadsInv, UploadsTypeOK
<1>3. RowsGo
  BY <1>1, <1>2, RowsSame
<1>4. Rewrites(it, {})
  <2>1. \A k \in Keys : /\ it[k] \in ItemRecords /\ it[k].photo = item[k].photo
                        /\ it[k].status \in {item[k].status, "queued"}
    BY <1>2 DEF ItemRecords, Statuses
  <2>2. it \in [Keys -> ItemRecords]
    BY <2>1
  <2>. HIDE DEF it
  <2>. QED BY <1>2, <2>1, <2>2 DEF Rewrites, RowsOK
<1>5. sl = [s \in Slots |-> sl[s]] /\ \A s \in Slots : sl[s] = slot[s] \/ sl[s] = Abort(s)
  OBVIOUS
<1>. HIDE DEF it, sl
<1>6. Quiet /\ items' = {}
  <2>. DEFINE in == {}
  <2>1. in \in SUBSET Keys /\ (\A k \in in : k \in items \/ k > added) /\ (\A k \in in : k <= added')
        /\ Rewrites(it, in) /\ Unpumped(it, in, sl, controller) /\ added' \in Nat /\ added <= added'
    BY <1>1, <1>2, <1>4
  <2>. HIDE DEF in, UploadsInv
  <2>2. Quiet /\ items' = in
    BY <1>5, <2>1, DropsQuiet
  <2>. QED BY <2>2 DEF in
<1>7. UploadsTypeOK'
  <2>1. restored' \in [Keys -> OrNoPhoto]
    BY <1>1 DEF OrNoPhoto
  <2>2. added' \in Keys \cup {0} /\ departed' \in 0..added' /\ mounted' \in BOOLEAN
    <3>1. added' = added /\ departed' = added /\ mounted' = FALSE
      BY <1>1
    <3>2. added \in Keys \cup {0} /\ added \in 0..added
      BY <1>2 DEF UploadsTypeOK
    <3>. QED BY <3>1, <3>2
  <2>3. items' \subseteq Keys /\ item' \in [Keys -> ItemRecords] /\ slot' \in [Slots -> SlotRecords]
    BY <1>6 DEF Quiet
  <2>4. /\ registry' \in [Keys -> Entries] /\ todo' \in [Keys -> Entries] /\ ops' \subseteq OpRecords
        /\ row' \in [Photos -> RowStatuses] /\ file' \in [Photos -> Keys \cup {0}] /\ disowned' \subseteq Photos
    BY <1>1, <1>2 DEF UploadsTypeOK
  <2>. QED BY <2>1, <2>2, <2>3, <2>4 DEF UploadsTypeOK
<1>8. KeysOK'
  <2>1. \A s \in Slots : slot'[s].key <= added' /\ (slot'[s].pc = "idle" <=> slot'[s].key = 0)
    BY <1>6 DEF Quiet, GoesOn
  <2>2. \A k \in Keys : k > added' => item'[k].photo = NoPhoto /\ registry'[k] = NoEntry
    BY <1>1, <1>6 DEF Quiet, UploadsInv, KeysOK
  <2>3. \A k \in Keys : restored'[k] = NoPhoto /\ todo'[k] = todo[k]
    BY <1>1
  <2>4. \A k \in Keys : k > departed' => todo'[k] = NoEntry
    <3>1. departed \in Nat /\ departed <= added
      BY <1>2, UploadConstants DEF UploadsTypeOK
    <3>2. \A k \in Keys : k > added => k > departed
      BY <1>2, <3>1, UploadConstants
    <3>. QED BY <1>1, <2>3, <3>2 DEF UploadsInv, KeysOK
  <2>. QED BY <1>1, <1>6, <2>1, <2>2, <2>3, <2>4 DEF UploadsInv, KeysOK
<1>9. \A k \in Keys, p \in Photos : p \in {restored'[k], todo'[k]} =>
          Named(k, p) /\ (Awaiting(p) => registry[k] = p)
  BY <1>1, UploadConstants DEF Named, UploadsInv, PageRegistered
<1>. HIDE DEF UploadsInv
<1>. QED BY <1>1, <1>3, <1>6, <1>7, <1>8, <1>9, PageStep

LEMMA MountStep ==
  ASSUME UploadsInv, Mount
  PROVE  UploadsInv'
<1>1. /\ ~mounted /\ mounted' = TRUE /\ todo = [k \in Keys |-> NoEntry] /\ todo' = registry
      /\ UNCHANGED queueVars /\ UNCHANGED <<added, departed, restored, registry, ops, row, file, disowned>>
  BY DEF Mount, serverVars
<1>2. /\ UploadsTypeOK /\ added \in Nat /\ disowned \subseteq Photos
      /\ departed = added /\ \A k \in Keys : todo[k] = NoEntry /\ restored[k] = NoPhoto
  <2>1. \A k \in Keys : todo[k] = NoEntry
    BY <1>1
  <2>2. UploadsTypeOK /\ added \in Nat /\ disowned \subseteq Photos
    BY UploadConstants DEF UploadsInv, UploadsTypeOK
  <2>3. departed = added /\ \A k \in Keys : restored[k] = NoPhoto
    BY <1>1 DEF UploadsInv, KeysOK
  <2>. QED BY <2>1, <2>2, <2>3
<1>3. RowsGo
  BY <1>1, <1>2, RowsSame
<1>4. Quiet
  BY <1>1, <1>2, QueueSame
<1>5. UploadsTypeOK'
  BY <1>1, <1>2 DEF UploadsTypeOK, queueVars
<1>6. KeysOK'
  BY <1>1, <1>2 DEF UploadsInv, KeysOK, queueVars
<1>7. \A k \in Keys, p \in Photos : p \in {restored'[k], todo'[k]} => Named(k, p) /\ (Awaiting(p) => registry[k] = p)
  BY <1>1, <1>2, UploadConstants DEF Named
<1>. HIDE DEF UploadsInv
<1>. QED BY <1>1, <1>3, <1>4, <1>5, <1>6, <1>7, PageStep

LEMMA ReconcileStep ==
  ASSUME UploadsInv, NEW k \in Keys, Reconcile(k)
  PROVE  UploadsInv'
<1>. DEFINE p == todo[k]
            F == {k}
<1>1. /\ p # NoEntry /\ todo' = [todo EXCEPT ![k] = NoEntry]
      /\ UNCHANGED <<queueVars, added, departed, mounted, ops, row, file>> /\ items' = items
  BY DEF Reconcile, serverVars, queueVars
<1>2. /\ UploadsTypeOK /\ added \in Nat /\ disowned \subseteq Photos /\ todo \in [Keys -> Entries]
      /\ p \in Entries /\ registry[k] \in Entries /\ restored \in [Keys -> OrNoPhoto]
      /\ registry \in [Keys -> Entries] /\ k \in Nat /\ departed \in Nat
  BY UploadConstants DEF UploadsInv, UploadsTypeOK
<1>3. restored[k] = NoPhoto /\ ~(k > departed) /\ k \notin items
  BY <1>1, <1>2 DEF UploadsInv, KeysOK
<1>4. \A j \in Keys : todo'[j] = IF j = k THEN NoEntry ELSE todo[j]
  BY <1>1, <1>2
<1>5. Quiet
  BY <1>1, <1>2, QueueSame
<1>6. \A x \in Photos : Undoing(x) => Undoing(x)'
  BY <1>1 DEF Undoing
<1>7. todo' \in [Keys -> Entries]
  BY <1>1, <1>2 DEF Entries
<1>8. ASSUME NEW j \in Keys, NEW x \in Photos, x = restored[j] \/ x = todo[j]
      PROVE  Named(j, x) /\ (Awaiting(x) => registry[j] = x)
  BY <1>8 DEF Named, UploadsInv, PageRegistered
<1>9. CASE /\ p # NoPhoto => row[p] \in {"PROCESSING", "READY", "gone"}
           /\ Forget({k}) /\ disowned' = disowned \cup ({registry[k]} \ {p, NoPhoto, NoEntry})
           /\ restored' = restored
  <2>1. disowned \subseteq disowned' /\ disowned' \subseteq Photos
    BY <1>2, <1>9 DEF Entries, OrNoPhoto
  <2>2. RowsGo
    BY <1>1, <1>2, <2>1, RowsSame
  <2>3. \A j \in Keys : registry'[j] = IF j \in F THEN NoEntry ELSE registry[j]
    BY <1>9 DEF Forget
  <2>4. registry' \in [Keys -> Entries]
    BY <1>2, <1>9 DEF Forget, Entries
  <2>5. UploadsTypeOK'
    BY <1>1, <1>2, <1>7, <1>9, <2>1, <2>4 DEF UploadsTypeOK, queueVars
  <2>6. KeysOK'
    <3>1. \A j \in Keys : /\ registry'[j] = registry[j] \/ registry'[j] = NoEntry
                          /\ todo'[j] = todo[j] \/ todo'[j] = NoEntry
      BY <1>4, <2>3
    <3>. HIDE DEF p
    <3>. QED BY <1>1, <1>9, <3>1 DEF UploadsInv, KeysOK, queueVars
  <2>7. OldNames
    <3>1. \A j \in Keys, x \in Photos : x \in {registry'[j], todo'[j], restored'[j]} => Named(j, x)
      BY <1>4, <1>9, <2>3, UploadConstants DEF Named
    <3>2. \A o \in ops' : Named(o.key, o.photo)
      BY <1>1, OpIs
    <3>. QED BY <1>1, <1>2, <3>1, <3>2 DEF OldNames, UploadsTypeOK
  <2>8. ASSUME NEW x \in Photos, registry[k] = x PROVE ~Awaiting(x)'
    <3>1. CASE x = p
      BY <1>1, <1>9, <3>1, UploadConstants DEF Awaiting
    <3>2. CASE x # p
      <4>1. x \in disowned'
        BY <1>9, <2>8, <3>2, UploadConstants
      <4>. QED BY <4>1 DEF Awaiting
    <3>. QED BY <3>1, <3>2
  <2>9. ASSUME NEW j \in Keys, NEW x \in Photos, x \in {restored'[j], todo'[j]}, Awaiting(x)'
        PROVE  j \notin F /\ registry[j] = x
    <3>1. Awaiting(x)
      BY <2>2, <2>9, StillWaits DEF Awaiting
    <3>2. (x = restored[j] \/ x = todo[j]) /\ j # k
      BY <1>3, <1>4, <1>9, <2>9, UploadConstants
    <3>. QED BY <1>8, <3>1, <3>2
  <2>10. \A o \in ops' : o \in ops
    BY <1>1
  <2>11. /\ F \in SUBSET Keys /\ items' \cap F = {}
         /\ \A j \in F, x \in Photos : registry[j] = x /\ Awaiting(x)' => Undoing(x)'
    BY <1>1, <1>3, <2>8
  <2>. HIDE DEF F, UploadsInv, p
  <2>. QED BY <1>5, <1>6, <2>2, <2>3, <2>5, <2>6, <2>7, <2>9, <2>10, <2>11, BrowserKeeps
<1>10. CASE /\ p # NoPhoto /\ registry' = registry /\ disowned' = disowned
            /\ (mounted /\ restored' = [restored EXCEPT ![k] = p]) \/ restored' = restored
  <2>1. RowsGo
    BY <1>1, <1>2, <1>10, RowsSame
  <2>2. p \in OrNoPhoto
    BY <1>1, <1>2 DEF Entries
  <2>3. restored' \in [Keys -> OrNoPhoto] /\ \A j \in Keys : restored'[j] = restored[j] \/ (j = k /\ restored'[j] = todo[k])
    BY <1>2, <1>10, <2>2
  <2>4. UploadsTypeOK'
    BY <1>1, <1>2, <1>7, <1>10, <2>3 DEF UploadsTypeOK, queueVars
  <2>5. KeysOK'
    <3>1. \A j \in Keys : j > departed => todo'[j] = NoEntry /\ restored'[j] = NoPhoto
      BY <1>3, <1>4, <2>3 DEF UploadsInv, KeysOK
    <3>2. \A j \in Keys : todo'[j] # NoEntry => restored'[j] = NoPhoto
      BY <1>4, <2>3 DEF UploadsInv, KeysOK
    <3>3. ~mounted => \A j \in Keys : restored'[j] = NoPhoto
      BY <1>10 DEF UploadsInv, KeysOK
    <3>. QED BY <1>1, <1>10, <3>1, <3>2, <3>3 DEF UploadsInv, KeysOK, queueVars
  <2>6. \A j \in Keys, x \in Photos : x \in {restored'[j], todo'[j]} => Named(j, x) /\ (Awaiting(x) => registry[j] = x)
    <3>. SUFFICES ASSUME NEW j \in Keys, NEW x \in Photos, x \in {restored'[j], todo'[j]}
         PROVE  Named(j, x) /\ (Awaiting(x) => registry[j] = x)
      OBVIOUS
    <3>1. x = restored[j] \/ x = todo[j]
      BY <1>4, <2>3, UploadConstants
    <3>. QED BY <1>8, <3>1
  <2>. HIDE DEF UploadsInv
  <2>. QED BY <1>1, <1>5, <1>10, <2>1, <2>4, <2>5, <2>6, PageStep
<1>. QED BY <1>9, <1>10 DEF Reconcile

\* Nothing runs, and what was being made or undone is excepted.
LEMMA ReloadTabStep ==
  ASSUME UploadsInv, ReloadTab
  PROVE  UploadsInv'
<1>1. /\ mounted' = FALSE /\ departed' = added /\ added' = added /\ ops' = {}
      /\ restored' = [k \in Keys |-> NoPhoto] /\ todo' = [k \in Keys |-> NoEntry]
      /\ UNCHANGED <<registry, row, file>>
      /\ Unpumped(item, {}, [s \in Slots |-> NoProcess], [k \in Keys |-> NoSlot])
      /\ disowned' = disowned \cup {slot[s].target : s \in {t \in Slots : slot[t].pc = "initialized"}}
                              \cup {o.photo : o \in {q \in ops : q.op \in {"abort", "delete"}}}
  BY DEF ReloadTab, serverVars
<1>2. /\ UploadsTypeOK /\ added \in Nat /\ disowned \subseteq Photos /\ RowsOK /\ KeysOK /\ NamedRows
  BY UploadConstants DEF UploadsInv, UploadsTypeOK
<1>3. \A s \in Slots : slot'[s] = NoProcess
  BY <1>1 DEF Unpumped
<1>4. items' = {} /\ \A k \in Keys : ~Held(k, items', slot')
  BY <1>1, <1>3, EmptyIs, UploadConstants DEF Unpumped, Held
<1>5. item' = [k \in Keys |-> NewItem]
  BY <1>1, <1>4 DEF Unpumped
<1>6. \A k \in Keys : item'[k] = NewItem
  BY <1>5
<1>7. \A s \in Slots : slot[s].pc = "initialized" => slot[s].target \in Photos
  BY DEF UploadsInv, UploadsTypeOK, SlotRecords, TargetsOK, OrNoPhoto
<1>8. /\ disowned \subseteq disowned' /\ disowned' \subseteq Photos
      /\ \A p \in Photos : Answered(p) \/ Undoing(p) => p \in disowned'
  <2>1. \A o \in ops : o.photo \in Photos
    BY OpIs
  <2>. QED BY <1>1, <1>2, <1>7, <2>1 DEF Answered, Undoing
<1>9. UploadsTypeOK'
  <2>1. item' \in [Keys -> ItemRecords] /\ slot' \in [Slots -> SlotRecords]
    BY <1>1, <1>5, EmptyIs DEF Unpumped
  <2>2. restored' \in [Keys -> OrNoPhoto] /\ todo' \in [Keys -> Entries] /\ ops' \subseteq OpRecords
    BY <1>1 DEF OrNoPhoto, Entries
  <2>3. added' \in Keys \cup {0} /\ departed' \in 0..added' /\ mounted' \in BOOLEAN
    <3>1. added' = added /\ departed' = added /\ mounted' = FALSE
      BY <1>1
    <3>2. added \in Keys \cup {0} /\ added \in 0..added
      BY <1>2 DEF UploadsTypeOK
    <3>. QED BY <3>1, <3>2
  <2>4. /\ registry' \in [Keys -> Entries] /\ row' \in [Photos -> RowStatuses]
        /\ file' \in [Photos -> Keys \cup {0}]
    BY <1>1, <1>2 DEF UploadsTypeOK
  <2>. QED BY <1>4, <1>8, <2>1, <2>2, <2>3, <2>4 DEF UploadsTypeOK
<1>10. KeysOK'
  <2>1. \A k \in Keys : todo'[k] = NoEntry /\ restored'[k] = NoPhoto
    BY <1>1
  <2>2. \A s \in Slots : slot'[s].key <= added' /\ (slot'[s].pc = "idle" <=> slot'[s].key = 0)
    <3>1. added' = added /\ 0 <= added
      BY <1>1, <1>2
    <3>2. NoProcess.pc = "idle" /\ NoProcess.key = 0
      BY EmptyIs
    <3>. QED BY <1>3, <3>1, <3>2
  <2>3. \A k \in Keys : k > added => item'[k].photo = NoPhoto /\ registry'[k] = NoEntry
    BY <1>1, <1>2, <1>6, EmptyIs DEF KeysOK
  <2>. QED BY <1>1, <1>4, <2>1, <2>2, <2>3 DEF KeysOK
<1>11. RowsOK'
  <2>1. \A k \in Keys : item'[k].photo = NoPhoto /\ item'[k].status = "queued"
    BY <1>6, EmptyIs
  <2>. QED BY <1>1, <1>2, <2>1 DEF RowsOK
<1>12. \A k \in Keys, p \in Photos : Named(k, p)' => registry[k] = p
  BY <1>1, <1>4, UploadConstants DEF Named, Held
<1>13. NamedRows'
  <2>. SUFFICES ASSUME NEW k \in Keys, NEW p \in Photos, Named(k, p)' PROVE row'[p] # "none"
    BY DEF NamedRows
  <2>1. Named(k, p)
    BY <1>12 DEF Named
  <2>. QED BY <1>1, <1>2, <2>1 DEF NamedRows
<1>14. TargetsOK' /\ NewPhotosOK'
  BY <1>3, EmptyIs DEF TargetsOK, NewPhotosOK, Sending, Empty
<1>15. HeldPhotos'
  <2>. SUFFICES ASSUME NEW p \in Photos, row'[p] # "none", Held(file'[p], items', slot') PROVE FALSE
    BY DEF HeldPhotos, Answered
  <2>1. file'[p] \in Keys
    BY <1>1, <1>2 DEF RowsOK, UploadsTypeOK
  <2>. QED BY <1>4, <2>1
<1>16. NamesAgree'
  BY <1>4, <1>12 DEF NamesAgree, Held
<1>17. ItemsRegistered' /\ ReadyDone'
  BY <1>4 DEF ItemsRegistered, ReadyDone
<1>18. PageRegistered'
  BY <1>1, UploadConstants DEF PageRegistered, Awaiting
<1>19. WaitingKnown'
  <2>. SUFFICES ASSUME NEW p \in Photos, Awaiting(p)' PROVE \E k \in Keys : registry'[k] = p
    BY DEF WaitingKnown
  <2>1. Awaiting(p) /\ ~Answered(p) /\ ~Undoing(p)
    BY <1>1, <1>8 DEF Awaiting
  <2>. QED BY <1>1, <2>1 DEF UploadsInv, WaitingKnown
<1>20. CopiesOK'
  <2>. SUFFICES ASSUME NEW k \in Keys
       PROVE  ~Unanswered(k)' /\ Cardinality(Asking(k)') + Cardinality(Live(k)') <= Concurrency
    BY DEF CopiesOK
  <2>1. ~Unanswered(k)'
    BY <1>4 DEF Unanswered, Held
  <2>2. Asking(k)' = {}
    BY <1>3, EmptyIs DEF Asking
  <2>3. \A p \in Live(k)' : p \in Photos /\ file[p] = k /\ row[p] \in DoneStatuses
    BY <1>1, <1>3, <1>4, EmptyIs DEF Live, Held, SentTo, Sending
  <2>4. Live(k)' \subseteq Live(k)
    BY <2>3 DEF Live
  <2>. DEFINE A == Asking(k)  L == Live(k)  M == Live(k)'
  <2>5. A \in SUBSET Slots /\ L \in SUBSET Photos /\ M \in SUBSET L /\ {} \in SUBSET A /\ Concurrency \in Nat
    BY <2>4, UploadConstants DEF Asking, Live
  <2>6. L = {} \/ Cardinality(A) + Cardinality(L) <= Concurrency
    BY DEF UploadsInv, CopiesOK
  <2>. HIDE DEF A, L, M
  <2>7. Cardinality({}) + Cardinality(M) <= Concurrency
    <3>1. /\ Cardinality(A) \in Nat /\ Cardinality(L) \in Nat /\ Cardinality(M) \in Nat
          /\ Cardinality({}) + Cardinality(M) <= Cardinality(A) + Cardinality(L)
      BY <2>5, FewerCopies
    <3>2. CASE L = {}
      BY <2>5, <3>2, FS_EmptySet
    <3>. QED BY <2>5, <2>6, <3>1, <3>2, FS_EmptySet
  <2>. QED BY <2>1, <2>2, <2>7 DEF M
<1>. QED BY <1>9, <1>10, <1>11, <1>13, <1>14, <1>15, <1>16, <1>17, <1>18, <1>19, <1>20 DEF UploadsInv

-----------------------------------------------------------------------------
(* A photo is made, and its item learns of it.                             *)

LEMMA InitializeStep ==
  ASSUME UploadsInv, NEW s \in Slots, Initialize(s)
  PROVE  UploadsInv'
<1>. DEFINE k == slot[s].key
<1>1. PICK f \in Photos : f = Fresh /\ row[f] = "none"
  BY FreshRow DEF Initialize
<1>2. /\ slot[s].pc = "initialize"
      /\ row' = [row EXCEPT ![f] = "UPLOADING"] /\ file' = [file EXCEPT ![f] = k]
      /\ disowned' = IF Shared(s) THEN disowned \cup {f} ELSE disowned
      /\ UNCHANGED <<item, items, registry, ops, added, departed, mounted, restored, todo>>
  BY <1>1 DEF Initialize, InsertRow, pageVars
<1>3. slot' = [slot EXCEPT ![s].pc = "initialized", ![s].target = f]
  BY <1>1 DEF Initialize, Await
<1>4. /\ UploadsTypeOK /\ added \in Nat /\ KeysOK /\ RowsOK /\ NamedRows /\ TargetsOK /\ NewPhotosOK
      /\ HeldPhotos /\ NamesAgree /\ CopiesOK /\ slot \in [Slots -> SlotRecords] /\ slot[s] \in SlotRecords
      /\ row \in [Photos -> RowStatuses] /\ file \in [Photos -> Keys \cup {0}] /\ disowned \subseteq Photos
  BY UploadConstants DEF UploadsInv, UploadsTypeOK
<1>5. k \in Keys /\ k \in 1..added /\ slot[s].target = NoPhoto
  BY <1>2, <1>4, UploadConstants DEF KeysOK, SlotRecords, TargetsOK, Empty
<1>6. /\ slot'[s] \in SlotRecords /\ slot'[s].key = k /\ slot'[s].pc = "initialized" /\ slot'[s].target = f
      /\ \A t \in Slots \ {s} : slot'[t] = slot[t]
  BY <1>3, <1>4 DEF SlotRecords, OrNoPhoto
<1>7. slot' \in [Slots -> SlotRecords]
  BY <1>3, <1>4, <1>6
<1>8. /\ row' \in [Photos -> RowStatuses] /\ file' \in [Photos -> Keys \cup {0}]
      /\ disowned \subseteq disowned' /\ disowned' \subseteq disowned \cup {f} /\ disowned' \subseteq Photos
      /\ row'[f] = "UPLOADING" /\ file'[f] = k
      /\ \A p \in Photos : p # f => row'[p] = row[p] /\ file'[p] = file[p]
  BY <1>2, <1>4, <1>5 DEF RowStatuses
<1>. HIDE DEF k
<1>9. \A j \in Keys : Held(j, items', slot') <=> Held(j, items, slot)
  BY <1>2, <1>6 DEF Held, k
<1>10. \A j \in Keys, p \in Photos : (Named(j, p)' <=> Named(j, p)) /\ (Named(j, p) => p # f)
  <2>1. \A j \in Keys, p \in Photos : Named(j, p) => p # f
    BY <1>1, <1>4 DEF NamedRows
  <2>. QED BY <1>2, <1>9, <2>1 DEF Named, Held
<1>11. \A j \in Keys : item[j].photo # f
  BY <1>1, <1>4, UploadConstants DEF RowsOK
<1>12. \A t \in Slots : slot[t].target # f
  <2>. TAKE t \in Slots
  <2>1. slot[t] \in SlotRecords
    BY <1>4
  <2>2. CASE slot[t].pc \in Empty
    BY <1>4, <2>2, UploadConstants DEF TargetsOK
  <2>3. CASE slot[t].pc \in Sending \cup {"initialized"}
    BY <1>1, <1>4, <2>3 DEF TargetsOK
  <2>. QED BY <2>1, <2>2, <2>3 DEF SlotRecords
<1>13. \A p \in Photos : Awaiting(p)' /\ p # f => Awaiting(p)
  BY <1>8 DEF Awaiting
<1>14. UploadsTypeOK'
  BY <1>2, <1>4, <1>7, <1>8 DEF UploadsTypeOK
<1>15. KeysOK'
  <2>1. \A t \in Slots : slot'[t].key <= added /\ (slot'[t].pc = "idle" <=> slot'[t].key = 0)
    BY <1>4, <1>5, <1>6, UploadConstants DEF KeysOK
  <2>. QED BY <1>2, <1>4, <2>1 DEF KeysOK
<1>16. RowsOK'
  <2>1. \A p \in Photos : row'[p] # "none" => file'[p] \in 1..added
    BY <1>4, <1>5, <1>8 DEF RowsOK
  <2>2. ASSUME NEW j \in Keys, item[j].photo # NoPhoto
        PROVE  row'[item[j].photo] # "none" /\ file'[item[j].photo] = j
    <3>1. item[j].photo \in Photos
      BY <1>4, <2>2 DEF UploadsTypeOK, ItemRecords, OrNoPhoto
    <3>. QED BY <1>4, <1>8, <1>11, <2>2, <3>1 DEF RowsOK
  <2>. QED BY <1>2, <1>4, <2>1, <2>2 DEF RowsOK
<1>17. NamedRows'
  <2>. SUFFICES ASSUME NEW j \in Keys, NEW p \in Photos, Named(j, p)' PROVE row'[p] # "none"
    BY DEF NamedRows
  <2>. QED BY <1>4, <1>8, <1>10 DEF NamedRows
<1>18. TargetsOK'
  <2>. SUFFICES ASSUME NEW t \in Slots
       PROVE  /\ slot'[t].pc \in Empty => slot'[t].target = NoPhoto
              /\ slot'[t].pc \in Sending \cup {"initialized"} =>
                    /\ slot'[t].target # NoPhoto
                    /\ row'[slot'[t].target] # "none" /\ file'[slot'[t].target] = slot'[t].key
              /\ slot'[t].pc \in Sending => item[slot'[t].key].photo # NoPhoto
    BY <1>2 DEF TargetsOK
  <2>1. CASE t = s
    BY <1>6, <1>8, <2>1, UploadConstants DEF Empty, Sending
  <2>2. CASE t # s
    <3>1. slot'[t] = slot[t] /\ slot[t].target \in OrNoPhoto
      BY <1>4, <1>6, <2>2 DEF SlotRecords
    <3>. QED BY <1>4, <1>8, <1>12, <3>1 DEF TargetsOK, OrNoPhoto
  <2>. QED BY <2>1, <2>2
<1>19. ~Shared(s) => item[k].photo = NoPhoto /\ \A t \in Slots \ {s} : slot[t].key # k
  BY <1>5 DEF Shared, k
<1>20. NewPhotosOK'
  <2>. SUFFICES ASSUME NEW t \in Slots, slot'[t].pc = "initialized"
       PROVE  /\ row'[slot'[t].target] \notin DoneStatuses
              /\ \A j \in Keys : item[j].photo # slot'[t].target
              /\ \A u \in Slots \ {t} : slot'[u].target # slot'[t].target
              /\ slot'[t].target \notin disowned' =>
                    /\ item[slot'[t].key].photo \in disowned' \cup {NoPhoto}
                    /\ \A u \in Slots \ {t} : slot'[u].pc = "initialized" /\ slot'[u].key = slot'[t].key =>
                          slot'[u].target \in disowned'
    BY <1>2 DEF NewPhotosOK
  <2>1. CASE t = s
    <3>1. f \notin disowned' => item[k].photo = NoPhoto /\ \A u \in Slots \ {s} : slot[u].key # k
      BY <1>2, <1>19
    <3>. QED BY <1>6, <1>8, <1>11, <1>12, <2>1, <3>1 DEF DoneStatuses
  <2>2. CASE t # s
    <3>1. slot'[t] = slot[t] /\ slot[t].pc = "initialized" /\ slot[t].target \in Photos /\ slot[t].target # f
      BY <1>4, <1>6, <1>12, <2>2 DEF SlotRecords, TargetsOK, OrNoPhoto
    <3>2. row'[slot[t].target] \notin DoneStatuses /\ \A j \in Keys : item[j].photo # slot[t].target
      BY <1>4, <1>8, <3>1 DEF NewPhotosOK
    <3>3. \A u \in Slots \ {t} : slot'[u].target # slot[t].target
      BY <1>4, <1>6, <3>1 DEF NewPhotosOK
    <3>4. ASSUME slot[t].target \notin disowned'
          PROVE  item[slot[t].key].photo \in disowned' \cup {NoPhoto}
      BY <1>4, <1>8, <3>1, <3>4 DEF NewPhotosOK
    <3>5. ASSUME slot[t].target \notin disowned', NEW u \in Slots \ {t},
                 slot'[u].pc = "initialized", slot'[u].key = slot[t].key
          PROVE  slot'[u].target \in disowned'
      <4>1. CASE u = s
        <5>1. Shared(s)
          BY <1>6, <2>2, <3>5, <4>1 DEF Shared, k
        <5>. QED BY <1>2, <1>6, <4>1, <5>1
      <4>2. CASE u # s
        BY <1>4, <1>6, <1>8, <3>1, <3>5, <4>2 DEF NewPhotosOK
      <4>. QED BY <4>1, <4>2
    <3>. QED BY <3>1, <3>2, <3>3, <3>4, <3>5
  <2>. QED BY <2>1, <2>2
<1>21. \A p \in Photos : Answered(p) => Answered(p)'
  <2>. SUFFICES ASSUME NEW p \in Photos, NEW t \in Slots, slot[t].pc = "initialized", slot[t].target = p
       PROVE  Answered(p)'
    BY DEF Answered
  <2>1. t # s
    BY <1>2
  <2>. QED BY <1>6, <2>1 DEF Answered
<1>22. Answered(f)'
  BY <1>6 DEF Answered
<1>23. HeldPhotos'
  <2>. SUFFICES ASSUME NEW p \in Photos, row'[p] # "none", p \notin disowned', Held(file'[p], items', slot')
       PROVE  item[file'[p]].photo = p \/ Answered(p)'
    BY <1>2 DEF HeldPhotos, Answered
  <2>1. CASE p = f
    BY <1>22, <2>1
  <2>2. CASE p # f
    <3>1. row[p] # "none" /\ p \notin disowned /\ file'[p] = file[p] /\ file[p] \in Keys
      BY <1>4, <1>8, <2>2 DEF RowsOK
    <3>2. Held(file[p], items, slot)
      BY <1>9, <3>1
    <3>3. item[file[p]].photo = p \/ Answered(p)
      BY <1>4, <3>1, <3>2 DEF HeldPhotos
    <3>. QED BY <1>21, <3>1, <3>3
  <2>. QED BY <2>1, <2>2
<1>24. NamesAgree'
  <2>1. \A j \in Keys, p, q \in Photos : Named(j, p)' /\ Named(j, q)' /\ p # q => p \in disowned'
    BY <1>4, <1>8, <1>10 DEF NamesAgree
  <2>2. \A j \in Keys, p \in Photos : Named(j, p)' /\ Held(j, items', slot') => item'[j].photo # NoPhoto
    BY <1>2, <1>4, <1>9, <1>10 DEF NamesAgree
  <2>. QED BY <2>1, <2>2 DEF NamesAgree, Held
<1>25. ItemsRegistered'
  BY <1>2 DEF UploadsInv, ItemsRegistered
<1>26. ReadyDone'
  <2>. SUFFICES ASSUME NEW j \in items, item[j].status = "ready", Awaiting(item[j].photo)' PROVE FALSE
    BY <1>2 DEF ReadyDone
  <2>1. j \in Keys /\ item'[j].photo = item[j].photo /\ item[j].photo # f
    BY <1>2, <1>4, <1>11 DEF UploadsTypeOK
  <2>2. Awaiting(item[j].photo)
    BY <1>8, <2>1 DEF Awaiting
  <2>. QED BY <2>2 DEF UploadsInv, ReadyDone
<1>27. PageRegistered'
  <2>1. ASSUME NEW j \in Keys, NEW p \in Photos, p = restored[j] \/ p = todo[j], Awaiting(p)'
        PROVE  registry[j] = p
    <3>1. Named(j, p)
      BY <2>1 DEF Named
    <3>2. Awaiting(p)
      BY <1>10, <1>13, <2>1, <3>1
    <3>. QED BY <2>1, <3>2 DEF UploadsInv, PageRegistered
  <2>2. ASSUME NEW o \in ops, Awaiting(o.photo)' PROVE registry[o.key] = o.photo \/ Undoing(o.photo)
    <3>1. Awaiting(o.photo)
      BY <1>10, <1>13, <2>2, OpIs
    <3>. QED BY <3>1 DEF UploadsInv, PageRegistered
  <2>. QED BY <1>2, <2>1, <2>2 DEF PageRegistered, Awaiting, Undoing
<1>28. WaitingKnown'
  <2>. SUFFICES ASSUME NEW p \in Photos, Awaiting(p)'
       PROVE  (\E j \in Keys : registry[j] = p) \/ Answered(p)' \/ Undoing(p)'
    BY <1>2 DEF WaitingKnown
  <2>1. CASE p = f
    BY <1>22, <2>1
  <2>2. CASE p # f
    <3>1. Awaiting(p)
      BY <1>13, <2>2
    <3>2. Undoing(p) => Undoing(p)'
      BY <1>2 DEF Undoing
    <3>. QED BY <1>21, <3>1, <3>2 DEF UploadsInv, WaitingKnown
  <2>. QED BY <2>1, <2>2
<1>29. CopiesOK'
  <2>. SUFFICES ASSUME NEW j \in Keys
       PROVE  IF Unanswered(j)' THEN Live(j)' = {}
              ELSE Cardinality(Asking(j)') + Cardinality(Live(j)') <= Concurrency
    BY DEF CopiesOK
  <2>1. Unanswered(j)' <=> Unanswered(j)
    BY <1>2, <1>9 DEF Unanswered, Held
  <2>2. Asking(j)' = Asking(j)
    BY <1>2, <1>6 DEF Asking, k
  <2>3. Live(j)' = Live(j)
    <3>1. ASSUME NEW p \in Photos PROVE SentTo(j, p)' <=> SentTo(j, p)
      BY <1>2, <1>6 DEF SentTo, Sending
    <3>2. f \notin Live(j)
      BY <1>1, <1>4, LiveIs
    <3>3. f \notin Live(j)'
      <4>1. ~SentTo(j, f) /\ item[j].photo # f
        BY <1>11, <1>12 DEF SentTo
      <4>. QED BY <1>2, <1>8, <3>1, <4>1 DEF Live, DoneStatuses
    <3>4. ASSUME NEW p \in Photos, p # f PROVE p \in Live(j)' <=> p \in Live(j)
      BY <1>2, <1>8, <1>9, <3>1, <3>4 DEF Live, Held
    <3>. QED BY <3>2, <3>3, <3>4 DEF Live
  <2>. QED BY <1>4, <2>1, <2>2, <2>3 DEF CopiesOK
<1>. QED BY <1>14, <1>15, <1>16, <1>17, <1>18, <1>20, <1>23, <1>24, <1>25, <1>26, <1>27, <1>28, <1>29 DEF UploadsInv

LEMMA InitializedStep ==
  ASSUME UploadsInv, Places, NEW s \in Slots, Initialized(s)
  PROVE  UploadsInv'
<1>. DEFINE k == slot[s].key
            known == [item EXCEPT ![k].photo = slot[s].target]
            b == IF uploadKindFor(k) = "simple" THEN [slot[s] EXCEPT !.pc = "put"] ELSE Attempt(k, known)
<1>1. /\ UploadsTypeOK /\ added \in Nat /\ KeysOK /\ RowsOK /\ NamedRows /\ TargetsOK /\ NewPhotosOK
      /\ HeldPhotos /\ NamesAgree /\ CopiesOK /\ slot \in [Slots -> SlotRecords] /\ slot[s] \in SlotRecords
      /\ item \in [Keys -> ItemRecords] /\ registry \in [Keys -> Entries] /\ disowned \subseteq Photos
  BY UploadConstants DEF UploadsInv, UploadsTypeOK
<1>2. slot[s].pc = "initialized"
  BY DEF Initialized
<1>3. PICK f \in Photos : f = slot[s].target
  BY <1>1, <1>2 DEF TargetsOK, SlotRecords, OrNoPhoto
<1>4. k \in Keys /\ k <= added /\ row[f] # "none" /\ file[f] = k /\ Held(k, items, slot)
  BY <1>1, <1>2, <1>3 DEF KeysOK, SlotRecords, TargetsOK, Held
<1>5. PICK q \in OrNoPhoto : q = item[k].photo
  BY <1>1, <1>4 DEF ItemRecords
<1>6. /\ item' = known /\ slot' = [slot EXCEPT ![s] = b] /\ registry' = [registry EXCEPT ![k] = f]
      /\ disowned' = IF {f, q} \cap disowned # {} THEN disowned \cup ({f, q} \ {NoPhoto}) ELSE disowned
      /\ UNCHANGED <<items, ops, row, file, added, departed, mounted, restored, todo>>
  BY <1>3, <1>5 DEF Initialized, Persist, pageVars, serverVars
<1>7. known \in [Keys -> ItemRecords] /\ known[k].photo = f /\ known[k].status = item[k].status
      /\ \A j \in Keys : j # k => known[j] = item[j]
  BY <1>1, <1>3, <1>4 DEF ItemRecords, OrNoPhoto
<1>8. b \in SlotRecords /\ b.key = k /\ b.pc \in Sending /\ b.target = f
  <2>1. CASE uploadKindFor(k) = "simple"
    BY <1>1, <1>3, <2>1, SendingIs DEF SlotRecords
  <2>2. CASE uploadKindFor(k) # "simple"
    <3>1. AttemptAt(Attempt(k, known), k, f)
      BY <1>4, <1>7, AttemptIs
    <3>. QED BY <2>2, <3>1, UploadConstants DEF AttemptAt
  <2>. QED BY <2>1, <2>2
<1>. HIDE DEF b, known
<1>9. slot' \in [Slots -> SlotRecords] /\ slot'[s] = b /\ \A t \in Slots \ {s} : slot'[t] = slot[t]
  BY <1>1, <1>6, <1>8
<1>10. /\ item' \in [Keys -> ItemRecords] /\ item'[k].photo = f /\ item'[k].status = item[k].status
       /\ \A j \in Keys : j # k => item'[j] = item[j]
  BY <1>6, <1>7
<1>11. registry' \in [Keys -> Entries] /\ registry'[k] = f /\ \A j \in Keys : j # k => registry'[j] = registry[j]
  BY <1>1, <1>4, <1>6 DEF Entries, OrNoPhoto
<1>12. disowned \subseteq disowned' /\ disowned' \subseteq Photos /\ disowned' \subseteq disowned \cup {f, q}
  BY <1>1, <1>6, UploadConstants DEF OrNoPhoto
\* Either the item had no photo, or nothing the file's photos are called counts.
<1>13. \/ q = NoPhoto /\ f \notin disowned
       \/ f \in disowned' /\ (q \in disowned' \/ q = NoPhoto)
  <2>1. f \notin disowned => q \in disowned \cup {NoPhoto}
    BY <1>1, <1>2, <1>3, <1>5 DEF NewPhotosOK
  <2>2. CASE {f, q} \cap disowned # {}
    BY <1>3, <1>6, <2>2, UploadConstants
  <2>3. CASE {f, q} \cap disowned = {}
    BY <2>1, <2>3
  <2>. QED BY <2>2, <2>3
<1>. HIDE DEF k
<1>14. \A j \in Keys : Held(j, items', slot') <=> Held(j, items, slot)
  BY <1>6, <1>8, <1>9 DEF Held, k
<1>15. ASSUME NEW p \in Photos, Named(k, p) PROVE p \in disowned'
  <2>1. q # NoPhoto
    BY <1>1, <1>4, <1>5, <1>15 DEF NamesAgree
  <2>2. q \in Photos /\ Named(k, q)
    BY <1>4, <1>5, <2>1 DEF Named, OrNoPhoto
  <2>3. p = q \/ p \in disowned
    BY <1>1, <1>4, <1>15, <2>2 DEF NamesAgree
  <2>. QED BY <1>12, <1>13, <2>1, <2>3
<1>16. \A j \in Keys, p \in Photos : Named(j, p)' => Named(j, p) \/ (j = k /\ p = f)
  BY <1>6, <1>10, <1>11, <1>14 DEF Named, Held
<1>17. \A p \in Photos : Awaiting(p)' => Awaiting(p) /\ ~Named(k, p)
  BY <1>6, <1>12, <1>15 DEF Awaiting
<1>18. f \in disowned' \/ \A p \in Photos : ~Named(k, p)
  <2>. SUFFICES ASSUME NEW p \in Photos, Named(k, p) PROVE f \in disowned'
    OBVIOUS
  <2>1. q # NoPhoto
    BY <1>1, <1>4, <1>5 DEF NamesAgree
  <2>. QED BY <1>13, <2>1
<1>19. UploadsTypeOK'
  BY <1>1, <1>6, <1>9, <1>10, <1>11, <1>12 DEF UploadsTypeOK
<1>20. KeysOK'
  <2>1. \A t \in Slots : slot'[t].key <= added /\ (slot'[t].pc = "idle" <=> slot'[t].key = 0)
    BY <1>1, <1>4, <1>8, <1>9, UploadConstants DEF KeysOK, Sending
  <2>2. \A j \in Keys : j > added => item'[j].photo = NoPhoto /\ registry'[j] = NoEntry
    <3>1. ~(k > added)
      BY <1>1, <1>4, UploadConstants
    <3>. QED BY <1>1, <1>10, <1>11, <3>1 DEF KeysOK
  <2>. QED BY <1>1, <1>6, <2>1, <2>2 DEF KeysOK
<1>21. RowsOK'
  <2>1. \A j \in Keys : item'[j].photo # NoPhoto => row[item'[j].photo] # "none" /\ file[item'[j].photo] = j
    BY <1>1, <1>4, <1>10 DEF RowsOK
  <2>2. \A j \in Keys : item'[j].status \in {"processing", "ready"} => item'[j].photo # NoPhoto
    BY <1>1, <1>10, UploadConstants DEF RowsOK
  <2>. QED BY <1>1, <1>6, <2>1, <2>2 DEF RowsOK
<1>22. NamedRows'
  <2>. SUFFICES ASSUME NEW j \in Keys, NEW p \in Photos, Named(j, p)' PROVE row[p] # "none"
    BY <1>6 DEF NamedRows
  <2>. QED BY <1>1, <1>4, <1>16 DEF NamedRows
<1>23. TargetsOK'
  <2>. SUFFICES ASSUME NEW t \in Slots
       PROVE  /\ slot'[t].pc \in Empty => slot'[t].target = NoPhoto
              /\ slot'[t].pc \in Sending \cup {"initialized"} =>
                    /\ slot'[t].target # NoPhoto
                    /\ row[slot'[t].target] # "none" /\ file[slot'[t].target] = slot'[t].key
              /\ slot'[t].pc \in Sending => item'[slot'[t].key].photo # NoPhoto
    BY <1>6 DEF TargetsOK
  <2>1. CASE t = s
    <3>1. slot'[t] = b /\ b.pc \notin Empty
      BY <1>8, <1>9, <2>1 DEF Empty, Sending
    <3>2. b.target # NoPhoto /\ row[b.target] # "none" /\ file[b.target] = b.key /\ item'[b.key].photo # NoPhoto
      BY <1>4, <1>8, <1>10, UploadConstants
    <3>. QED BY <3>1, <3>2
  <2>2. CASE t # s
    <3>1. slot'[t] = slot[t]
      BY <1>9, <2>2
    <3>2. slot[t].pc \in Sending => slot[t].key \in Keys
      BY SenderIs
    <3>3. slot[t].pc \in Sending => item'[slot[t].key].photo # NoPhoto
      BY <1>1, <1>10, <3>2, UploadConstants DEF TargetsOK
    <3>. QED BY <1>1, <3>1, <3>3 DEF TargetsOK
  <2>. QED BY <2>1, <2>2
<1>24. NewPhotosOK'
  <2>. SUFFICES ASSUME NEW t \in Slots, slot'[t].pc = "initialized"
       PROVE  /\ row[slot'[t].target] \notin DoneStatuses
              /\ \A j \in Keys : item'[j].photo # slot'[t].target
              /\ \A u \in Slots \ {t} : slot'[u].target # slot'[t].target
              /\ slot'[t].target \notin disowned' =>
                    /\ item'[slot'[t].key].photo \in disowned' \cup {NoPhoto}
                    /\ \A u \in Slots \ {t} : slot'[u].pc = "initialized" /\ slot'[u].key = slot'[t].key =>
                          slot'[u].target \in disowned'
    BY <1>6 DEF NewPhotosOK
  <2>1. t # s /\ slot'[t] = slot[t] /\ slot[t].pc = "initialized" /\ slot[t].target # f
    <3>1. t # s
      BY <1>8, <1>9 DEF Sending
    <3>2. slot'[t] = slot[t] /\ slot[t].pc = "initialized"
      BY <1>9, <3>1
    <3>. QED BY <1>1, <1>3, <3>1, <3>2 DEF NewPhotosOK
  <2>2. /\ row[slot[t].target] \notin DoneStatuses /\ \A j \in Keys : item'[j].photo # slot[t].target
        /\ \A u \in Slots \ {t} : slot'[u].target # slot[t].target
    BY <1>1, <1>8, <1>9, <1>10, <2>1 DEF NewPhotosOK
  <2>3. ASSUME slot[t].target \notin disowned'
        PROVE  /\ item'[slot[t].key].photo \in disowned' \cup {NoPhoto}
               /\ \A u \in Slots \ {t} : slot'[u].pc = "initialized" /\ slot'[u].key = slot[t].key =>
                          slot'[u].target \in disowned'
    <3>1. slot[t].target \notin disowned /\ slot[t].key \in Keys
      BY <1>1, <1>12, <2>1, <2>3 DEF KeysOK, SlotRecords
    <3>2. item'[slot[t].key].photo \in disowned' \cup {NoPhoto}
      <4>1. CASE slot[t].key = k
        <5>1. slot[s].target \in disowned
          BY <1>1, <1>2, <2>1, <3>1, <4>1 DEF NewPhotosOK, k
        <5>. QED BY <1>3, <1>10, <1>12, <4>1, <5>1
      <4>2. CASE slot[t].key # k
        BY <1>1, <1>10, <1>12, <2>1, <3>1, <4>2 DEF NewPhotosOK
      <4>. QED BY <4>1, <4>2
    <3>3. ASSUME NEW u \in Slots \ {t}, slot'[u].pc = "initialized", slot'[u].key = slot[t].key
          PROVE  slot'[u].target \in disowned'
      <4>1. u # s
        BY <1>8, <1>9, <3>3 DEF Sending
      <4>2. slot'[u] = slot[u]
        BY <1>9, <4>1
      <4>. QED BY <1>1, <1>12, <2>1, <3>1, <3>3, <4>2 DEF NewPhotosOK
    <3>. QED BY <3>2, <3>3
  <2>. QED BY <2>1, <2>2, <2>3
<1>25. \A p \in Photos : Answered(p) => p = f \/ Answered(p)'
  <2>. SUFFICES ASSUME NEW p \in Photos, NEW t \in Slots, slot[t].pc = "initialized", slot[t].target = p, p # f
       PROVE  Answered(p)'
    BY DEF Answered
  <2>1. t # s
    BY <1>3
  <2>. QED BY <1>9, <2>1 DEF Answered
<1>26. HeldPhotos'
  <2>. SUFFICES ASSUME NEW p \in Photos, row[p] # "none", p \notin disowned', Held(file[p], items', slot')
       PROVE  item'[file[p]].photo = p \/ Answered(p)'
    BY <1>6 DEF HeldPhotos, Answered
  <2>1. file[p] \in Keys /\ p \notin disowned
    BY <1>1, <1>12 DEF RowsOK, UploadsTypeOK
  <2>2. Held(file[p], items, slot)
    BY <1>14, <2>1
  <2>3. item[file[p]].photo = p \/ Answered(p)
    BY <1>1, <2>1, <2>2 DEF HeldPhotos
  <2>4. CASE p = f
    BY <1>4, <1>10, <2>4
  <2>5. CASE p # f
    <3>1. CASE item[file[p]].photo = p
      <4>1. file[p] # k
        <5>. SUFFICES ASSUME file[p] = k PROVE FALSE
          OBVIOUS
        <5>1. Named(k, p)
          BY <1>4, <3>1 DEF Named
        <5>. QED BY <1>15, <5>1
      <4>. QED BY <1>10, <2>1, <3>1, <4>1
    <3>2. CASE Answered(p)
      BY <1>25, <2>5, <3>2
    <3>. QED BY <2>3, <3>1, <3>2
  <2>. QED BY <2>4, <2>5
<1>27. NamesAgree'
  <2>1. ASSUME NEW j \in Keys, NEW x \in Photos, NEW y \in Photos, Named(j, x)', Named(j, y)', x # y
        PROVE  x \in disowned'
    <3>1. CASE j # k
      BY <1>1, <1>12, <1>16, <2>1, <3>1 DEF NamesAgree
    <3>2. CASE j = k /\ x # f
      BY <1>15, <1>16, <2>1, <3>2
    <3>3. CASE j = k /\ x = f
      <4>1. Named(k, y)
        BY <1>16, <2>1, <3>3
      <4>. QED BY <1>18, <2>1, <3>3, <4>1
    <3>. QED BY <3>1, <3>2, <3>3
  <2>2. ASSUME NEW j \in Keys, NEW x \in Photos, Named(j, x)', Held(j, items', slot')
        PROVE  item'[j].photo # NoPhoto
    <3>1. CASE j = k
      BY <1>10, <3>1, UploadConstants
    <3>2. CASE j # k
      BY <1>1, <1>10, <1>14, <1>16, <2>2, <3>2 DEF NamesAgree
    <3>. QED BY <3>1, <3>2
  <2>. QED BY <2>1, <2>2 DEF NamesAgree, Held
<1>28. ItemsRegistered'
  BY <1>1, <1>6, <1>10, <1>11 DEF UploadsInv, UploadsTypeOK, ItemsRegistered
<1>29. ReadyDone'
  <2>. SUFFICES ASSUME NEW j \in items, item'[j].status = "ready", item'[j].photo \in Photos,
                       row[item'[j].photo] = "UPLOADING", item'[j].photo \notin disowned'
       PROVE  FALSE
    BY <1>6 DEF ReadyDone, Awaiting
  <2>1. j \in Keys
    BY <1>1 DEF UploadsTypeOK
  <2>2. CASE j = k
    <3>1. q # NoPhoto
      BY <1>1, <1>4, <1>5, <1>10, <2>2 DEF RowsOK
    <3>. QED BY <1>10, <1>13, <2>2, <3>1
  <2>3. CASE j # k
    <3>1. item'[j] = item[j]
      BY <1>10, <2>1, <2>3
    <3>2. Awaiting(item[j].photo)
      BY <1>12, <3>1 DEF Awaiting
    <3>. QED BY <3>1, <3>2 DEF UploadsInv, ReadyDone
  <2>. QED BY <2>2, <2>3
<1>30. PageRegistered'
  <2>1. ASSUME NEW j \in Keys, NEW p \in Photos, p = restored[j] \/ p = todo[j], Awaiting(p)'
        PROVE  registry'[j] = p
    <3>1. Named(j, p) /\ Awaiting(p) /\ ~Named(k, p)
      BY <1>17, <2>1 DEF Named
    <3>2. registry[j] = p /\ j # k
      BY <2>1, <3>1 DEF UploadsInv, PageRegistered
    <3>. QED BY <1>11, <3>2
  <2>2. ASSUME NEW o \in ops, Awaiting(o.photo)' PROVE registry'[o.key] = o.photo \/ Undoing(o.photo)
    <3>1. o.key \in Keys /\ o.photo \in Photos /\ Named(o.key, o.photo)
      BY OpIs
    <3>2. Awaiting(o.photo) /\ o.key # k
      BY <1>17, <2>2, <3>1
    <3>3. registry[o.key] = o.photo \/ Undoing(o.photo)
      BY <3>2 DEF UploadsInv, PageRegistered
    <3>. QED BY <1>11, <3>1, <3>2, <3>3
  <2>. QED BY <1>6, <2>1, <2>2 DEF PageRegistered, Awaiting, Undoing
<1>31. WaitingKnown'
  <2>. SUFFICES ASSUME NEW p \in Photos, Awaiting(p)'
       PROVE  (\E j \in Keys : registry'[j] = p) \/ Answered(p)' \/ Undoing(p)'
    BY DEF WaitingKnown
  <2>1. Awaiting(p) /\ ~Named(k, p)
    BY <1>17
  <2>2. CASE \E j \in Keys : registry[j] = p
    <3>1. PICK j \in Keys : registry[j] = p
      BY <2>2
    <3>2. j # k
      BY <2>1, <3>1 DEF Named
    <3>. QED BY <1>11, <3>1, <3>2
  <2>3. CASE Answered(p)
    BY <1>4, <1>11, <1>25, <2>3
  <2>4. CASE Undoing(p)
    BY <1>6, <2>4 DEF Undoing
  <2>. QED BY <2>1, <2>2, <2>3, <2>4 DEF UploadsInv, WaitingKnown
<1>32. CopiesOK'
  <2>. SUFFICES ASSUME NEW j \in Keys
       PROVE  IF Unanswered(j)' THEN Live(j)' = {}
              ELSE Cardinality(Asking(j)') + Cardinality(Live(j)') <= Concurrency
    BY DEF CopiesOK
  <2>1. \A t \in Slots : slot'[t].key = slot[t].key
    BY <1>8, <1>9 DEF k
  <2>2. CASE j # k
    <3>1. Unanswered(j)' <=> Unanswered(j)
      BY <1>10, <1>14, <2>2 DEF Unanswered, Held
    <3>2. Asking(j)' = Asking(j)
      BY <1>9, <2>1, <2>2 DEF Asking, k
    <3>3. \A p \in Photos : SentTo(j, p)' <=> SentTo(j, p)
      BY <1>9, <2>1, <2>2 DEF SentTo, k
    <3>4. Live(j)' = Live(j)
      BY <1>6, <1>10, <1>14, <2>2, <3>3 DEF Live, Held
    <3>. QED BY <1>1, <3>1, <3>2, <3>4 DEF CopiesOK
  <2>3. CASE j = k
    <3>0. /\ slot[s].key = j /\ slot'[s].key = j /\ file[f] = j /\ Held(j, items, slot) /\ Held(j, items', slot')
          /\ item'[j].photo = f /\ slot'[s].pc \in Sending /\ slot'[s].target = f
      BY <1>4, <1>8, <1>9, <1>10, <1>14, <2>1, <2>3 DEF k
    <3>. HIDE DEF k
    <3>. DEFINE A == Asking(j)  L == Live(j)  B == Asking(j)'  M == Live(j)'
    <3>1. ~Unanswered(j)'
      <4>1. f # NoPhoto
        BY UploadConstants
      <4>. QED BY <3>0, <4>1 DEF Unanswered
    <3>2. s \in A /\ B \subseteq A \ {s}
      <4>1. slot'[s].pc \notin {"initialize", "initialized"}
        BY <3>0 DEF Sending
      <4>. QED BY <1>2, <1>9, <3>0, <4>1 DEF Asking
    <3>3. M \subseteq L \cup {f}
      <4>. SUFFICES ASSUME NEW p \in Live(j)', p # f PROVE p \in Live(j)
        OBVIOUS
      <4>1. p \in Photos /\ file[p] = j
            /\ (row[p] \in DoneStatuses \/ SentTo(j, p)' \/ (Held(j, items', slot') /\ item'[j].photo = p))
        BY <1>6 DEF Live, Held
      <4>2. SentTo(j, p)' => SentTo(j, p)
        <5>. SUFFICES ASSUME NEW t \in Slots, slot'[t].key = j, slot'[t].pc \in Sending, slot'[t].target = p
             PROVE  SentTo(j, p)
          BY DEF SentTo
        <5>1. t # s
          BY <3>0
        <5>. QED BY <1>9, <5>1 DEF SentTo
      <4>. QED BY <3>0, <4>1, <4>2 DEF Live
    <3>4. A \in SUBSET Slots /\ L \in SUBSET Photos /\ L \cup {f} \in SUBSET Photos /\ Concurrency \in Nat
      BY UploadConstants DEF Asking, Live
    <3>5. \/ L = {} /\ Cardinality(A) <= Concurrency
          \/ Cardinality(A) + Cardinality(L) <= Concurrency
      <4>1. CASE Unanswered(j)
        <5>1. A \subseteq ProcessesOf(j) /\ Cardinality(ProcessesOf(j)) <= Concurrency
          BY DEF Asking, ProcessesOf, Places
        <5>2. ProcessesOf(j) \in SUBSET Slots /\ {} \in SUBSET Photos
          BY DEF ProcessesOf
        <5>3. /\ Cardinality(ProcessesOf(j)) \in Nat /\ Cardinality(A) \in Nat
              /\ Cardinality(A) + Cardinality({}) <= Cardinality(ProcessesOf(j)) + Cardinality({})
          <6>. HIDE DEF A
          <6>. QED BY <5>1, <5>2, FewerCopies
        <5>4. L = {}
          BY <1>1, <4>1 DEF CopiesOK
        <5>. HIDE DEF A, L
        <5>. QED BY <3>4, <5>1, <5>3, <5>4, FS_EmptySet
      <4>2. CASE ~Unanswered(j)
        BY <1>1, <4>2 DEF CopiesOK
      <4>. QED BY <4>1, <4>2
    <3>. HIDE DEF A, L, B, M
    <3>6. IsFiniteSet(A) /\ IsFiniteSet(L)
      BY <3>4, FiniteIds, FS_Subset
    <3>7. /\ Cardinality(A) \in Nat /\ Cardinality(L) \in Nat
          /\ Cardinality(A \ {s}) = Cardinality(A) - 1
          /\ Cardinality(L \cup {f}) <= Cardinality(L) + 1
      <4>1. Cardinality(A) \in Nat /\ Cardinality(L) \in Nat
        BY <3>6, FS_CardinalityType
      <4>2. Cardinality(A \ {s}) = Cardinality(A) - 1
        BY <3>2, <3>6, FS_RemoveElement
      <4>3. Cardinality(L \cup {f}) = IF f \in L THEN Cardinality(L) ELSE Cardinality(L) + 1
        BY <3>6, FS_AddElement
      <4>. QED BY <4>1, <4>2, <4>3
    <3>8. /\ Cardinality(B) \in Nat /\ Cardinality(M) \in Nat /\ Cardinality(L \cup {f}) \in Nat
          /\ Cardinality(B) + Cardinality(M) <= Cardinality(A \ {s}) + Cardinality(L \cup {f})
      <4>. DEFINE A1 == A \ {s}  L1 == L \cup {f}
      <4>1. A1 \in SUBSET Slots /\ L1 \in SUBSET Photos /\ B \in SUBSET A1 /\ M \in SUBSET L1
        BY <3>2, <3>3, <3>4
      <4>. HIDE DEF A1, L1
      <4>2. /\ Cardinality(B) \in Nat /\ Cardinality(M) \in Nat /\ Cardinality(L1) \in Nat
            /\ Cardinality(B) + Cardinality(M) <= Cardinality(A1) + Cardinality(L1)
        BY <4>1, FewerCopies
      <4>. QED BY <4>2 DEF A1, L1
    <3>9. L = {} => Cardinality(L) = 0
      BY FS_EmptySet
    <3>10. Cardinality(B) + Cardinality(M) <= Concurrency
      BY <3>4, <3>5, <3>7, <3>8, <3>9
    <3>11. Cardinality(Asking(j)') + Cardinality(Live(j)') <= Concurrency
      BY <3>10 DEF B, M
    <3>. QED BY <3>1, <3>11
  <2>. QED BY <2>2, <2>3
<1>. QED BY <1>19, <1>20, <1>21, <1>22, <1>23, <1>24, <1>26, <1>27, <1>28, <1>29, <1>30, <1>31, <1>32 DEF UploadsInv

-----------------------------------------------------------------------------
LEMMA UploadsInvInit == UploadsInit => UploadsInv
<1>. SUFFICES ASSUME UploadsInit PROVE UploadsInv
  OBVIOUS
<1>1. /\ added = 0 /\ departed = 0 /\ mounted = TRUE /\ items = {} /\ ops = {} /\ disowned = {}
      /\ item = [k \in Keys |-> NewItem] /\ slot = [s \in Slots |-> NoProcess]
      /\ restored = [k \in Keys |-> NoPhoto] /\ todo = [k \in Keys |-> NoEntry]
      /\ registry = [k \in Keys |-> NoEntry]
      /\ row = [p \in Photos |-> "none"] /\ file = [p \in Photos |-> 0]
  BY DEF UploadsInit
<1>2. UploadsTypeOK
  <2>1. item \in [Keys -> ItemRecords] /\ slot \in [Slots -> SlotRecords]
    BY <1>1, EmptyIs
  <2>2. /\ registry \in [Keys -> Entries] /\ todo \in [Keys -> Entries] /\ restored \in [Keys -> OrNoPhoto]
        /\ row \in [Photos -> RowStatuses] /\ file \in [Photos -> Keys \cup {0}]
    BY <1>1 DEF Entries, OrNoPhoto, RowStatuses
  <2>. QED BY <1>1, <2>1, <2>2 DEF UploadsTypeOK
<1>3. \A s \in Slots : slot[s].pc = "idle" /\ slot[s].key = 0 /\ slot[s].target = NoPhoto
  BY <1>1, EmptyIs
<1>4. \A k \in Keys : item[k].photo = NoPhoto /\ item[k].status = "queued"
  BY <1>1, EmptyIs
<1>5. \A k \in Keys, p \in Photos : ~Named(k, p)
  BY <1>1, <1>4, UploadConstants DEF Named
<1>6. KeysOK
  BY <1>1, <1>3, <1>4 DEF KeysOK
<1>7. RowsOK /\ NamedRows /\ TargetsOK /\ NewPhotosOK /\ HeldPhotos /\ NamesAgree
  BY <1>1, <1>3, <1>4, <1>5 DEF RowsOK, NamedRows, TargetsOK, NewPhotosOK, HeldPhotos, NamesAgree, Sending, Empty
<1>8. ItemsRegistered /\ ReadyDone /\ PageRegistered /\ WaitingKnown
  BY <1>1, UploadConstants DEF ItemsRegistered, ReadyDone, PageRegistered, WaitingKnown, Awaiting
<1>9. CopiesOK
  <2>. SUFFICES ASSUME NEW k \in Keys PROVE Live(k) = {} /\ Asking(k) = {}
    <3>1. Cardinality({}) = 0 /\ 0 + 0 <= Concurrency
      BY FS_EmptySet, UploadConstants
    <3>. QED BY <3>1, Zenon DEF CopiesOK
  <2>1. k > added
    BY <1>1, UploadConstants
  <2>. QED BY <1>2, <1>3, <1>6, <1>7, <2>1, LiveIs DEF Asking
<1>. QED BY <1>2, <1>6, <1>7, <1>8, <1>9 DEF UploadsInv

LEMMA UploadsInvNext == UploadsInv /\ Places /\ [UploadsNext]_uploadsVars => UploadsInv'
<1>. SUFFICES ASSUME UploadsInv, Places, [UploadsNext]_uploadsVars PROVE UploadsInv'
  OBVIOUS
<1>1. CASE UNCHANGED uploadsVars
  <2>1. UNCHANGED <<queueVars, pageVars, registry, ops>> /\ UNCHANGED <<row, file, disowned, items, added>>
    BY <1>1 DEF uploadsVars, queueVars, pageVars
  <2>2. UploadsTypeOK /\ added \in Nat /\ disowned \subseteq Photos
    BY UploadConstants DEF UploadsInv, UploadsTypeOK
  <2>3. Quiet /\ RowsGo
    BY <2>1, <2>2, QueueSame, RowsSame
  <2>. QED BY <2>1, <2>3, NothingSaid
<1>2. ASSUME NEW s \in Slots, Process(s) PROVE UploadsInv'
  BY <1>2, InitializeStep, InitializeFailsStep, InitializedStep, RequestLostStep, RePresignStep,
     PutStep, PartUrlsStep, PutPartStep, PoolSettledStep, CompleteMultipartStep, CompleteStep,
     CompletedStep, SleptStep, Zenon DEF Process
<1>3. ASSUME NEW o \in ops, Answer(o) PROVE UploadsInv'
  BY <1>3, AbortAnsweredStep, CancelDeletedStep, DiscardedStep, Zenon DEF Answer
<1>4. ASSUME NEW k \in Keys, Retry(k) \/ Cancel(k) \/ Discard(k) \/ Reconcile(k) PROVE UploadsInv'
  BY <1>4, RetryStep, CancelStep, DiscardStep, ReconcileStep, Zenon
<1>5. ASSUME NEW p \in Photos, ProcessPhoto(p) \/ FailStaleUploads(p) \/ DeletePhoto(p) PROVE UploadsInv'
  BY <1>5, ServerStep, Zenon
<1>6. CASE AddFiles \/ ClearFinished \/ AbortAll \/ ReloadTab \/ Mount \/ ApplyPhotoStatuses
  BY <1>6, AddFilesStep, ClearFinishedStep, AbortAllStep, ReloadTabStep, MountStep, ApplyPhotoStatusesStep, Zenon
<1>. QED BY <1>1, <1>2, <1>3, <1>4, <1>5, <1>6, Zenon DEF UploadsNext

-----------------------------------------------------------------------------
(* What the queue starts is what there is room for.                        *)

\* The first n of a set of numbers are no more than n ...
LEMMA FirstFew ==
  ASSUME NEW m \in Nat, NEW S \in SUBSET (1..m), NEW n \in Nat
  PROVE  LET F == {k \in S : Rank(k, S) <= n} IN IsFiniteSet(F) /\ Cardinality(F) <= n
<1>. DEFINE F == {k \in S : Rank(k, S) <= n}
            Above == {b \in Nat : \A x \in F : x <= b}
<1>1. IsFiniteSet(1..m) /\ IsFiniteSet(S) /\ IsFiniteSet(F)
  <2>1. IsFiniteSet(1..m)
    BY FS_Interval
  <2>2. IsFiniteSet(S)
    BY <2>1, FS_Subset
  <2>. QED BY <2>1, <2>2, FS_Subset
<1>2. CASE F = {}
  BY <1>1, <1>2, FS_EmptySet
<1>3. CASE F # {}
  <2>1. PICK b \in Above : \A c \in Above : b <= c
    <3>1. m \in Above /\ Above \in SUBSET Nat
      OBVIOUS
    <3>. HIDE DEF Above
    <3>. QED BY <3>1, Least
  <2>2. b \in F
    <3>. SUFFICES ASSUME b \notin F PROVE FALSE
      OBVIOUS
    <3>1. PICK x \in F : x \in 1..m
      BY <1>3
    <3>2. \A y \in F : y \in Nat /\ y <= b - 1
      BY <2>1
    <3>3. b - 1 \in Above
      BY <2>1, <3>1, <3>2
    <3>. QED BY <2>1, <3>3
  <2>3. F \subseteq {y \in S : y <= b}
    BY <2>1
  <2>4. Rank(b, S) <= n
    BY <2>2
  <2>. HIDE DEF F
  <2>5. Cardinality(F) <= Cardinality({y \in S : y <= b})
    BY <1>1, <2>3, FS_Subset
  <2>6. Cardinality(F) \in Nat /\ Cardinality({y \in S : y <= b}) \in Nat
    <3>. DEFINE B == {y \in S : y <= b}
    <3>1. B \in SUBSET S
      OBVIOUS
    <3>. HIDE DEF B
    <3>2. IsFiniteSet(B)
      BY <1>1, <3>1, FS_Subset
    <3>3. Cardinality(F) \in Nat /\ Cardinality(B) \in Nat
      BY <1>1, <3>2, FS_CardinalityType
    <3>. QED BY <3>3 DEF B
  <2>7. Rank(b, S) = Cardinality({y \in S : y <= b})
    BY DEF Rank
  <2>8. IsFiniteSet(F) /\ Cardinality(F) <= n
    BY <1>1, <2>4, <2>5, <2>6, <2>7
  <2>. QED BY <2>8 DEF F
<1>. QED BY <1>1, <1>2, <1>3

\* ... and each of them has a rank of its own.
LEMMA RanksDiffer ==
  ASSUME NEW m \in Nat, NEW S \in SUBSET (1..m), NEW x \in S, NEW y \in S, Rank(x, S) = Rank(y, S)
  PROVE  x = y
<1>1. ASSUME NEW a \in S, NEW b \in S, a < b PROVE Rank(a, S) # Rank(b, S)
  <2>. DEFINE A == {z \in S : z <= a}  B == {z \in S : z <= b}
  <2>1. IsFiniteSet(S)
    <3>1. IsFiniteSet(1..m)
      BY FS_Interval
    <3>. QED BY <3>1, FS_Subset
  <2>2. IsFiniteSet(B) /\ A \in SUBSET B /\ b \in B /\ b \notin A
    <3>a. a \in Int /\ b \in Int /\ a < b /\ \A z \in S : z \in Int
      BY <1>1
    <3>1. B \in SUBSET S /\ b \in B /\ b \notin A /\ A \in SUBSET B
      <4>1. \A z \in A : z \in B
        BY <3>a
      <4>2. b \in B /\ b \notin A
        BY <3>a
      <4>. QED BY <4>1, <4>2
    <3>. HIDE DEF A, B
    <3>. QED BY <2>1, <3>1, FS_Subset
  <2>. HIDE DEF A, B
  <2>3. Cardinality(A) # Cardinality(B)
    BY <2>2, FS_Subset
  <2>. QED BY <2>3 DEF Rank, A, B
<1>2. x \in Int /\ y \in Int
  OBVIOUS
<1>. QED BY <1>1, <1>2

LEMMA FewProcesses ==
  ASSUME NEW A \in SUBSET Slots, NEW B \in SUBSET A, Cardinality(A) <= Concurrency
  PROVE  Cardinality(B) <= Concurrency
<1>1. {} \in SUBSET Photos /\ {} \in SUBSET {}
  OBVIOUS
<1>2. /\ Cardinality(A) \in Nat /\ Cardinality(B) \in Nat
      /\ Cardinality(B) + Cardinality({}) <= Cardinality(A) + Cardinality({})
  BY <1>1, FewerCopies
<1>. QED BY <1>2, FS_EmptySet, UploadConstants

\* A process ends or goes on with its file; queues are left.
LEMMA PlacesKept ==
  ASSUME UploadsTypeOK, Places, departed' \in Nat, departed <= departed',
         \A s \in Slots : slot'[s].key \in {0, slot[s].key}
  PROVE  Places'
<1>1. slot \in [Slots -> SlotRecords] /\ departed \in Nat /\ \A s \in Slots : slot[s].key \in Nat
  BY UploadConstants DEF UploadsTypeOK, SlotRecords
<1>2. ActiveSlots' \subseteq ActiveSlots
  BY <1>1 DEF ActiveSlots
<1>3. \A k \in Keys : ProcessesOf(k)' \subseteq ProcessesOf(k)
  BY UploadConstants DEF ProcessesOf
<1>4. ActiveSlots \in SUBSET Slots /\ \A k \in Keys : ProcessesOf(k) \in SUBSET Slots
  BY DEF ActiveSlots, ProcessesOf
<1>5. Cardinality(ActiveSlots') <= Concurrency
  <2>. DEFINE A == ActiveSlots  B == ActiveSlots'
  <2>1. A \in SUBSET Slots /\ B \in SUBSET A /\ Cardinality(A) <= Concurrency
    BY <1>2, <1>4 DEF Places
  <2>. HIDE DEF A, B
  <2>2. Cardinality(B) <= Concurrency
    BY <2>1, FewProcesses
  <2>. QED BY <2>2 DEF B
<1>6. ASSUME NEW k \in Keys PROVE Cardinality(ProcessesOf(k)') <= Concurrency
  <2>. DEFINE A == ProcessesOf(k)  B == ProcessesOf(k)'
  <2>1. A \in SUBSET Slots /\ B \in SUBSET A /\ Cardinality(A) <= Concurrency
    BY <1>3, <1>4 DEF Places
  <2>. HIDE DEF A, B
  <2>2. Cardinality(B) <= Concurrency
    BY <2>1, FewProcesses
  <2>. QED BY <2>2 DEF B
<1>. QED BY <1>5, <1>6 DEF Places

LEMMA AttemptKey ==
  ASSUME NEW k \in Keys, NEW it
  PROVE  Attempt(k, it).key = k
BY DEF Attempt, NoProcess

\* pump() starts no more processes than there are places left.
LEMMA PumpPlaces ==
  ASSUME UploadsTypeOK, Places, departed' = departed, NEW it, NEW in, NEW sl, NEW ct,
         Pump(it, in, sl, ct), \A k \in in : k \in Keys /\ k > departed,
         \A s \in Slots : sl[s].key \in {0, slot[s].key} /\ (sl[s].pc = "idle" => sl[s].key = 0)
  PROVE  Places'
<1>. DEFINE waiting == {k \in in : it[k].status = "queued"}
            idle    == {s \in Slots : sl[s].pc = "idle"}
            running == {s \in Slots \ idle : sl[s].key > departed}
            active  == Cardinality(running)
            started == {k \in waiting : Rank(k, waiting) <= Concurrency - active}
            Runs(s, k) == Rank(s, idle) = Rank(k, started)
            new     == {s \in idle : \E k \in started : Runs(s, k)}
            sl2 == [s \in Slots |-> IF s \in idle /\ \E k \in started : Runs(s, k)
                                    THEN Attempt(CHOOSE k \in started : Runs(s, k), it) ELSE sl[s]]
<1>1. slot' = sl2
  BY DEF Pump, Unpumped
<1>2. /\ departed \in Nat /\ \A s \in Slots : slot[s].key \in Nat
      /\ MaxSlots \in Nat /\ Slots = 1..MaxSlots /\ IsFiniteSet(Slots)
  <2>1. MaxSlots \in Nat /\ Slots = 1..MaxSlots
    BY BrowserUploadsAssumption DEF Slots
  <2>2. IsFiniteSet(1..MaxSlots)
    BY <2>1, FS_Interval
  <2>3. departed \in Nat /\ \A s \in Slots : slot[s].key \in Nat
    BY UploadConstants DEF UploadsTypeOK, SlotRecords
  <2>. QED BY <2>1, <2>2, <2>3
<1>3. /\ Cardinality(running) <= Concurrency /\ IsFiniteSet(running) /\ active \in Nat
  <2>1. ActiveSlots \in SUBSET Slots /\ Cardinality(ActiveSlots) <= Concurrency
    BY DEF ActiveSlots, Places
  <2>2. running \subseteq ActiveSlots /\ running \in SUBSET Slots
    BY <1>2 DEF ActiveSlots
  <2>. HIDE DEF running
  <2>3. IsFiniteSet(running)
    BY <1>2, <2>2, FS_Subset
  <2>. QED BY <2>1, <2>2, <2>3, FewProcesses, FS_CardinalityType
<1>4. IsFiniteSet(started) /\ Cardinality(started) <= Concurrency - active
  <2>1. waiting \in SUBSET (1..MaxFiles) /\ MaxFiles \in Nat /\ Concurrency - active \in Nat
    BY <1>3, UploadConstants
  <2>. HIDE DEF waiting, active
  <2>. QED BY <2>1, FirstFew
<1>5. started \subseteq in /\ new \subseteq idle /\ idle \subseteq Slots
  OBVIOUS
<1>6. \A s \in Slots : \/ s \notin new /\ slot'[s] = sl[s]
                       \/ s \in new /\ \E k \in started : slot'[s].key = k
  <2>. TAKE s \in Slots
  <2>1. CASE s \in new
    <3>1. (CHOOSE k \in started : Runs(s, k)) \in started
      BY <2>1
    <3>. HIDE DEF started, Runs
    <3>2. sl2[s] = Attempt(CHOOSE k \in started : Runs(s, k), it)
      BY <2>1
    <3>3. PICK k \in started : sl2[s] = Attempt(k, it)
      BY <3>1, <3>2
    <3>4. sl2[s].key = k
      BY <3>3 DEF Attempt, NoProcess
    <3>. HIDE DEF sl2, new
    <3>. QED BY <1>1, <2>1, <3>3, <3>4
  <2>2. CASE s \notin new
    <3>. HIDE DEF started, Runs, idle
    <3>. QED BY <1>1, <2>2
  <2>. QED BY <2>1, <2>2
<1>7. IsFiniteSet(new) /\ Cardinality(new) <= Cardinality(started)
  <2>1. IsFiniteSet(new)
    BY <1>2, <1>5, FS_Subset
  <2>2. ASSUME Cardinality(started) < Cardinality(new) PROVE FALSE
    <3>. DEFINE f == [s \in new |-> CHOOSE k \in started : Runs(s, k)]
    <3>1. \A s \in new : f[s] \in started /\ Runs(s, f[s])
      OBVIOUS
    <3>2. f \in [new -> started]
      BY <3>1
    <3>. HIDE DEF f, new, started, Runs
    <3>3. PICK s \in new, t \in new : s # t /\ f[s] = f[t]
      BY <1>4, <2>1, <2>2, <3>2, FS_PigeonHole
    <3>4. Rank(s, idle) = Rank(t, idle)
      BY <3>1, <3>3 DEF Runs
    <3>5. s \in idle /\ t \in idle /\ idle \in SUBSET (1..MaxSlots)
      BY <1>2, <1>5
    <3>. HIDE DEF idle
    <3>. QED BY <1>2, <3>3, <3>4, <3>5, RanksDiffer
  <2>3. Cardinality(new) \in Nat /\ Cardinality(started) \in Nat
    BY <1>4, <2>1, FS_CardinalityType
  <2>. HIDE DEF new, started
  <2>. QED BY <2>1, <2>2, <2>3
<1>8. ActiveSlots' \subseteq running \cup new
  <2>. SUFFICES ASSUME NEW s \in Slots, slot'[s].key > departed, s \notin new PROVE s \in running
    BY DEF ActiveSlots
  <2>1. slot'[s] = sl[s]
    BY <1>6
  <2>2. sl[s].key # 0
    BY <1>2, <2>1
  <2>. QED BY <2>1, <2>2
<1>9. IsFiniteSet(running \cup new) /\ Cardinality(running \cup new) <= Concurrency
  <2>. HIDE DEF running, new, started
  <2>1. /\ IsFiniteSet(running \cup new) /\ IsFiniteSet(running \cap new)
        /\ Cardinality(running \cup new) = Cardinality(running) + Cardinality(new) - Cardinality(running \cap new)
    BY <1>3, <1>7, FS_Union, FS_Intersection
  <2>2. /\ Cardinality(new) \in Nat /\ Cardinality(started) \in Nat /\ Cardinality(running \cap new) \in Nat
        /\ Cardinality(running \cup new) \in Nat
    BY <1>4, <1>7, <2>1, FS_CardinalityType
  <2>. QED BY <1>3, <1>4, <1>7, <2>1, <2>2, UploadConstants
<1>10. Cardinality(ActiveSlots') <= Concurrency /\ ActiveSlots' \in SUBSET Slots
  <2>. DEFINE A == running \cup new  B == ActiveSlots'
  <2>1. A \in SUBSET Slots /\ B \in SUBSET A /\ Cardinality(A) <= Concurrency /\ B \in SUBSET Slots
    BY <1>5, <1>8, <1>9
  <2>. HIDE DEF A, B
  <2>2. Cardinality(B) <= Concurrency
    BY <2>1, FewProcesses
  <2>. QED BY <2>1, <2>2 DEF B
<1>11. ASSUME NEW k \in Keys PROVE Cardinality(ProcessesOf(k)') <= Concurrency
  <2>1. PICK A \in SUBSET Slots : ProcessesOf(k)' \subseteq A /\ Cardinality(A) <= Concurrency
    <3>1. CASE k > departed
      <4>1. ProcessesOf(k)' \subseteq ActiveSlots'
        BY <3>1 DEF ProcessesOf, ActiveSlots
      <4>. QED BY <1>10, <4>1
    <3>2. CASE ~(k > departed)
      <4>1. ProcessesOf(k)' \subseteq ProcessesOf(k)
        <5>. SUFFICES ASSUME NEW s \in Slots, slot'[s].key = k PROVE slot[s].key = k
          BY DEF ProcessesOf
        <5>1. s \notin new
          BY <1>5, <1>6, <3>2
        <5>. QED BY <1>6, <5>1, UploadConstants
      <4>2. ProcessesOf(k) \in SUBSET Slots /\ Cardinality(ProcessesOf(k)) <= Concurrency
        BY DEF ProcessesOf, Places
      <4>. QED BY <4>1, <4>2
    <3>. QED BY <3>1, <3>2
  <2>. DEFINE B == ProcessesOf(k)'
  <2>2. B \in SUBSET A
    BY <2>1
  <2>. HIDE DEF B
  <2>3. Cardinality(B) <= Concurrency
    BY <2>1, <2>2, FewProcesses
  <2>. QED BY <2>3 DEF B
<1>. QED BY <1>10, <1>11 DEF Places

LEMMA ReturnPlaces ==
  ASSUME UploadsTypeOK, KeysOK, Places, departed' = departed,
         NEW s \in Slots, NEW it, NEW ct, Return(s, it, ct)
  PROVE  Places'
<1>. DEFINE sl == [slot EXCEPT ![s] = NoProcess]
<1>1. /\ \A t \in Slots : sl[t].key \in {0, slot[t].key} /\ (sl[t].pc = "idle" => sl[t].key = 0)
      /\ \A k \in items : k \in Keys /\ k > departed
  <2>1. slot \in [Slots -> SlotRecords] /\ \A t \in Slots : slot[t].pc = "idle" => slot[t].key = 0
    BY DEF UploadsTypeOK, KeysOK
  <2>2. \A t \in Slots : sl[t] = slot[t] \/ sl[t] = NoProcess
    BY <2>1
  <2>3. \A k \in items : k \in Keys /\ k > departed
    BY UploadConstants DEF UploadsTypeOK, KeysOK
  <2>. HIDE DEF sl
  <2>. QED BY <2>1, <2>2, <2>3, EmptyIs
<1>2. departed \in Nat /\ departed <= departed'
  BY UploadConstants DEF UploadsTypeOK
<1>3. CASE Pump(it, items, sl, ct)
  <2>. HIDE DEF sl
  <2>. QED BY <1>1, <1>3, PumpPlaces
<1>4. CASE Unpumped(it, items, sl, ct)
  BY <1>1, <1>2, <1>4, PlacesKept DEF Unpumped
<1>. QED BY <1>3, <1>4 DEF Return

LEMMA FailPlaces ==
  ASSUME UploadsTypeOK, KeysOK, Places, departed' = departed, NEW s \in Slots, NEW why, Fail(s, why)
  PROVE  Places'
<1>1. CASE \E it, ct : Return(s, it, ct)
  BY <1>1, ReturnPlaces
<1>2. CASE \E it, ct : Unpumped(it, items, [slot EXCEPT ![s] = [NoProcess EXCEPT !.key = slot[s].key, !.pc = "sleep"]], ct)
  <2>1. slot' = [slot EXCEPT ![s] = [NoProcess EXCEPT !.key = slot[s].key, !.pc = "sleep"]]
    BY <1>2 DEF Unpumped
  <2>2. slot'[s].key = slot[s].key /\ \A t \in Slots \ {s} : slot'[t] = slot[t]
    BY <2>1 DEF NoProcess, UploadsTypeOK
  <2>3. departed \in Nat /\ departed <= departed'
    BY UploadConstants DEF UploadsTypeOK
  <2>. QED BY <2>2, <2>3, PlacesKept
<1>. QED BY <1>1, <1>2, Zenon DEF Fail

LEMMA AbortKey ==
  ASSUME UploadsTypeOK, KeysOK, NEW s \in Slots
  PROVE  Abort(s).key = slot[s].key /\ (Abort(s).pc = "idle" => Abort(s).key = 0)
BY DEF Abort, UploadsTypeOK, SlotRecords, KeysOK

\* Processes start, end, and go on.
LEMMA PlacesNext == UploadsInv /\ Places /\ [UploadsNext]_uploadsVars => Places'
<1>. SUFFICES ASSUME UploadsInv, Places, [UploadsNext]_uploadsVars PROVE Places'
  OBVIOUS
<1>1. /\ UploadsTypeOK /\ KeysOK /\ departed \in Nat /\ added \in Nat /\ departed <= added
      /\ slot \in [Slots -> SlotRecords]
      /\ \A k \in items : k \in Keys /\ k > departed
      /\ \A s \in Slots : slot[s].pc = "idle" => slot[s].key = 0
  BY UploadConstants DEF UploadsInv, UploadsTypeOK, KeysOK
<1>. HIDE DEF UploadsInv
<1>2. ASSUME departed' \in Nat, departed <= departed', \A s \in Slots : slot'[s].key \in {0, slot[s].key}
      PROVE  Places'
  BY <1>1, <1>2, PlacesKept
<1>3. ASSUME departed' = departed, slot' = slot PROVE Places'
  BY <1>1, <1>2, <1>3
<1>4. CASE UNCHANGED uploadsVars
  BY <1>3, <1>4 DEF uploadsVars
<1>5. ASSUME NEW s \in Slots, Process(s) PROVE Places'
  <2>1. departed' = departed
    BY <1>5 DEF Process, pageVars, Initialize, InitializeFails, Initialized, RequestLost, RePresign, Put,
          PartUrls, PutPart, PoolSettled, CompleteMultipart, Complete, Completed, Slept
  <2>2. CASE \E why : Fail(s, why)
    BY <1>1, <2>1, <2>2, FailPlaces
  <2>3. CASE \E it, ct : Return(s, it, ct)
    BY <1>1, <2>1, <2>3, ReturnPlaces
  <2>4. CASE slot' \in [Slots -> SlotRecords] /\ \A t \in Slots : slot'[t].key = slot[t].key
    BY <1>1, <1>2, <2>1, <2>4
  <2>5. ASSUME NEW pc, NEW p, Await(s, pc, p) PROVE Places'
    <3>1. \A t \in Slots : slot'[t].key = slot[t].key
      BY <1>1, <2>5 DEF Await, SlotRecords
    <3>. QED BY <1>1, <1>2, <2>1, <3>1
  <2>6. CASE Initialize(s) \/ RePresign(s) \/ Put(s) \/ PartUrls(s) \/ PoolSettled(s) \/ CompleteMultipart(s)
    BY <2>2, <2>5, <2>6, Zenon DEF Initialize, RePresign, Put, PartUrls, PoolSettled, CompleteMultipart
  <2>7. CASE InitializeFails(s) \/ RequestLost(s) \/ Completed(s)
    BY <2>2, <2>3, <2>7, Zenon DEF InitializeFails, RequestLost, Completed
  <2>8. CASE Initialized(s)
    <3>. DEFINE k == slot[s].key
                b == IF uploadKindFor(k) = "simple" THEN [slot[s] EXCEPT !.pc = "put"]
                     ELSE Attempt(k, [item EXCEPT ![k].photo = slot[s].target])
    <3>1. slot' = [slot EXCEPT ![s] = b]
      BY <2>8 DEF Initialized
    <3>2. k \in Keys
      BY <1>1, <2>8 DEF Initialized, KeysOK, SlotRecords
    <3>3. b.key = k
      BY <1>1, <3>2, AttemptKey DEF SlotRecords
    <3>. HIDE DEF b
    <3>4. \A t \in Slots : slot'[t].key = slot[t].key
      BY <1>1, <3>1, <3>3
    <3>. QED BY <1>1, <1>2, <2>1, <3>4
  <2>9. CASE PutPart(s)
    <3>1. PICK n, e : slot' = [slot EXCEPT ![s].parts = @ \ {n}, ![s].error = IF @ = "ok" THEN e ELSE @]
      BY <2>9, Zenon DEF PutPart
    <3>2. \A t \in Slots : slot'[t].key = slot[t].key
      BY <1>1, <3>1 DEF SlotRecords
    <3>. QED BY <1>1, <1>2, <2>1, <3>2
  <2>10. CASE Complete(s)
    <3>1. PICK e : slot' = [slot EXCEPT ![s].pc = "completed", ![s].error = e]
      BY <2>10, Zenon DEF Complete
    <3>2. \A t \in Slots : slot'[t].key = slot[t].key
      BY <1>1, <3>1 DEF SlotRecords
    <3>. QED BY <1>1, <1>2, <2>1, <3>2
  <2>11. CASE Slept(s)
    <3>. DEFINE k == slot[s].key
    <3>1. k \in Keys
      BY <1>1, <2>11 DEF Slept, KeysOK, SlotRecords
    <3>2. CASE slot' = [slot EXCEPT ![s] = Attempt(k, item)]
      <4>1. \A t \in Slots : slot'[t].key = slot[t].key
        BY <1>1, <3>1, <3>2, AttemptKey
      <4>. QED BY <1>1, <1>2, <2>1, <4>1
    <3>. QED BY <2>3, <2>11, <3>2, Zenon DEF Slept, Unpumped
  <2>. QED BY <1>5, <2>6, <2>7, <2>8, <2>9, <2>10, <2>11, Zenon DEF Process
<1>6. ASSUME departed' = departed, NEW it, NEW in, NEW ct, \A k \in in : k \in Keys /\ k > departed,
             Pump(it, in, slot, ct)
      PROVE  Places'
  BY <1>1, <1>6, PumpPlaces
<1>7. ASSUME departed' = departed, NEW it, NEW in, NEW ct, Unpumped(it, in, slot, ct) PROVE Places'
  BY <1>3, <1>7 DEF Unpumped
<1>8. ASSUME NEW o \in ops, Answer(o) PROVE Places'
  <2>1. departed' = departed
    BY <1>8 DEF Answer, AbortAnswered, CancelDeleted, Discarded, pageVars
  <2>2. CASE UNCHANGED queueVars
    BY <1>3, <2>1, <2>2 DEF queueVars
  <2>. QED BY <1>1, <1>6, <1>7, <1>8, <2>1, <2>2, Zenon DEF Answer, AbortAnswered, CancelDeleted, Discarded
<1>9. ASSUME NEW k \in Keys, Retry(k) \/ Cancel(k) \/ Discard(k) \/ Reconcile(k) PROVE Places'
  <2>1. departed' = departed
    BY <1>9 DEF Retry, Cancel, Discard, Reconcile, pageVars
  <2>2. CASE UNCHANGED queueVars
    BY <1>3, <2>1, <2>2 DEF queueVars
  <2>3. CASE Cancel(k)
    <3>. DEFINE sl == [s \in Slots |-> IF controller[k] = s THEN Abort(s) ELSE slot[s]]
                ct == [controller EXCEPT ![k] = NoSlot]
                in == items \ {k}
    <3>1. Pump(item, in, sl, ct) \/ Unpumped(item, in, sl, ct)
      BY <2>3, Zenon DEF Cancel
    <3>2. \A s \in Slots : sl[s].key = slot[s].key /\ (sl[s].pc = "idle" => sl[s].key = 0)
      BY <1>1, AbortKey
    <3>3. \A j \in in : j \in Keys /\ j > departed
      BY <1>1
    <3>. HIDE DEF sl, in, ct
    <3>4. CASE Pump(item, in, sl, ct)
      BY <1>1, <2>1, <3>2, <3>3, <3>4, PumpPlaces
    <3>5. CASE Unpumped(item, in, sl, ct)
      BY <1>1, <1>2, <2>1, <3>2, <3>5 DEF Unpumped
    <3>. QED BY <3>1, <3>4, <3>5
  <2>. QED BY <1>1, <1>6, <1>7, <1>9, <2>1, <2>2, <2>3, Zenon DEF Retry, Discard, Reconcile
<1>10. ASSUME NEW p \in Photos, ProcessPhoto(p) \/ FailStaleUploads(p) \/ DeletePhoto(p) PROVE Places'
  <2>1. UNCHANGED <<queueVars, pageVars>>
    BY <1>10, Zenon DEF ProcessPhoto, FailStaleUploads, DeletePhoto
  <2>. QED BY <1>3, <2>1 DEF queueVars, pageVars
<1>11. CASE AddFiles
  <2>. DEFINE in == (items \ Ready) \cup (IF validateFile(added + 1) THEN {added + 1} ELSE {})
  <2>1. Pump(item, in, slot, controller) /\ departed' = departed /\ added < MaxFiles
    BY <1>11 DEF AddFiles
  <2>2. \A k \in in : k \in Keys /\ k > departed
    BY <1>1, <2>1, UploadConstants
  <2>. HIDE DEF in
  <2>. QED BY <1>6, <2>1, <2>2
<1>12. CASE ClearFinished
  BY <1>7, <1>12 DEF ClearFinished, pageVars
<1>13. CASE AbortAll
  <2>1. slot' = [s \in Slots |-> IF slot[s].pc # "idle" /\ controller[slot[s].key] = s
                                 THEN Abort(s) ELSE slot[s]] /\ departed' = added
    BY <1>13 DEF AbortAll, Unpumped
  <2>. QED BY <1>1, <1>2, <2>1, AbortKey
<1>14. CASE ReloadTab
  <2>1. slot' = [s \in Slots |-> NoProcess] /\ departed' = added
    BY <1>14 DEF ReloadTab, Unpumped
  <2>. QED BY <1>1, <1>2, <2>1, EmptyIs
<1>15. CASE Mount \/ ApplyPhotoStatuses
  BY <1>3, <1>15 DEF Mount, ApplyPhotoStatuses, queueVars, pageVars
<1>. QED BY <1>4, <1>5, <1>8, <1>9, <1>10, <1>11, <1>12, <1>13, <1>14, <1>15, Zenon DEF UploadsNext

LEMMA PlacesInit == UploadsInit => Places
<1>. SUFFICES ASSUME UploadsInit PROVE Places
  OBVIOUS
<1>1. departed = 0 /\ \A s \in Slots : slot[s].key = 0
  BY EmptyIs DEF UploadsInit
<1>2. ActiveSlots = {}
  <2>1. ~(0 > 0)
    OBVIOUS
  <2>. QED BY <1>1, <2>1 DEF ActiveSlots
<1>3. \A k \in Keys : ProcessesOf(k) = {}
  BY <1>1, UploadConstants DEF ProcessesOf
<1>. QED BY <1>2, <1>3, FS_EmptySet, UploadConstants DEF Places

\* The queue's inductive invariant: every row of the server is accounted for
\* by the map, a process, the registry or a request, and no more processes run
\* than the queue allows (uploader.ts:366-462).
THEOREM UploadsInvariant == UploadsSpec => [](UploadsInv /\ Places)
BY UploadsInvInit, UploadsInvNext, PlacesInit, PlacesNext, PTL DEF UploadsSpec

LEMMA InvNothingForgotten == UploadsInv => NoUploadForgotten
BY DEF UploadsInv, WaitingKnown, Awaiting, Answered, Undoing, NoUploadForgotten

\* No upload the server waits for is out of the user's reach: what waits and
\* is not excepted is in the registry, being answered or being undone, across
\* reloads and departures (uploader.ts:252-356, 446-450, 553-562).
THEOREM NothingForgotten == UploadsSpec => []NoUploadForgotten
BY UploadsInvariant, InvNothingForgotten, PTL

\* The photos a file has become.
CopiesOf(k) == {p \in Photos : file[p] = k /\ row[p] \in DoneStatuses}
CopiesBounded == \A k \in Keys : Cardinality(CopiesOf(k)) <= Concurrency

LEMMA InvCopiesBounded == UploadsInv => CopiesBounded
<1>. SUFFICES ASSUME UploadsInv, NEW k \in Keys PROVE Cardinality(CopiesOf(k)) <= Concurrency
  BY DEF CopiesBounded
<1>. DEFINE A == Asking(k)  L == Live(k)  M == CopiesOf(k)
<1>1. A \in SUBSET Slots /\ L \in SUBSET Photos /\ M \in SUBSET L /\ {} \in SUBSET A /\ Concurrency \in Nat
  BY UploadConstants DEF Asking, Live, CopiesOf
<1>2. L = {} \/ Cardinality(A) + Cardinality(L) <= Concurrency
  BY DEF UploadsInv, CopiesOK
<1>. HIDE DEF A, L, M
<1>3. /\ Cardinality(A) \in Nat /\ Cardinality(L) \in Nat /\ Cardinality(M) \in Nat
      /\ Cardinality({}) + Cardinality(M) <= Cardinality(A) + Cardinality(L)
  BY <1>1, FewerCopies
<1>4. Cardinality({}) = 0 /\ (L = {} => M = {})
  BY <1>1, FS_EmptySet
<1>5. Cardinality(M) <= Concurrency
  BY <1>1, <1>2, <1>3, <1>4, FS_EmptySet
<1>. QED BY <1>5 DEF M

\* However often a file is tried again, and whatever is cancelled, left or
\* lost meanwhile, it becomes no more photos than the queue runs processes
\* beside each other.  A process that waits for its next attempt is queued, so
\* pump() may start a second one of the same file (uploader.ts:366-385, 419-426);
\* once one of them has a photo, no attempt asks for another (445-461).
THEOREM CopiesAreBounded == UploadsSpec => []CopiesBounded
BY UploadsInvariant, InvCopiesBounded, PTL
=============================================================================
