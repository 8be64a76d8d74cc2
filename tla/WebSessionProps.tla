--------------------------- MODULE WebSessionProps ---------------------------
(***************************************************************************)
(* What signing in owes the user: one rotation at a time, no session lost  *)
(* to its own tabs, none left behind when it is ended.                     *)
(***************************************************************************)
EXTENDS WebSession

\* A family has one token that can still be used, whatever pages are left,
\* answers lost or requests joined (bff.ts:129 refreshOnce, service.go:167).
OneValidToken ==
    \A j, k \in Tokens : j # k /\ family[j] = family[k] /\ token[j] = "valid" => token[k] # "valid"

\* Two tabs never have their own family revoked: a token comes back a second
\* time only when an answer was lost, or the session is being ended
\* (session.ts:88 withRefreshLock; F1 plan:36 "two tabs must never race").
TabsNeverRace == reused \subseteq left \cup raced \cup ended

\* An ended session is over: no token of its family can be used once the
\* requests about it are done (bff.ts:191 logoutHandler, service.go:174,
\* 216), unless a refresh was under way or an answer was lost.
EndedStaysEnded ==
    \A f \in ended \ (left \cup raced) :
        (~\E r \in Requests : f \in Families({request[r].token})) =>
            \A k \in Tokens : family[k] = f => token[k] # "valid"

=============================================================================
