---------------------------- MODULE BillingProps ----------------------------
(***************************************************************************)
(* What subscriptions and their page promise.                              *)
(***************************************************************************)
EXTENDS Billing

\* A subscription that is over and was not cancelled: the page goes on showing
\* it, the server no longer finds it.
Lapsed == \E n \in Made : Usable(subs[n]) /\ subs[n].over /\ ~subs[n].cancel

\* What the grid offers on a view of the table as it is, the server accepts:
\* the two decide by the plan, its price and the subscription's status, each
\* with a query of its own (format.ts:51, service.go:202).  It is not so of a
\* lapsed subscription.
GridAccepted ==
    \A d \in PlanGrid(ViewOf(ExpiredOnRead)) : Lapsed \/ BillingVerdict(d.mode, d.plan) = "write"

\* A webhook that found its invoice, or its subscription, in the table and was
\* answered with success has had its effect, however often it was delivered and
\* whatever call failed; the record of one whose handler stops, or cannot take
\* the record back, is lost (service.go:324).  One that came before its row was
\* written is answered and has none (service.go:355, 366, 381).
Applied(e) == IF e.type = "paid" THEN invoices[e.sub] = "paid" ELSE subs[e.sub].status = "canceled"
AnsweredIsApplied == \A e \in answered \cap landed : Applied(e) \/ e \in lostRecord \/ e = HookEvent

=============================================================================
