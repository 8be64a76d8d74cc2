------------------------------- MODULE Billing -------------------------------
(***************************************************************************)
(* Subscriptions: the server's handlers and webhooks (internal/billing),   *)
(* and the billing page of one operator (features/billing), beside another *)
(* page of the same operator.  A handler reads the subscription and then   *)
(* writes it.  A period, once over, is not renewed: nothing in the code    *)
(* does.  Statuses nothing sets (trialing, past_due) do not occur.         *)
(***************************************************************************)
EXTENDS Naturals, FiniteSets

CONSTANTS
    PriceOf,         \* the active plans' prices; "free" costs nothing
    MaxSubs,         \* bound: subscriptions of the operator
    MaxIncidents     \* bound: requests of the other page, and failed calls

ASSUME BillingAssumption ==
    /\ PriceOf["free"] = 0 /\ \A p \in DOMAIN PriceOf : PriceOf[p] \in Nat
    /\ {MaxSubs, MaxIncidents} \subseteq Nat

VARIABLES
    subs,            \* the table of subscriptions, in the order of creation
    invoices,        \* the invoice of each
    view, viewAsk,   \* the page's subscription query: its data, its request in flight
    dialog, offline, \* the dialog that is open, and whether it shows the offline note
    change,          \* the page's mutation in flight
    hook,            \* the webhook that is being handled
    recorded, answered, \* events: recorded, answered with success
    lostRecord,      \* events a failure left recorded, or took back too late
    landed,          \* history: events recorded when their row was in the table
    incidents

billingVars == <<subs, invoices, view, viewAsk, dialog, offline, change, hook, recorded, answered, lostRecord, landed, incidents>>

Plans  == DOMAIN PriceOf
SubIds == 1..MaxSubs
Modes  == {"subscribe", "upgrade", "downgrade", "cancel", "resume"}
NoSub  == [plan |-> "none", status |-> "none", cancel |-> FALSE, over |-> FALSE]
NoView == [plan |-> "none", usable |-> FALSE, cancel |-> FALSE]
NoDialog == [mode |-> "none", plan |-> "none"]
NoChange == [mode |-> "none", plan |-> "none", at |-> "idle", sub |-> 0, left |-> FALSE]
NoAskView == [on |-> FALSE, answer |-> NoView]

BillingInit ==
    /\ subs = [n \in SubIds |-> NoSub] /\ invoices = [n \in SubIds |-> "none"]
    /\ view = NoView /\ viewAsk = NoAskView /\ dialog = NoDialog /\ offline = FALSE
    /\ change = NoChange /\ hook = [type |-> "none", sub |-> 0, failed |-> FALSE]
    /\ recorded = {} /\ answered = {} /\ lostRecord = {} /\ landed = {} /\ incidents = 0

Incident == incidents < MaxIncidents /\ incidents' = incidents + 1

-----------------------------------------------------------------------------
(* The table                                                               *)

Usable(s) == s.status = "active"
Made      == {n \in SubIds : subs[n] # NoSub}
GetLatestSubscription == Cardinality(Made)

\* The usable one whose period is not over, or 0.
GetActiveSubscription ==
    IF \E n \in Made : Usable(subs[n]) /\ ~subs[n].over
    THEN CHOOSE n \in Made : Usable(subs[n]) /\ ~subs[n].over ELSE 0

\* The view of the table, after a subscription that was cancelled and is over
\* has been marked.
Lazily(n)    == IF Usable(subs[n]) /\ subs[n].cancel /\ subs[n].over THEN [subs[n] EXCEPT !.status = "expired"] ELSE subs[n]
ExpiredOnRead == [n \in SubIds |-> IF n = GetLatestSubscription THEN Lazily(n) ELSE subs[n]]
ViewOf(table) ==
    LET n == GetLatestSubscription
    IN  IF n = 0 THEN [NoView EXCEPT !.plan = "free"]
        ELSE [plan |-> IF Usable(table[n]) THEN table[n].plan ELSE "free", usable |-> Usable(table[n]), cancel |-> table[n].cancel]

-----------------------------------------------------------------------------
(* The server's rules                                                      *)

\* What a handler makes of what it reads.
BillingVerdict(mode, plan) ==
    LET n == GetActiveSubscription
    IN  IF mode = "subscribe" THEN IF n # 0 THEN "409" ELSE "write"
        ELSE IF n = 0 THEN "404"
        ELSE IF \/ mode = "upgrade" /\ PriceOf[plan] <= PriceOf[subs[n].plan]
                \/ mode = "downgrade" /\ PriceOf[plan] >= PriceOf[subs[n].plan] THEN "422"
        ELSE IF mode = "resume" /\ ~subs[n].cancel THEN "409"
        ELSE IF mode = "cancel" /\ subs[n].cancel THEN "ok" ELSE "write"

\* The unique index lets no second usable subscription in, over or not.
CreateSubscription(plan) ==
    /\ \A n \in Made : ~Usable(subs[n])
    /\ Cardinality(Made) < MaxSubs
    /\ subs' = [subs EXCEPT ![Cardinality(Made) + 1] = [NoSub EXCEPT !.plan = plan, !.status = "active"]]

\* The other statements go by id alone.
UpdateSubscription(n, mode, plan) ==
    subs' = [subs EXCEPT ![n] = IF mode \in {"upgrade", "downgrade"} THEN [@ EXCEPT !.plan = plan]
                                ELSE [@ EXCEPT !.cancel = (mode = "cancel")]]

PeriodEnds(n) ==
    /\ n \in Made /\ ~subs[n].over /\ subs' = [subs EXCEPT ![n].over = TRUE]
    /\ UNCHANGED <<invoices, view, viewAsk, dialog, offline, change, hook, recorded, answered, lostRecord, landed, incidents>>

\* A request of the other page, between two statements of this one's.
OtherPage ==
    /\ Incident
    /\ \E mode \in Modes, plan \in Plans :
         /\ BillingVerdict(mode, plan) = "write"
         /\ \/ /\ mode = "subscribe" /\ CreateSubscription(plan)
               /\ invoices' = [invoices EXCEPT ![Cardinality(Made) + 1] = "open"]
            \/ mode # "subscribe" /\ UpdateSubscription(GetActiveSubscription, mode, plan) /\ UNCHANGED invoices
    /\ UNCHANGED <<view, viewAsk, dialog, offline, change, hook, recorded, answered, lostRecord, landed>>

-----------------------------------------------------------------------------
(* What the page offers                                                    *)

\* Mutant: a subscription that has ended counts.
planActionAny(v, p) ==
    IF p = v.plan THEN "current" ELSE IF PriceOf[p] > PriceOf[v.plan] THEN "upgrade"
    ELSE IF PriceOf[p] < PriceOf[v.plan] THEN "downgrade" ELSE "current"

planAction(v, p) ==
    IF p = v.plan THEN "current"
    ELSE IF ~v.usable THEN "subscribe"
    ELSE IF PriceOf[p] > PriceOf[v.plan] THEN "upgrade"
    ELSE IF PriceOf[p] < PriceOf[v.plan] THEN "downgrade" ELSE "current"

\* The grid's buttons, and the card's: Resume once it is cancelled, over or not.
PlanCard(v, p) == {[mode |-> planAction(v, p), plan |-> p]} \ {[mode |-> "current", plan |-> p]}
PlanGrid(v)    == UNION {PlanCard(v, p) : p \in Plans}
SubscriptionCard(v) == IF v.cancel THEN {[mode |-> "resume", plan |-> "none"]}
                       ELSE IF v.usable THEN {[mode |-> "cancel", plan |-> "none"]} ELSE {}

\* The dialog is modal.
BillingPanel ==
    /\ view # NoView /\ dialog = NoDialog
    /\ dialog' \in PlanGrid(view) \cup SubscriptionCard(view)
    /\ UNCHANGED <<subs, invoices, view, viewAsk, offline, change, hook, recorded, answered, lostRecord, landed, incidents>>

\* Done, Cancel, or Escape at any time.
handleOpenChange ==
    /\ dialog # NoDialog /\ dialog' = NoDialog /\ offline' = FALSE
    /\ UNCHANGED <<subs, invoices, view, viewAsk, change, hook, recorded, answered, lostRecord, landed, incidents>>

-----------------------------------------------------------------------------
(* A change                                                                *)

changePending == change # NoChange /\ ~change.left

\* Bound: not while the server is still busy with one the page has left.
RunChange ==
    /\ dialog # NoDialog /\ ~offline /\ ~changePending /\ ~change.left
    /\ change' = [mode |-> dialog.mode, plan |-> dialog.plan, at |-> "sent", sub |-> 0, left |-> FALSE]
    /\ UNCHANGED <<subs, invoices, view, viewAsk, dialog, offline, hook, recorded, answered, lostRecord, landed, incidents>>

CheckChange ==
    /\ change.at = "sent"
    /\ change' = [change EXCEPT !.at = BillingVerdict(change.mode, change.plan), !.sub = GetActiveSubscription]
    /\ UNCHANGED <<subs, invoices, view, viewAsk, dialog, offline, hook, recorded, answered, lostRecord, landed, incidents>>

WriteChange ==
    /\ change.at = "write"
    /\ \/ /\ change.mode = "subscribe" /\ CreateSubscription(change.plan)
          /\ change' = [change EXCEPT !.at = "invoice", !.sub = Cardinality(Made) + 1]
       \/ /\ change.mode = "subscribe" /\ (\E n \in Made : Usable(subs[n]))
          /\ change' = [change EXCEPT !.at = "409"] /\ UNCHANGED subs
       \/ /\ change.mode # "subscribe" /\ UpdateSubscription(change.sub, change.mode, change.plan)
          /\ change' = [change EXCEPT !.at = "ok"]
    /\ UNCHANGED <<invoices, view, viewAsk, dialog, offline, hook, recorded, answered, lostRecord, landed, incidents>>

CreateInvoice ==
    /\ change.at = "invoice"
    /\ invoices' = [invoices EXCEPT ![change.sub] = "open"] /\ change' = [change EXCEPT !.at = "ok"]
    /\ UNCHANGED <<subs, view, viewAsk, dialog, offline, hook, recorded, answered, lostRecord, landed, incidents>>

\* The query is asked for again, instead of a request in flight.
InvalidateBilling == viewAsk' = [NoAskView EXCEPT !.on = TRUE]

\* Success: the offline note for a subscription, whatever dialog is open or
\* none; otherwise the dialog closes, whichever it is.  A failure is a toast;
\* the server may go on with a request the page has left.
ChangeAnswered ==
    /\ changePending
    /\ \/ /\ change.at = "ok" /\ InvalidateBilling
          /\ IF change.mode = "subscribe" THEN offline' = TRUE /\ UNCHANGED dialog ELSE offline' = FALSE /\ dialog' = NoDialog
          /\ change' = NoChange /\ UNCHANGED incidents
       \/ change.at \in {"404", "409", "422"} /\ change' = NoChange /\ UNCHANGED <<viewAsk, dialog, offline, incidents>>
       \/ Incident /\ change' \in {NoChange, [change EXCEPT !.left = TRUE]} /\ UNCHANGED <<viewAsk, dialog, offline>>
    /\ UNCHANGED <<subs, invoices, view, hook, recorded, answered, lostRecord, landed>>

LeftChangeEnds ==
    /\ change.left /\ change.at \notin {"sent", "write", "invoice"} /\ change' = NoChange
    /\ UNCHANGED <<subs, invoices, view, viewAsk, dialog, offline, hook, recorded, answered, lostRecord, landed, incidents>>

-----------------------------------------------------------------------------
(* The subscription query: on mount, on focus, after a change              *)

useSubscription ==
    /\ ~viewAsk.on /\ viewAsk' = [NoAskView EXCEPT !.on = TRUE]
    /\ UNCHANGED <<subs, invoices, view, dialog, offline, change, hook, recorded, answered, lostRecord, landed, incidents>>

GetSubscription ==
    /\ viewAsk.on /\ viewAsk.answer = NoView
    /\ subs' = ExpiredOnRead /\ viewAsk' = [viewAsk EXCEPT !.answer = ViewOf(ExpiredOnRead)]
    /\ UNCHANGED <<invoices, view, dialog, offline, change, hook, recorded, answered, lostRecord, landed, incidents>>

ViewAnswered ==
    /\ viewAsk.answer # NoView /\ view' = viewAsk.answer /\ viewAsk' = NoAskView
    /\ UNCHANGED <<subs, invoices, dialog, offline, change, hook, recorded, answered, lostRecord, landed, incidents>>

-----------------------------------------------------------------------------
(* Webhooks: the provider delivers an event until it is answered, perhaps  *)
(* while it is being handled                                               *)

Events == [type : {"paid", "ended"}, sub : SubIds]
NoHook == [type |-> "none", sub |-> 0, failed |-> FALSE]
HookEvent == [type |-> hook.type, sub |-> hook.sub]

\* The provider knows a checkout before its row is written.
CheckoutMade(n) == n \in Made \/ (change.mode = "subscribe" /\ change.at = "write" /\ n = Cardinality(Made) + 1)
InTable(e)      == IF e.type = "paid" THEN invoices[e.sub] # "none" ELSE e.sub \in Made

\* An event is recorded whether or not there is a row to apply it to.
RecordWebhookEvent ==
    /\ \E e \in Events \ answered :
         /\ CheckoutMade(e.sub)
         /\ \/ e \in recorded /\ answered' = answered \cup {e} /\ UNCHANGED <<hook, recorded, landed>>
            \/ /\ e \notin recorded /\ hook = NoHook /\ recorded' = recorded \cup {e}
               /\ hook' = [type |-> e.type, sub |-> e.sub, failed |-> FALSE] /\ UNCHANGED answered
               /\ landed' = IF InTable(e) THEN landed \cup {e} ELSE landed
    /\ UNCHANGED <<subs, invoices, view, viewAsk, dialog, offline, change, lostRecord, incidents>>

\* Without a row there is no effect, and no error.
ApplyWebhook ==
    /\ hook # NoHook /\ ~hook.failed
    /\ \/ hook.type = "paid" /\ InTable(HookEvent) /\ invoices' = [invoices EXCEPT ![hook.sub] = "paid"] /\ UNCHANGED subs
       \/ hook.type = "ended" /\ InTable(HookEvent) /\ subs' = [subs EXCEPT ![hook.sub].status = "canceled"] /\ UNCHANGED invoices
       \/ ~InTable(HookEvent) /\ UNCHANGED <<subs, invoices>>
    /\ answered' = answered \cup {HookEvent} /\ hook' = NoHook
    /\ UNCHANGED <<view, viewAsk, dialog, offline, change, recorded, lostRecord, landed, incidents>>

\* A call fails; or the process stops, or cannot take the record back.
ApplyFails ==
    /\ hook # NoHook /\ ~hook.failed /\ Incident
    /\ \/ hook' = [hook EXCEPT !.failed = TRUE] /\ UNCHANGED lostRecord
       \/ hook' = NoHook /\ lostRecord' = lostRecord \cup {HookEvent}
    /\ UNCHANGED <<subs, invoices, view, viewAsk, dialog, offline, change, recorded, answered, landed>>

\* Mutant: the record of what failed is kept.
KeepWebhookEvent == recorded' = recorded

DeleteWebhookEvent == recorded' = recorded \ {HookEvent}

FailedWebhook ==
    /\ hook.failed /\ hook' = NoHook
    /\ DeleteWebhookEvent /\ lostRecord' = lostRecord \cup (answered \cap {HookEvent})
    /\ UNCHANGED <<subs, invoices, view, viewAsk, dialog, offline, change, answered, landed, incidents>>

-----------------------------------------------------------------------------
BillingNext ==
    \/ BillingPanel \/ handleOpenChange \/ RunChange \/ CheckChange \/ WriteChange \/ CreateInvoice \/ ChangeAnswered \/ LeftChangeEnds
    \/ useSubscription \/ GetSubscription \/ ViewAnswered
    \/ RecordWebhookEvent \/ ApplyWebhook \/ ApplyFails \/ FailedWebhook
    \/ OtherPage \/ \E n \in SubIds : PeriodEnds(n)

BillingSpec == BillingInit /\ [][BillingNext]_billingVars
=============================================================================
