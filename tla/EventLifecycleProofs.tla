------------------------ MODULE EventLifecycleProofs ------------------------
(***************************************************************************)
(* Proofs about events, for any number of events, requests and faults and  *)
(* every plan, grace period and bound.                                     *)
(***************************************************************************)
EXTENDS EventLifecycleProps, FiniteSums

Times   == Nat \cup {Never}
OpNames == {"idle", "create", "set", "reactivate?", "reactivate", "limit?", "extend?", "extend", "update"}
CallSet == [e : Events \cup {NoEvent}, to : Statuses \cup {"none"}, expires : Times, reactivate : BOOLEAN]

RowTypeOK ==
    /\ status \in [Events -> Statuses \cup {"none", "purged"}]
    /\ expiresAt \in [Events -> Times]
    /\ deletedAt \in [Events -> Times]
    /\ warned \in [Events -> BOOLEAN]
    /\ mails \in [Events -> Nat]

BytesTypeOK ==
    /\ objects \in [Events -> SUBSET Nat]
    /\ storageBytes \in [Events -> Nat]
    /\ userBytes \in Nat

RequestTypeOK ==
    /\ op \in [Requests -> OpNames]
    /\ call \in [Requests -> CallSet]

JobTypeOK ==
    /\ exList \subseteq Events /\ exAt \in Nat
    /\ puList \subseteq Events /\ puKeys \subseteq Nat

TypeOK == now \in Nat /\ RowTypeOK /\ BytesTypeOK /\ RequestTypeOK /\ JobTypeOK

\* An expiry the plan's retention allows now; it does so at any later time.
InPlan(t) == Retention > 0 => t # Never /\ t <= now + Retention

\* What a request carries from the statement that read to the one that
\* writes: an event, a status to set, an expiry that was checked.
CallOK(next, c) ==
    /\ next \notin {"idle", "create"} => c.e \in Events
    /\ next \in {"create", "set"} => c.to \in Statuses
    /\ next \in {"create", "reactivate", "extend", "update"} => InPlan(c.expires)

RequestsInPlan == \A r \in Requests : CallOK(op[r], call[r])
RowsInPlan     == \A e \in Events : status[e] \in Statuses => InPlan(expiresAt[e])

\* The inductive invariant.  WithinRetention alone is not: between the check
\* of an expiry and the write of it a request carries it.
IInv == TypeOK /\ RequestsInPlan /\ RowsInPlan

LEMMA InitIInv == Init => IInv
<1>. SUFFICES ASSUME Init PROVE IInv
  OBVIOUS
<1>1. RowTypeOK
  BY DEF Init, RowTypeOK, Times
<1>2. BytesTypeOK
  BY DEF Init, BytesTypeOK
<1>3. RequestTypeOK /\ RequestsInPlan
  BY DEF Init, RequestTypeOK, RequestsInPlan, CallOK, OpNames, CallSet, NoCall, Times
<1>4. JobTypeOK
  BY DEF Init, JobTypeOK
<1>5. RowsInPlan
  BY DEF Init, RowsInPlan, Statuses, LiveStatuses
<1>. QED BY <1>1, <1>2, <1>3, <1>4, <1>5 DEF Init, IInv, TypeOK

\* A request is given its next statement and what that needs.
Sends(r) == \E next \in OpNames, c \in CallSet : CallOK(next, c) /\ Then(r, next, c)

LEMMA NoCallType == NoCall \in CallSet /\ "idle" \in OpNames /\ CallOK("idle", NoCall)
BY DEF NoCall, CallSet, OpNames, Times, CallOK

LEMMA RespondSends ==
  ASSUME NEW r \in Requests, Respond(r)
  PROVE  Sends(r)
BY NoCallType DEF Respond, Sends

LEMMA SendsIInv ==
  ASSUME RequestTypeOK, RequestsInPlan, NEW r \in Requests, Sends(r), now' = now
  PROVE  RequestTypeOK' /\ RequestsInPlan'
<1>1. PICK next \in OpNames, c \in CallSet : CallOK(next, c) /\ Then(r, next, c)
  BY DEF Sends
<1>2. RequestTypeOK'
  BY <1>1 DEF RequestTypeOK, Then
<1>3. ASSUME NEW s \in Requests PROVE CallOK(op[s], call[s])'
  <2>1. /\ op'[s] = IF s = r THEN next ELSE op[s]
        /\ call'[s] = IF s = r THEN c ELSE call[s]
    BY <1>1 DEF RequestTypeOK, Then
  <2>2. CallOK(op[s], call[s])
    BY DEF RequestsInPlan
  <2>. QED BY <1>1, <2>1, <2>2 DEF CallOK, InPlan
<1>. QED BY <1>2, <1>3 DEF RequestsInPlan

\* What checkRetention lets through, and the expiry the plan gives.
LEMMA PlanInPlan ==
  ASSUME now \in Nat
  PROVE  /\ PlanExpiry \in Times /\ InPlan(PlanExpiry)
         /\ now..now + MaxDays \subseteq Times
         /\ \A t \in Times : WithinPlan(t) => InPlan(t)
BY LifecycleAssumption DEF PlanExpiry, WithinPlan, InPlan, Times

\* An arriving request writes its own place alone.
LEMMA ArrivalSends ==
  ASSUME IInv, NEW r \in Requests, Arrival(r)
  PROVE  Sends(r) /\ UNCHANGED <<now, rowVars, objects, bytes, exVars, puVars>>
<1>. USE DEF IInv, TypeOK
<1>1. CASE CreateCheck(r)
  <2>1. PICK to \in Statuses, t \in Times :
           WithinPlan(t) /\ Then(r, "create", [NoCall EXCEPT !.to = to, !.expires = t])
    BY <1>1, PlanInPlan DEF CreateCheck
  <2>2. [NoCall EXCEPT !.to = to, !.expires = t] \in CallSet
    BY NoCallType DEF CallSet
  <2>3. CallOK("create", [NoCall EXCEPT !.to = to, !.expires = t])
    BY <2>1, PlanInPlan DEF NoCall, CallOK
  <2>. QED BY <1>1, <2>1, <2>2, <2>3 DEF OpNames, CreateCheck, Sends
<1>2. ASSUME NEW e \in Events, TransitionRead(r, e)
      PROVE  Sends(r) /\ UNCHANGED <<now, rowVars, objects, bytes, exVars, puVars>>
  <2>1. PICK to \in Statuses, n \in {"reactivate?", "set"} : Then(r, n, [NoCall EXCEPT !.e = e, !.to = to])
    BY <1>2 DEF TransitionRead
  <2>2. [NoCall EXCEPT !.e = e, !.to = to] \in CallSet
    BY NoCallType DEF CallSet
  <2>3. CallOK(n, [NoCall EXCEPT !.e = e, !.to = to])
    BY DEF NoCall, CallOK
  <2>. QED BY <1>2, <2>1, <2>2, <2>3 DEF OpNames, TransitionRead, Sends
<1>3. ASSUME NEW e \in Events, ExtendRead(r, e)
      PROVE  Sends(r) /\ UNCHANGED <<now, rowVars, objects, bytes, exVars, puVars>>
  <2>. DEFINE c == [NoCall EXCEPT !.e = e, !.reactivate = (status[e] = "expired"), !.expires = expiresAt[e]]
  <2>1. PICK n \in {"limit?", "extend?"} : Then(r, n, c)
    BY <1>3 DEF ExtendRead
  <2>2. expiresAt[e] \in Times /\ (status[e] = "expired") \in BOOLEAN
    BY DEF RowTypeOK
  <2>3. c \in CallSet /\ c.e = e
    BY <2>2, NoCallType DEF CallSet
  <2>4. CallOK(n, c)
    BY <2>3 DEF CallOK
  <2>. QED BY <1>3, <2>1, <2>3, <2>4 DEF OpNames, ExtendRead, Sends
<1>4. ASSUME NEW e \in Events, UpdateRead(r, e)
      PROVE  Sends(r) /\ UNCHANGED <<now, rowVars, objects, bytes, exVars, puVars>>
  <2>1. PICK t \in Times : WithinPlan(t) /\ Then(r, "update", [NoCall EXCEPT !.e = e, !.expires = t])
    BY <1>4, PlanInPlan DEF UpdateRead
  <2>2. [NoCall EXCEPT !.e = e, !.expires = t] \in CallSet
    BY NoCallType DEF CallSet
  <2>3. CallOK("update", [NoCall EXCEPT !.e = e, !.expires = t])
    BY <2>1, PlanInPlan DEF NoCall, CallOK
  <2>. QED BY <1>4, <2>1, <2>2, <2>3 DEF OpNames, UpdateRead, Sends
<1>. QED BY <1>1, <1>2, <1>3, <1>4 DEF Arrival

\* A row is given an expiry the plan allows.
LEMMA SetExpiryInPlan ==
  ASSUME RowTypeOK, NEW e \in Events, NEW t \in Times, SetExpiry(e, t)
  PROVE  /\ expiresAt' \in [Events -> Times]
         /\ warned' \in [Events -> BOOLEAN]
         /\ mails' \in [Events -> Nat]
         /\ \A f \in Events : expiresAt'[f] = IF f = e THEN t ELSE expiresAt[f]
BY DEF RowTypeOK, SetExpiry

\* A step of a request writes its place, and rows as the plan allows.
LEMMA RequestStepIInv ==
  ASSUME IInv, NEW r \in Requests, RequestStep(r)
  PROVE  /\ Sends(r) /\ RowTypeOK' /\ RowsInPlan'
         /\ UNCHANGED <<now, objects, bytes, exVars, puVars>>
<1>. USE DEF IInv, TypeOK
<1>. DEFINE Goal == /\ Sends(r) /\ RowTypeOK' /\ RowsInPlan'
                    /\ UNCHANGED <<now, objects, bytes, exVars, puVars>>
<1>1. call[r] \in CallSet /\ CallOK(op[r], call[r])
  BY DEF RequestTypeOK, RequestsInPlan
<1>2. call[r].expires \in Times
  BY <1>1 DEF CallSet
<1>3. CASE Create(r)
  <2>1. PICK e \in Events :
           /\ status[e] = "none"
           /\ status' = [status EXCEPT ![e] = call[r].to]
           /\ SetExpiry(e, call[r].expires)
    BY <1>3 DEF Create
  <2>2. call[r].to \in Statuses /\ InPlan(call[r].expires)
    BY <1>1, <1>3 DEF Create, CallOK
  <2>3. RowTypeOK'
    BY <1>2, <1>3, <2>1, <2>2, SetExpiryInPlan DEF Create, RowTypeOK
  <2>4. RowsInPlan'
    BY <1>2, <1>3, <2>1, <2>2, SetExpiryInPlan DEF Create, RowTypeOK, RowsInPlan, InPlan
  <2>. QED BY <1>3, <2>3, <2>4, RespondSends DEF Create
<1>4. CASE SetStatus(r)
  <2>1. call[r].to \in Statuses /\ call[r].e \in Events
    BY <1>1, <1>4 DEF SetStatus, CallOK
  <2>2. RowTypeOK'
    BY <1>4, <2>1 DEF SetStatus, RowTypeOK
  <2>3. RowsInPlan'
    BY <1>4, <2>1 DEF SetStatus, RowTypeOK, RowsInPlan, InPlan, Kept, Statuses, LiveStatuses
  <2>. QED BY <1>4, <2>2, <2>3, RespondSends DEF SetStatus
<1>5. CASE ReactivateCheck(r)
  <2>. DEFINE c == [call[r] EXCEPT !.expires = PlanExpiry]
  <2>1. c \in CallSet /\ c.e = call[r].e /\ c.expires = PlanExpiry
    BY <1>1, PlanInPlan DEF CallSet
  <2>2. CallOK("reactivate", c)
    BY <1>1, <1>5, <2>1, PlanInPlan DEF ReactivateCheck, CallOK
  <2>3. Sends(r)
    BY <1>5, <2>1, <2>2, RespondSends DEF ReactivateCheck, Sends, OpNames
  <2>. QED BY <1>5, <2>3 DEF ReactivateCheck, rowVars, RowTypeOK, RowsInPlan, InPlan
<1>6. CASE Reactivate(r)
  <2>1. call[r].e \in Events /\ InPlan(call[r].expires)
    BY <1>1, <1>6 DEF Reactivate, CallOK
  <2>2. RowTypeOK' /\ RowsInPlan'
    <3>1. CASE call[r].e \in Kept /\ status[call[r].e] = "expired"
      BY <1>2, <1>6, <2>1, <3>1, SetExpiryInPlan DEF Reactivate, RowTypeOK, RowsInPlan, InPlan, Statuses, LiveStatuses
    <3>2. CASE ~(call[r].e \in Kept /\ status[call[r].e] = "expired")
      BY <1>6, <3>2 DEF Reactivate, RowTypeOK, RowsInPlan, InPlan
    <3>. QED BY <3>1, <3>2
  <2>. QED BY <1>6, <2>2, RespondSends DEF Reactivate
<1>7. CASE ExtendLimit(r)
  <2>1. CallOK("extend?", call[r])
    BY <1>1, <1>7 DEF ExtendLimit, CallOK
  <2>2. Sends(r)
    BY <1>1, <1>7, <2>1, RespondSends DEF ExtendLimit, Sends, OpNames
  <2>. QED BY <1>7, <2>2 DEF ExtendLimit, rowVars, RowTypeOK, RowsInPlan, InPlan
<1>8. CASE ExtendCheck(r)
  <2>. DEFINE base == IF call[r].expires # Never /\ call[r].expires > now THEN call[r].expires ELSE now
  <2>1. PICK days \in 1..MaxDays :
           IF WithinPlan(base + days) THEN Then(r, "extend", [call[r] EXCEPT !.expires = base + days]) ELSE Respond(r)
    BY <1>8 DEF ExtendCheck
  <2>2. base + days \in Times
    BY <1>2, LifecycleAssumption DEF Times
  <2>. HIDE DEF base
  <2>. DEFINE c == [call[r] EXCEPT !.expires = base + days]
  <2>3. c \in CallSet /\ c.e = call[r].e /\ c.expires = base + days
    BY <1>1, <2>2 DEF CallSet
  <2>4. WithinPlan(base + days) => CallOK("extend", c)
    BY <1>1, <1>8, <2>2, <2>3, PlanInPlan DEF ExtendCheck, CallOK
  <2>5. Sends(r)
    BY <2>1, <2>3, <2>4, RespondSends DEF Sends, OpNames
  <2>. QED BY <1>8, <2>5 DEF ExtendCheck, rowVars, RowTypeOK, RowsInPlan, InPlan
<1>9. CASE Extend(r)
  <2>1. call[r].e \in Events /\ InPlan(call[r].expires)
    BY <1>1, <1>9 DEF Extend, CallOK
  <2>2. RowTypeOK' /\ RowsInPlan'
    <3>1. CASE call[r].e \in Kept
      BY <1>2, <1>9, <2>1, <3>1, SetExpiryInPlan DEF Extend, RowTypeOK, RowsInPlan, InPlan, Statuses, LiveStatuses
    <3>2. CASE call[r].e \notin Kept
      BY <1>9, <3>2 DEF Extend, RowTypeOK, RowsInPlan, InPlan
    <3>. QED BY <3>1, <3>2
  <2>. QED BY <1>9, <2>2, RespondSends DEF Extend
<1>10. CASE Update(r)
  <2>1. call[r].e \in Events /\ InPlan(call[r].expires)
    BY <1>1, <1>10 DEF Update, CallOK
  <2>2. RowTypeOK' /\ RowsInPlan'
    <3>1. CASE call[r].e \in Kept
      BY <1>2, <1>10, <2>1, <3>1, SetExpiryInPlan DEF Update, RowTypeOK, RowsInPlan, InPlan
    <3>2. CASE call[r].e \notin Kept
      BY <1>10, <3>2 DEF Update, RowTypeOK, RowsInPlan, InPlan
    <3>. QED BY <3>1, <3>2
  <2>. QED BY <1>10, <2>2, RespondSends DEF Update
<1>. QED BY <1>3, <1>4, <1>5, <1>6, <1>7, <1>8, <1>9, <1>10 DEF RequestStep

\* The jobs, the uploads and deletions leave requests and expiries alone and
\* bring no row back.
Untouched ==
    /\ UNCHANGED <<now, expiresAt, op, call>>
    /\ \A e \in Events : status'[e] \in Statuses => status[e] \in Statuses
    /\ Kept' \subseteq Kept /\ Live' \subseteq Live

LEMMA ExpireIInv ==
  ASSUME IInv, ExpireStep \/ ExpireError
  PROVE  RowTypeOK' /\ JobTypeOK' /\ Untouched /\ UNCHANGED <<objects, bytes, puVars>>
<1>. USE DEF IInv, TypeOK, RowTypeOK, JobTypeOK, Untouched, Live, Kept, ExGoto, exVars, puVars, rowVars
<1>1. CASE ListExpiryWarnings
  BY <1>1 DEF ListExpiryWarnings, Live, Kept
<1>2. ASSUME NEW e \in Events, NotifyExpiryWarning(e)
      PROVE  RowTypeOK' /\ JobTypeOK' /\ Untouched /\ UNCHANGED <<objects, bytes, puVars>>
  BY <1>2 DEF NotifyExpiryWarning
<1>3. ASSUME NEW e \in Events, MarkExpiryWarned(e)
      PROVE  RowTypeOK' /\ JobTypeOK' /\ Untouched /\ UNCHANGED <<objects, bytes, puVars>>
  BY <1>3 DEF MarkExpiryWarned
<1>4. CASE ListDueExpiry
  BY <1>4 DEF ListDueExpiry, Live, Kept
<1>5. ASSUME NEW e \in Events, MarkExpired(e)
      PROVE  RowTypeOK' /\ JobTypeOK' /\ Untouched /\ UNCHANGED <<objects, bytes, puVars>>
  <2>1. \A f \in Events : status'[f] = status[f] \/ (f \in Live /\ status'[f] = "expired")
    BY <1>5 DEF MarkExpired
  <2>2. RowTypeOK' /\ Untouched
    BY <1>5, <2>1 DEF MarkExpired, Live, Kept, Statuses, LiveStatuses
  <2>. QED BY <1>5, <2>2 DEF MarkExpired
<1>6. CASE ExpireDone
  BY <1>6 DEF ExpireDone, ExReturn
<1>7. CASE ExpireError
  BY <1>7 DEF ExpireError, ExReturn
<1>. QED BY <1>1, <1>2, <1>3, <1>4, <1>5, <1>6, <1>7 DEF ExpireStep

LEMMA PurgeIInv ==
  ASSUME IInv, PurgeStep \/ PurgeError
  PROVE  RowTypeOK' /\ BytesTypeOK' /\ JobTypeOK' /\ Untouched
<1>. USE DEF IInv, TypeOK, RowTypeOK, BytesTypeOK, JobTypeOK, Untouched, Live, Kept, PuGoto, exVars, puVars, rowVars, bytes
<1>1. CASE ListPurgeable
  BY <1>1 DEF ListPurgeable, By
<1>2. ASSUME NEW e \in Events, PurgeKeys(e)
      PROVE  RowTypeOK' /\ BytesTypeOK' /\ JobTypeOK' /\ Untouched
  BY <1>2 DEF PurgeKeys
<1>3. ASSUME NEW e \in Events, PurgeObject(e)
      PROVE  RowTypeOK' /\ BytesTypeOK' /\ JobTypeOK' /\ Untouched
  BY <1>3 DEF PurgeObject
<1>4. ASSUME NEW e \in Events, PurgeEvent(e)
      PROVE  RowTypeOK' /\ BytesTypeOK' /\ JobTypeOK' /\ Untouched
  <2>1. \A f \in Events : status'[f] = IF f = e THEN "purged" ELSE status[f]
    BY <1>4 DEF PurgeEvent
  <2>2. userBytes' \in Nat
    BY <1>4 DEF PurgeEvent, AtLeastZero
  <2>. QED BY <1>4, <2>1, <2>2 DEF PurgeEvent, Statuses, LiveStatuses
<1>5. CASE PurgeDone
  BY <1>5 DEF PurgeDone
<1>6. CASE PurgeError
  BY <1>6 DEF PurgeError
<1>. QED BY <1>1, <1>2, <1>3, <1>4, <1>5, <1>6 DEF PurgeStep

LEMMA UntouchedIInv ==
  ASSUME IInv, Untouched
  PROVE  RequestTypeOK' /\ RequestsInPlan' /\ RowsInPlan'
BY DEF IInv, TypeOK, Untouched, RequestTypeOK, RequestsInPlan, RowsInPlan, CallOK, InPlan

LEMMA TickIInv ==
  ASSUME IInv, Tick
  PROVE  IInv'
<1>. USE DEF IInv, TypeOK, Tick, rowVars, bytes, exVars, puVars
<1>1. TypeOK'
  BY DEF RowTypeOK, BytesTypeOK, RequestTypeOK, JobTypeOK
<1>2. \A t \in Times : InPlan(t) => InPlan(t)'
  BY LifecycleAssumption DEF InPlan, Times
<1>3. RowsInPlan'
  BY <1>2 DEF RowsInPlan, RowTypeOK
<1>4. \A r \in Requests : call[r].expires \in Times
  BY DEF RequestTypeOK, CallSet
<1>5. RequestsInPlan'
  BY <1>2, <1>4 DEF RequestsInPlan, CallOK
<1>. QED BY <1>1, <1>3, <1>5

LEMMA NextIInv == IInv /\ [Next]_vars => IInv'
<1>. SUFFICES ASSUME IInv, [Next]_vars PROVE IInv'
  OBVIOUS
<1>. USE DEF IInv, TypeOK
<1>1. ASSUME NEW r \in Requests, Sends(r), RowTypeOK', RowsInPlan', UNCHANGED <<now, objects, bytes, exVars, puVars>>
      PROVE  IInv'
  BY <1>1, SendsIInv DEF bytes, exVars, puVars, BytesTypeOK, JobTypeOK
<1>2. ASSUME NEW r \in Requests, Arrival(r) PROVE IInv'
  <2>1. RowTypeOK' /\ RowsInPlan'
    BY <1>2, ArrivalSends DEF rowVars, RowTypeOK, RowsInPlan, InPlan
  <2>. QED BY <1>1, <1>2, <2>1, ArrivalSends
<1>3. ASSUME NEW r \in Requests, RequestStep(r) PROVE IInv'
  BY <1>1, <1>3, RequestStepIInv
<1>4. ASSUME NEW r \in Requests, RequestFails(r) PROVE IInv'
  <2>1. RowTypeOK' /\ RowsInPlan'
    BY <1>4 DEF RequestFails, rowVars, RowTypeOK, RowsInPlan, InPlan
  <2>. QED BY <1>1, <1>4, <2>1, RespondSends DEF RequestFails
<1>5. ASSUME NEW e \in Events, SoftDelete(e) PROVE IInv'
  <2>1. Untouched
    BY <1>5 DEF SoftDelete, Untouched, RowTypeOK, Live, Kept
  <2>2. RowTypeOK'
    BY <1>5 DEF SoftDelete, RowTypeOK, Times
  <2>3. BytesTypeOK' /\ JobTypeOK'
    BY <1>5 DEF SoftDelete, BytesTypeOK, JobTypeOK, bytes, exVars, puVars
  <2>. QED BY <2>1, <2>2, <2>3, UntouchedIInv DEF Untouched
<1>6. ASSUME NEW e \in Events, Upload(e) PROVE IInv'
  <2>1. Untouched
    BY <1>6 DEF Upload, Untouched, rowVars, Live, Kept
  <2>2. RowTypeOK' /\ JobTypeOK'
    BY <1>6 DEF Upload, RowTypeOK, JobTypeOK, rowVars, exVars, puVars
  <2>3. BytesTypeOK'
    BY <1>6 DEF Upload, BytesTypeOK
  <2>. QED BY <2>1, <2>2, <2>3, UntouchedIInv DEF Untouched
<1>7. CASE ExpireStep \/ ExpireError
  BY <1>7, ExpireIInv, UntouchedIInv DEF Untouched, BytesTypeOK, bytes
<1>8. CASE PurgeStep \/ PurgeError
  BY <1>8, PurgeIInv, UntouchedIInv DEF Untouched
<1>9. CASE Tick
  BY <1>9, TickIInv
<1>10. CASE UNCHANGED vars
  BY <1>10 DEF vars, RowTypeOK, BytesTypeOK, RequestTypeOK, JobTypeOK, RequestsInPlan, RowsInPlan, CallOK, InPlan
<1>. QED BY <1>2, <1>3, <1>4, <1>5, <1>6, <1>7, <1>8, <1>9, <1>10 DEF Next

\* No live event lasts beyond the plan's retention, whichever call set its
\* expiry and whatever else was written since it was checked (service.go:236).
THEOREM Retained == Spec => [](TypeOK /\ WithinRetention)
<1>1. IInv => TypeOK /\ WithinRetention
  BY DEF IInv, RowsInPlan, InPlan, WithinRetention, Live, Kept, Statuses, LiveStatuses
<1>. QED BY <1>1, InitIInv, NextIInv, PTL DEF Spec

-----------------------------------------------------------------------------
(* The plan's limit of live events, with any number of requests in flight. *)

\* A request at next with locals c will make event e live when it writes.
Revives(next, c, e) ==
    /\ c.e = e
    /\ \/ next = "set" /\ c.to \in LiveStatuses
       \/ next = "reactivate"
       \/ next \in {"extend?", "extend"} /\ c.reactivate

\* The slots of the plan that are taken or promised: live events and those
\* that a request is about to revive, and creations that passed the check.
Slots == {e \in Kept : status[e] \in LiveStatuses \/ \E r \in Requests : Revives(op[r], call[r], e)}

\* LiveOvershootBounded is not inductive: it does not count the events that a
\* request is about to revive.
Overshoot == Cardinality(Slots) + Cardinality(Creating) <= MaxEvents + Cardinality(Requests) - 1

Finite == IsFiniteSet(Events) /\ IsFiniteSet(Requests)

LEMMA SlotsFinite ==
  ASSUME Finite
  PROVE  /\ IsFiniteSet(Slots) /\ IsFiniteSet(Creating) /\ IsFiniteSet(Live)
         /\ Cardinality(Slots) \in Nat /\ Cardinality(Creating) \in Nat
         /\ Cardinality(Live) \in Nat /\ Cardinality(Requests) \in Nat
         /\ Cardinality(Live) <= Cardinality(Slots)
<1>1. Slots \in SUBSET Events /\ Creating \in SUBSET Requests /\ Live \in SUBSET Slots
  BY DEF Slots, Creating, Live, Kept
<1>2. IsFiniteSet(Slots) /\ IsFiniteSet(Creating)
  BY <1>1, FS_Subset DEF Finite
<1>3. IsFiniteSet(Live) /\ Cardinality(Live) <= Cardinality(Slots)
  BY <1>1, <1>2, FS_Subset
<1>. QED BY <1>2, <1>3, FS_CardinalityType DEF Finite

\* Whatever has passed a check is a request of its own, for one slot.  Hence
\* a check that finds a free slot leaves no more taken or promised than the
\* other requests may add to the limit.
LEMMA CheckBounds ==
  ASSUME Finite, Cardinality(Live) < MaxEvents, Live' = Live
  PROVE  Overshoot'
<1>. DEFINE Others == Requests \ Creating'
            Revived == {call'[r].e : r \in Others}
<1>1. /\ IsFiniteSet(Others) /\ IsFiniteSet(Creating')
      /\ Cardinality(Others) = Cardinality(Requests) - Cardinality(Creating')
      /\ Cardinality(Others) \in Nat /\ Cardinality(Creating') \in Nat
  <2>1. Creating' \in SUBSET Requests /\ Requests \cap Creating' = Creating'
    BY DEF Creating
  <2>2. IsFiniteSet(Others) /\ IsFiniteSet(Creating')
    BY <2>1, FS_Subset DEF Finite
  <2>. QED BY <2>1, <2>2, FS_Difference, FS_CardinalityType DEF Finite
<1>2. IsFiniteSet(Revived) /\ Cardinality(Revived) <= Cardinality(Others)
  <2>. DEFINE f == [r \in Others |-> call'[r].e]
  <2>1. f \in Surjection(Others, Revived)
    BY DEF Surjection
  <2>. HIDE DEF Others, Revived, f
  <2>. QED BY <1>1, <2>1, FS_Surjection
<1>3. Slots' \in SUBSET (Live \cup Revived)
  BY DEF Slots, Live, Kept, Creating, Revives
<1>4. IsFiniteSet(Live) /\ Cardinality(Live) \in Nat /\ Cardinality(Revived) \in Nat
  BY <1>2, SlotsFinite, FS_CardinalityType
<1>. HIDE DEF Others, Revived
<1>5. IsFiniteSet(Live \cup Revived) /\ Cardinality(Live \cup Revived) <= Cardinality(Live) + Cardinality(Revived)
  <2>1. IsFiniteSet(Live \cap Revived)
    BY <1>4, FS_Intersection
  <2>2. Cardinality(Live \cap Revived) \in Nat
    BY <2>1, FS_CardinalityType
  <2>. QED BY <1>2, <1>4, <2>2, FS_Union
<1>6. Cardinality(Slots') <= Cardinality(Live \cup Revived)
  BY <1>3, <1>5, FS_Subset
<1>7. IsFiniteSet(Slots') /\ Cardinality(Slots') \in Nat /\ Cardinality(Live \cup Revived) \in Nat /\ Cardinality(Requests) \in Nat /\ MaxEvents \in Nat
  BY <1>3, <1>5, FS_Subset, FS_CardinalityType, LifecycleAssumption DEF Finite
<1>. QED BY <1>1, <1>2, <1>4, <1>5, <1>6, <1>7 DEF Overshoot

LEMMA FewerSlots ==
  ASSUME Finite, Overshoot, Slots' \subseteq Slots, Creating' \subseteq Creating
  PROVE  Overshoot'
<1>1. Cardinality(Slots') <= Cardinality(Slots) /\ Cardinality(Creating') <= Cardinality(Creating)
  BY SlotsFinite, FS_Subset
<1>2. Cardinality(Slots') \in Nat /\ Cardinality(Creating') \in Nat
  BY SlotsFinite, FS_Subset, FS_CardinalityType
<1>. QED BY <1>1, <1>2, SlotsFinite, LifecycleAssumption DEF Overshoot

\* A creation takes the slot that it was promised.
LEMMA CreateOvershoot ==
  ASSUME Finite, IInv, Overshoot, NEW r \in Requests, Create(r)
  PROVE  Overshoot'
<1>1. PICK e \in Events : status[e] = "none" /\ status' = [status EXCEPT ![e] = call[r].to]
  BY DEF Create
<1>2. /\ \A s \in Requests : /\ op'[s] = IF s = r THEN "idle" ELSE op[s]
                             /\ s # r => call'[s] = call[s]
      /\ op[r] = "create"
  BY DEF Create, Respond, Then, IInv, TypeOK, RequestTypeOK
<1>3. Creating' = Creating \ {r} /\ r \in Creating
  BY <1>2 DEF Creating
<1>4. \A f \in Events : f # e => (f \in Kept' <=> f \in Kept) /\ status'[f] = status[f]
  BY <1>1 DEF IInv, TypeOK, RowTypeOK, Create, Kept
<1>5. Slots' \subseteq Slots \cup {e}
  BY <1>2, <1>4 DEF Slots, Kept, Revives
<1>6. Cardinality(Creating') = Cardinality(Creating) - 1
  BY <1>3, SlotsFinite, FS_RemoveElement
<1>7. /\ IsFiniteSet(Slots \cup {e}) /\ Cardinality(Slots \cup {e}) \in Nat
      /\ Cardinality(Slots \cup {e}) <= Cardinality(Slots) + 1
  <2>1. /\ IsFiniteSet(Slots \cup {e})
        /\ Cardinality(Slots \cup {e}) = IF e \in Slots THEN Cardinality(Slots) ELSE Cardinality(Slots) + 1
    BY SlotsFinite, FS_AddElement
  <2>. QED BY <2>1, SlotsFinite
<1>8. Cardinality(Slots') <= Cardinality(Slots \cup {e}) /\ Cardinality(Slots') \in Nat
  BY <1>5, <1>7, FS_Subset, FS_CardinalityType
<1>. QED BY <1>6, <1>7, <1>8, SlotsFinite, LifecycleAssumption DEF Overshoot

\* A request that goes on to revive no event but one that has a slot.
LEMMA PlaceSlots ==
  ASSUME RequestTypeOK, NEW r \in Requests, NEW next, NEW c, Then(r, next, c), next # "create",
         Kept' \subseteq Kept,
         \A e \in Kept' : status'[e] \in LiveStatuses \/ Revives(next, c, e) => e \in Slots
  PROVE  Slots' \subseteq Slots /\ Creating' \subseteq Creating
<1>1. \A s \in Requests : /\ op'[s] = IF s = r THEN next ELSE op[s]
                          /\ call'[s] = IF s = r THEN c ELSE call[s]
  BY DEF Then, RequestTypeOK
<1>2. Creating' \subseteq Creating
  BY <1>1 DEF Creating
<1>3. ASSUME NEW e \in Slots' PROVE e \in Slots
  <2>1. e \in Kept' /\ e \in Kept
    BY DEF Slots
  <2>2. CASE status'[e] \in LiveStatuses
    BY <2>1, <2>2
  <2>3. CASE \E s \in Requests : Revives(op'[s], call'[s], e)
    <3>1. PICK s \in Requests : Revives(op'[s], call'[s], e)
      BY <2>3
    <3>2. CASE s = r
      BY <1>1, <2>1, <3>1, <3>2
    <3>3. CASE s # r
      BY <1>1, <2>1, <3>1, <3>3 DEF Slots
    <3>. QED BY <3>2, <3>3
  <2>. QED BY <2>2, <2>3 DEF Slots
<1>. QED BY <1>2, <1>3

LEMMA RespondSlots ==
  ASSUME RequestTypeOK, NEW r \in Requests, Respond(r), Kept' \subseteq Kept,
         \A e \in Kept' : status'[e] \in LiveStatuses => e \in Slots
  PROVE  Slots' \subseteq Slots /\ Creating' \subseteq Creating
<1>1. Then(r, "idle", NoCall) /\ \A e : ~Revives("idle", NoCall, e)
  BY DEF Respond, Revives
<1>. QED BY <1>1, PlaceSlots

LEMMA ArrivalOvershoot ==
  ASSUME Finite, MaxEvents > 0, IInv, Overshoot, NEW r \in Requests, Arrival(r)
  PROVE  Overshoot'
<1>. USE DEF IInv, TypeOK
<1>1. Kept' = Kept /\ Live' = Live /\ status' = status
  BY ArrivalSends DEF rowVars, Kept, Live
<1>2. \A e \in Kept' : status'[e] \in LiveStatuses => e \in Slots
  BY <1>1 DEF Slots
<1>3. CASE CreateCheck(r)
  BY <1>1, <1>3, CheckBounds DEF CreateCheck, UnderEventLimit
<1>4. ASSUME NEW e \in Events, TransitionRead(r, e) PROVE Overshoot'
  <2>1. PICK to \in Statuses :
           /\ <<status[e], to>> \in AllowedTransitions
           /\ Then(r, IF to = "active" /\ status[e] = "expired" THEN "reactivate?" ELSE "set",
                   [NoCall EXCEPT !.e = e, !.to = to])
    BY <1>4 DEF TransitionRead
  <2>. DEFINE n == IF to = "active" /\ status[e] = "expired" THEN "reactivate?" ELSE "set"
              c == [NoCall EXCEPT !.e = e, !.to = to]
  <2>2. n # "create" /\ c.e = e /\ (n = "reactivate?" \/ status[e] \in LiveStatuses)
    BY <2>1 DEF AllowedTransitions, LiveStatuses, NoCall
  <2>3. \A f \in Kept' : Revives(n, c, f) => f \in Slots
    BY <1>1, <2>2 DEF Revives, Slots
  <2>. HIDE DEF n, c
  <2>4. Then(r, n, c)
    BY <2>1 DEF n, c
  <2>. QED BY <1>1, <1>2, <2>2, <2>3, <2>4, PlaceSlots, FewerSlots
<1>5. ASSUME NEW e \in Events, ExtendRead(r, e) PROVE Overshoot'
  <2>. DEFINE n == IF status[e] = "expired" THEN "limit?" ELSE "extend?"
              c == [NoCall EXCEPT !.e = e, !.reactivate = (status[e] = "expired"), !.expires = expiresAt[e]]
  <2>1. Then(r, n, c) /\ n # "create"
    BY <1>5 DEF ExtendRead
  <2>2. \A f : ~Revives(n, c, f)
    BY DEF NoCall, Revives
  <2>. HIDE DEF n, c
  <2>. QED BY <1>1, <1>2, <2>1, <2>2, PlaceSlots, FewerSlots
<1>6. ASSUME NEW e \in Events, UpdateRead(r, e) PROVE Overshoot'
  <2>1. PICK t : Then(r, "update", [NoCall EXCEPT !.e = e, !.expires = t])
    BY <1>6 DEF UpdateRead
  <2>2. \A f, c : ~Revives("update", c, f)
    BY DEF Revives
  <2>. QED BY <1>1, <1>2, <2>1, <2>2, PlaceSlots, FewerSlots
<1>. QED BY <1>3, <1>4, <1>5, <1>6 DEF Arrival

LEMMA RequestStepOvershoot ==
  ASSUME Finite, MaxEvents > 0, IInv, Overshoot, NEW r \in Requests, RequestStep(r)
  PROVE  Overshoot'
<1>. USE DEF IInv, TypeOK
<1>. DEFINE e == call[r].e
<1>1. \A f \in Kept : status[f] \in LiveStatuses \/ Revives(op[r], call[r], f) => f \in Slots
  BY DEF Slots
<1>2. op[r] \in OpNames /\ CallOK(op[r], call[r])
  BY DEF RequestTypeOK, RequestsInPlan
<1>3. ASSUME Respond(r), Kept' \subseteq Kept,
             \A f \in Kept' : status'[f] = status[f] \/ (f = e /\ Revives(op[r], call[r], e)) \/ status'[f] \notin LiveStatuses
      PROVE  Overshoot'
  BY <1>1, <1>3, RespondSlots, FewerSlots
<1>4. CASE Create(r)
  BY <1>4, CreateOvershoot
<1>5. CASE SetStatus(r)
  <2>1. e \in Events
    BY <1>2, <1>5 DEF SetStatus, CallOK
  <2>2. status' = [status EXCEPT ![e] = IF e \in Kept THEN call[r].to ELSE @] /\ deletedAt' = deletedAt
    BY <1>5 DEF SetStatus, rowVars
  <2>3. Kept' \subseteq Kept
    BY <2>1, <2>2 DEF RowTypeOK, Kept
  <2>4. \A f \in Kept' : status'[f] = IF f = e THEN call[r].to ELSE status[f]
    BY <2>1, <2>2, <2>3 DEF RowTypeOK
  <2>. QED BY <1>3, <1>5, <2>3, <2>4 DEF SetStatus, Revives
<1>6. CASE ReactivateCheck(r)
  <2>1. Kept' = Kept /\ Live' = Live /\ status' = status
    BY <1>6 DEF ReactivateCheck, rowVars, Kept, Live
  <2>2. CASE UnderEventLimit
    BY <2>1, <2>2, CheckBounds DEF UnderEventLimit
  <2>3. CASE ~UnderEventLimit
    BY <1>3, <1>6, <2>1, <2>3 DEF ReactivateCheck
  <2>. QED BY <2>2, <2>3
<1>7. CASE Reactivate(r)
  <2>1. e \in Events
    BY <1>2, <1>7 DEF Reactivate, CallOK
  <2>2. Kept' \subseteq Kept /\ \A f \in Kept' : status'[f] = status[f] \/ f = e
    BY <1>7, <2>1 DEF Reactivate, RowTypeOK, Kept
  <2>. QED BY <1>3, <1>7, <2>2 DEF Reactivate, Revives
<1>8. CASE ExtendLimit(r)
  <2>1. Kept' = Kept /\ Live' = Live /\ status' = status
    BY <1>8 DEF ExtendLimit, rowVars, Kept, Live
  <2>2. CASE UnderEventLimit
    BY <2>1, <2>2, CheckBounds DEF UnderEventLimit
  <2>3. CASE ~UnderEventLimit
    BY <1>3, <1>8, <2>1, <2>3 DEF ExtendLimit
  <2>. QED BY <2>2, <2>3
<1>9. CASE ExtendCheck(r)
  <2>1. Kept' = Kept /\ status' = status
    BY <1>9 DEF ExtendCheck, rowVars, Kept
  <2>2. PICK t : Then(r, "extend", [call[r] EXCEPT !.expires = t]) \/ Respond(r)
    BY <1>9 DEF ExtendCheck
  <2>3. CASE Respond(r)
    BY <1>3, <2>1, <2>3
  <2>4. CASE Then(r, "extend", [call[r] EXCEPT !.expires = t])
    <3>. DEFINE c == [call[r] EXCEPT !.expires = t]
    <3>1. call[r] \in CallSet
      BY DEF RequestTypeOK
    <3>2. c.e = e /\ c.to = call[r].to /\ c.reactivate = call[r].reactivate
      BY <3>1 DEF CallSet
    <3>3. \A f : Revives("extend", c, f) => Revives(op[r], call[r], f)
      BY <1>9, <3>2 DEF ExtendCheck, Revives
    <3>. HIDE DEF c
    <3>4. \A f \in Kept' : status'[f] \in LiveStatuses \/ Revives("extend", c, f) => f \in Slots
      BY <1>1, <2>1, <3>3
    <3>5. Then(r, "extend", c)
      BY <2>4 DEF c
    <3>. QED BY <2>1, <3>4, <3>5, PlaceSlots, FewerSlots
  <2>. QED BY <2>2, <2>3, <2>4
<1>10. CASE Extend(r)
  <2>1. e \in Events
    BY <1>2, <1>10 DEF Extend, CallOK
  <2>2. Kept' \subseteq Kept /\ \A f \in Kept' : status'[f] = status[f] \/ (f = e /\ call[r].reactivate)
    BY <1>10, <2>1 DEF Extend, RowTypeOK, Kept
  <2>. QED BY <1>3, <1>10, <2>2 DEF Extend, Revives
<1>11. CASE Update(r)
  <2>1. Kept' = Kept /\ status' = status
    BY <1>11 DEF Update, Kept
  <2>. QED BY <1>3, <1>11, <2>1 DEF Update
<1>. QED BY <1>4, <1>5, <1>6, <1>7, <1>8, <1>9, <1>10, <1>11 DEF RequestStep

LEMMA NextOvershoot ==
  ASSUME Finite, MaxEvents > 0, IInv, Overshoot, [Next]_vars
  PROVE  Overshoot'
<1>1. ASSUME Untouched PROVE Overshoot'
  <2>1. Slots' \subseteq Slots /\ Creating' \subseteq Creating
    BY <1>1 DEF Untouched, Slots, Creating, Live
  <2>. QED BY <2>1, FewerSlots
<1>2. ASSUME NEW r \in Requests, RequestFails(r) PROVE Overshoot'
  <2>1. Kept' \subseteq Kept /\ status' = status /\ RequestTypeOK
    BY <1>2 DEF RequestFails, rowVars, Kept, IInv, TypeOK
  <2>2. \A e \in Kept' : status'[e] \in LiveStatuses => e \in Slots
    BY <2>1 DEF Slots
  <2>. QED BY <1>2, <2>1, <2>2, RespondSlots, FewerSlots DEF RequestFails
<1>3. ASSUME NEW e \in Events, SoftDelete(e) \/ Upload(e) PROVE Untouched
  BY <1>3 DEF IInv, TypeOK, RowTypeOK, SoftDelete, Upload, rowVars, Untouched, Live, Kept
<1>4. Tick \/ UNCHANGED vars => Slots' = Slots /\ Creating' = Creating
  BY DEF Tick, vars, rowVars, Slots, Creating, Kept, Revives
<1>. QED BY <1>1, <1>2, <1>3, <1>4, ArrivalOvershoot, RequestStepOvershoot, ExpireIInv, PurgeIInv, FewerSlots DEF Next

LEMMA InitOvershoot ==
  ASSUME Finite, MaxEvents > 0, Init
  PROVE  Overshoot
<1>1. Slots = {} /\ Creating = {}
  BY DEF Init, Slots, Creating, Kept, Statuses, LiveStatuses
<1>2. Cardinality(Requests) \in Nat
  BY FS_CardinalityType DEF Finite
<1>. QED BY <1>1, <1>2, FS_EmptySet, LifecycleAssumption DEF Overshoot

\* Live events exceed the plan's limit by fewer than there are requests at
\* once, creations that have passed the check included (service.go:523-539).
THEOREM OvershootByRequests ==
  ASSUME Finite
  PROVE  Spec => []LiveOvershootBounded
<1>1. CASE MaxEvents = 0
  <2>1. LiveOvershootBounded
    BY <1>1 DEF LiveOvershootBounded
  <2>. QED BY <2>1, PTL
<1>2. CASE MaxEvents > 0
  <2>1. Overshoot => LiveOvershootBounded
    <3>1. Live \subseteq Slots
      BY DEF Live, Slots
    <3>2. /\ Cardinality(Live) <= Cardinality(Slots)
          /\ {Cardinality(Live), Cardinality(Slots), Cardinality(Creating), Cardinality(Requests)} \subseteq Nat
      BY <3>1, SlotsFinite, FS_Subset, FS_CardinalityType DEF Finite
    <3>. QED BY <3>2, LifecycleAssumption DEF Overshoot, LiveOvershootBounded
  <2>. QED BY <1>2, <2>1, InitIInv, NextIInv, InitOvershoot, NextOvershoot, PTL DEF Spec
<1>. QED BY <1>1, <1>2, LifecycleAssumption

-----------------------------------------------------------------------------
(* The bytes.                                                              *)

Balanced == userBytes = Total(storageBytes, Events)

\* The owner's total moves with an event's counter.
LEMMA CounterMoves ==
  ASSUME IsFiniteSet(Events), IInv, Balanced, NEW e \in Events, NEW n \in Nat,
         storageBytes' = [storageBytes EXCEPT ![e] = n],
         userBytes' = AtLeastZero(userBytes - storageBytes[e] + n)
  PROVE  Balanced'
<1>. DEFINE new == [storageBytes EXCEPT ![e] = n]
<1>1. storageBytes \in [Events -> Nat]
  BY DEF IInv, TypeOK, BytesTypeOK
<1>2. /\ \A f \in Events : storageBytes[f] \in Nat /\ new[f] \in Nat
      /\ \A f \in Events \ {e} : storageBytes[f] = new[f]
      /\ new[e] = n
  BY <1>1
<1>3. storageBytes' = new
  OBVIOUS
<1>. HIDE DEF new
<1>4. /\ Total(storageBytes, Events) \in Nat
      /\ storageBytes[e] <= Total(storageBytes, Events)
      /\ Total(new, Events) = Total(storageBytes, Events) - storageBytes[e] + new[e]
  BY <1>2, TotalUpdate
<1>5. userBytes' = Total(new, Events)
  BY <1>2, <1>4 DEF Balanced, AtLeastZero
<1>. QED BY <1>3, <1>5 DEF Balanced

LEMMA NextBalanced ==
  ASSUME IsFiniteSet(Events), IInv, Balanced, [Next]_vars
  PROVE  Balanced'
<1>1. UNCHANGED bytes => Balanced'
  BY DEF Balanced, bytes
<1>2. ASSUME NEW e \in Events, Upload(e) PROVE Balanced'
  <2>. DEFINE n == storageBytes[e] + 1
  <2>1. /\ n \in Nat
        /\ storageBytes' = [storageBytes EXCEPT ![e] = n]
        /\ userBytes' = AtLeastZero(userBytes - storageBytes[e] + n)
    BY <1>2 DEF Upload, IInv, TypeOK, BytesTypeOK, AtLeastZero
  <2>. HIDE DEF n
  <2>. QED BY <2>1, CounterMoves
<1>3. ASSUME NEW e \in Events, PurgeEvent(e) PROVE Balanced'
  <2>1. /\ storageBytes' = [storageBytes EXCEPT ![e] = 0]
        /\ userBytes' = AtLeastZero(userBytes - storageBytes[e] + 0)
    BY <1>3 DEF PurgeEvent, IInv, TypeOK, BytesTypeOK, AtLeastZero
  <2>. QED BY <2>1, CounterMoves
<1>4. PurgeStep \/ PurgeError => UNCHANGED bytes \/ \E e \in Events : PurgeEvent(e)
  BY DEF PurgeStep, PurgeError, ListPurgeable, PurgeKeys, PurgeObject, PurgeDone
<1>5. ASSUME NEW e \in Events, SoftDelete(e) PROVE UNCHANGED bytes
  BY <1>5 DEF SoftDelete
<1>6. ASSUME NEW r \in Requests, RequestFails(r) PROVE UNCHANGED bytes
  BY <1>6 DEF RequestFails
<1>7. Tick \/ UNCHANGED vars => UNCHANGED bytes
  BY DEF Tick, vars, bytes
<1>. QED BY <1>1, <1>2, <1>3, <1>4, <1>5, <1>6, <1>7, ArrivalSends, RequestStepIInv, ExpireIInv DEF Next

\* The owner's total is the sum over the events, whatever fails and however
\* often a purge is repeated.
THEOREM TotalBalanced ==
  ASSUME IsFiniteSet(Events)
  PROVE  Spec => []StorageBalanced
<1>1. Init => Balanced
  <2>1. ASSUME Init PROVE Total(storageBytes, Events) = 0
    <3>1. \A e \in Events : storageBytes[e] = 0
      BY <2>1 DEF Init
    <3>. QED BY <3>1, TotalZero
  <2>. QED BY <2>1 DEF Init, Balanced
<1>2. Balanced => StorageBalanced
  BY DEF Balanced, StorageBalanced, Total
<1>. QED BY <1>1, <1>2, InitIInv, NextIInv, NextBalanced, PTL DEF Spec

-----------------------------------------------------------------------------
(* event.purge, beside every call.                                         *)

\* Nobody brings back an expired event while it is on the list of the purge.
\* The code does not see to it: PurgeEvent has no predicate (repository.go:504).
ListedLeft ==
    \A e \in puList : status[e] = "expired" =>
        status'[e] \in {"expired", "purged"} /\ expiresAt'[e] = expiresAt[e]

\* What makes an event purgeable.
PastGrace(e) ==
    \/ deletedAt[e] # Never /\ deletedAt[e] + Grace <= now
    \/ status[e] = "expired" /\ expiresAt[e] # Never /\ expiresAt[e] + Grace <= now

\* What the job has listed was purgeable then and still is, hence dead; at an
\* event, the keys still to delete name all its objects.
PurgeInv ==
    /\ \A e \in puList : PastGrace(e) /\ status[e] # "none"
    /\ \A e \in Events : puPc = e => e \in puList /\ objects[e] \subseteq puKeys

LEMMA PastGraceDead ==
  ASSUME NEW e \in Events, PastGrace(e)
  PROVE  e \notin Live
BY DEF PastGrace, Live, Kept, LiveStatuses

\* A row goes in one step alone.
LEMMA PurgedByPurge ==
  ASSUME IInv, [Next]_vars, NEW e \in Events, status'[e] = "purged", status[e] # "purged"
  PROVE  PurgeEvent(e)
<1>. USE DEF IInv, TypeOK, RowTypeOK
<1>1. status' # status /\ "purged" \notin Statuses
  BY DEF Statuses, LiveStatuses
<1>2. ASSUME NEW r \in Requests, RequestStep(r) PROVE FALSE
  <2>1. CallOK(op[r], call[r])
    BY DEF RequestsInPlan
  <2>2. CASE Create(r)
    BY <1>1, <2>1, <2>2 DEF Create, CallOK
  <2>3. CASE SetStatus(r)
    BY <1>1, <2>1, <2>3 DEF SetStatus, CallOK
  <2>4. CASE Reactivate(r) \/ Extend(r)
    BY <2>4 DEF Reactivate, Extend
  <2>. QED BY <1>1, <1>2, <2>2, <2>3, <2>4 DEF RequestStep, ReactivateCheck, ExtendLimit, ExtendCheck, Update, rowVars
<1>3. ASSUME NEW r \in Requests, Arrival(r) \/ RequestFails(r) PROVE FALSE
  BY <1>1, <1>3, ArrivalSends DEF RequestFails, rowVars
<1>4. ASSUME NEW f \in Events, SoftDelete(f) \/ Upload(f) PROVE FALSE
  BY <1>1, <1>4 DEF SoftDelete, Upload, rowVars
<1>5. ASSUME ExpireStep \/ ExpireError PROVE FALSE
  <2>1. ASSUME NEW f \in Events, MarkExpired(f) PROVE status'[e] \in {status[e], "expired"}
    BY <2>1 DEF MarkExpired
  <2>. QED BY <1>1, <1>5, <2>1 DEF ExpireStep, ExpireError, ListExpiryWarnings, ListDueExpiry, ExpireDone,
         NotifyExpiryWarning, MarkExpiryWarned, rowVars
<1>6. ASSUME NEW f \in Events, PurgeEvent(f) PROVE f = e
  BY <1>6 DEF PurgeEvent
<1>7. CASE PurgeStep \/ PurgeError
  BY <1>1, <1>6, <1>7 DEF PurgeStep, PurgeError, ListPurgeable, PurgeKeys, PurgeObject, PurgeDone, rowVars
<1>. QED BY <1>1, <1>2, <1>3, <1>4, <1>5, <1>7 DEF Next, Tick, vars, rowVars

\* The list and the keys are the job's own.
LEMMA ListStays ==
  ASSUME IInv, [Next]_vars, ~(PurgeStep \/ PurgeError)
  PROVE  UNCHANGED puVars
<1>1. ASSUME NEW r \in Requests, RequestFails(r) PROVE UNCHANGED puVars
  BY <1>1 DEF RequestFails
<1>2. ASSUME NEW e \in Events, SoftDelete(e) \/ Upload(e) PROVE UNCHANGED puVars
  BY <1>2 DEF SoftDelete, Upload
<1>3. Tick \/ UNCHANGED vars => UNCHANGED puVars
  BY DEF Tick, vars, puVars
<1>. QED BY <1>1, <1>2, <1>3, ArrivalSends, RequestStepIInv, ExpireIInv DEF Next

\* Beside the job no row disappears, a deleted one is not restored, no dead
\* event is given an object, and the clock goes on.
LEMMA DeadStays ==
  ASSUME IInv, [Next]_vars, ~(PurgeStep \/ PurgeError), NEW e \in Events \ Live, status[e] # "none"
  PROVE  /\ status'[e] # "none" /\ objects'[e] = objects[e]
         /\ deletedAt[e] # Never => deletedAt'[e] = deletedAt[e]
         /\ now' >= now /\ now' \in Nat
<1>. USE DEF IInv, TypeOK, RowTypeOK
<1>. DEFINE Goal == /\ status'[e] # "none" /\ objects'[e] = objects[e]
                    /\ deletedAt[e] # Never => deletedAt'[e] = deletedAt[e]
                    /\ now' >= now /\ now' \in Nat
<1>1. ASSUME UNCHANGED <<now, rowVars, objects>> PROVE Goal
  BY <1>1 DEF rowVars
<1>2. ASSUME NEW r \in Requests, Arrival(r) \/ RequestFails(r) PROVE Goal
  BY <1>1, <1>2, ArrivalSends DEF RequestFails
<1>3. ASSUME NEW r \in Requests, RequestStep(r) PROVE Goal
  <2>1. UNCHANGED <<now, objects>> /\ CallOK(op[r], call[r])
    BY <1>3, RequestStepIInv DEF RequestsInPlan
  <2>2. UNCHANGED deletedAt
    BY <1>3 DEF RequestStep, Create, SetStatus, ReactivateCheck, Reactivate, ExtendLimit, ExtendCheck, Extend, Update, rowVars
  <2>3. "none" \notin Statuses
    BY DEF Statuses, LiveStatuses
  <2>4. status'[e] # "none"
    <3>1. CASE Create(r)
      BY <2>1, <2>3, <3>1 DEF Create, CallOK
    <3>2. CASE SetStatus(r)
      BY <2>1, <2>3, <3>2 DEF SetStatus, CallOK
    <3>3. CASE Reactivate(r) \/ Extend(r)
      BY <3>3 DEF Reactivate, Extend
    <3>4. CASE UNCHANGED status
      BY <3>4
    <3>. QED BY <1>3, <3>1, <3>2, <3>3, <3>4 DEF RequestStep, ReactivateCheck, ExtendLimit, ExtendCheck, Update, rowVars
  <2>. QED BY <2>1, <2>2, <2>4
<1>4. ASSUME NEW f \in Events, SoftDelete(f) PROVE Goal
  BY <1>4 DEF SoftDelete, Kept
<1>5. ASSUME NEW f \in Events, Upload(f) PROVE Goal
  BY <1>5 DEF Upload, rowVars, BytesTypeOK
<1>6. CASE ExpireStep \/ ExpireError
  <2>1. Untouched /\ UNCHANGED objects
    BY <1>6, ExpireIInv
  <2>2. status'[e] \in {status[e], "expired"} /\ deletedAt' = deletedAt
    BY <1>6 DEF ExpireStep, ExpireError, ListExpiryWarnings, ListDueExpiry, ExpireDone, NotifyExpiryWarning,
       MarkExpiryWarned, MarkExpired, rowVars
  <2>. QED BY <2>1, <2>2 DEF Untouched
<1>7. CASE Tick
  BY <1>7 DEF Tick, rowVars
<1>8. CASE UNCHANGED vars
  BY <1>1, <1>8 DEF vars, rowVars
<1>. QED BY <1>2, <1>3, <1>4, <1>5, <1>6, <1>7, <1>8 DEF Next

LEMMA BesidePurge ==
  ASSUME IInv, PurgeInv, PurgeRemovesObjects, [Next]_vars, ListedLeft \/ UNCHANGED vars, ~(PurgeStep \/ PurgeError)
  PROVE  PurgeInv' /\ PurgeRemovesObjects'
<1>. USE LifecycleAssumption DEF IInv, TypeOK, RowTypeOK, Times
<1>1. puList \subseteq Events /\ puPc' = puPc /\ puList' = puList /\ puKeys' = puKeys
  BY ListStays DEF JobTypeOK, puVars
<1>2. ASSUME NEW e \in puList PROVE PastGrace(e)' /\ status'[e] # "none" /\ objects'[e] = objects[e]
  <2>1. PastGrace(e) /\ status[e] # "none" /\ e \in Events \ Live /\ expiresAt[e] \in Times /\ deletedAt[e] \in Times
    BY <1>1, <1>2, PastGraceDead DEF PurgeInv
  <2>2. /\ status'[e] # "none" /\ objects'[e] = objects[e]
        /\ deletedAt[e] # Never => deletedAt'[e] = deletedAt[e]
        /\ now' >= now /\ now' \in Nat
    BY <2>1, DeadStays
  <2>3. CASE deletedAt[e] # Never /\ deletedAt[e] + Grace <= now
    BY <2>1, <2>2, <2>3 DEF PastGrace
  <2>4. CASE status[e] = "expired" /\ expiresAt[e] # Never /\ expiresAt[e] + Grace <= now
    <3>1. status'[e] \in {"expired", "purged"} /\ expiresAt'[e] = expiresAt[e]
      BY <1>2, <2>4 DEF ListedLeft, vars
    <3>2. status'[e] # "purged"
      BY <2>1, <2>4, PurgedByPurge DEF PurgeStep
    <3>. QED BY <2>1, <2>2, <2>4, <3>1, <3>2 DEF PastGrace
  <2>. QED BY <2>1, <2>2, <2>3, <2>4 DEF PastGrace
<1>3. ASSUME NEW e \in Events, status'[e] = "purged" PROVE objects'[e] = {}
  <2>1. status[e] = "purged"
    BY <1>3, PurgedByPurge DEF PurgeStep
  <2>2. e \notin Live
    BY <2>1 DEF Live, LiveStatuses
  <2>. QED BY <2>1, <2>2, DeadStays DEF PurgeRemovesObjects
<1>. QED BY <1>1, <1>2, <1>3 DEF PurgeInv, PurgeRemovesObjects

LEMMA PurgeStepInv ==
  ASSUME IInv, PurgeInv, PurgeRemovesObjects, PurgeStep \/ PurgeError
  PROVE  PurgeInv' /\ PurgeRemovesObjects'
<1>. USE LifecycleAssumption DEF IInv, TypeOK, RowTypeOK, BytesTypeOK, JobTypeOK, PurgeRemovesObjects, PuGoto, rowVars, Times
<1>1. CASE ListPurgeable
  <2>1. \A e \in puList' : e \in Events /\ PastGrace(e) /\ status[e] # "none"
    BY <1>1 DEF ListPurgeable, By, PastGrace, Statuses, LiveStatuses
  <2>2. \A e : PastGrace(e)' <=> PastGrace(e)
    BY <1>1 DEF ListPurgeable, PastGrace
  <2>3. puPc' = "list" /\ UNCHANGED <<status, objects>>
    BY <1>1 DEF ListPurgeable
  <2>. QED BY <2>1, <2>2, <2>3 DEF PurgeInv
<1>2. ASSUME NEW e \in Events, PurgeKeys(e) PROVE PurgeInv' /\ PurgeRemovesObjects'
  BY <1>2 DEF PurgeKeys, PurgeInv, PastGrace
<1>3. ASSUME NEW e \in Events, PurgeObject(e) PROVE PurgeInv' /\ PurgeRemovesObjects'
  BY <1>3 DEF PurgeObject, PurgeInv, PastGrace
<1>4. ASSUME NEW e \in Events, PurgeEvent(e) PROVE PurgeInv' /\ PurgeRemovesObjects'
  BY <1>4 DEF PurgeEvent, PurgeInv, PastGrace
<1>5. CASE PurgeDone
  BY <1>5 DEF PurgeDone, PurgeInv, PastGrace
<1>6. CASE PurgeError
  BY <1>6 DEF PurgeError, PurgeInv, PastGrace
<1>. QED BY <1>1, <1>2, <1>3, <1>4, <1>5, <1>6 DEF PurgeStep

LEMMA NextPurgeInv ==
  ASSUME IInv, PurgeInv, PurgeRemovesObjects, [Next]_vars, [ListedLeft]_vars
  PROVE  PurgeInv' /\ PurgeRemovesObjects'
BY BesidePurge, PurgeStepInv

\* Unless an event is brought back while the purge has it on its list, the
\* purge leaves no object behind, whatever call of it fails (jobs.go:121-136).
THEOREM NoObjectLeft == Spec /\ [][ListedLeft]_vars => []PurgeRemovesObjects
<1>1. Init => PurgeInv /\ PurgeRemovesObjects
  BY LifecycleAssumption DEF Init, PurgeInv, PurgeRemovesObjects
<1>. QED BY <1>1, InitIInv, NextIInv, NextPurgeInv, PTL DEF Spec

\* And it deletes what is past its grace period alone, beside every call and
\* both jobs (jobs.go:94, repository.go:425-446).
THEOREM OnlyPastGrace == Spec /\ [][ListedLeft]_vars => PurgeOnlyPastGrace
<1>. DEFINE AllInv == IInv /\ PurgeInv /\ PurgeRemovesObjects
            Step == \A e \in Events :
                       status'[e] = "purged" /\ status[e] # "purged" =>
                          \/ deletedAt[e] # Never /\ deletedAt[e] + Grace <= now
                          \/ status[e] = "expired" /\ expiresAt[e] # Never /\ expiresAt[e] + Grace <= now
<1>1. Init => AllInv
  BY InitIInv, LifecycleAssumption DEF Init, PurgeInv, PurgeRemovesObjects
<1>2. AllInv /\ [Next]_vars /\ [ListedLeft]_vars => AllInv'
  BY NextIInv, NextPurgeInv
<1>3. AllInv /\ [Next]_vars => [Step]_status
  <2>1. ASSUME AllInv, [Next]_vars, NEW e \in Events, status'[e] = "purged", status[e] # "purged"
        PROVE  PastGrace(e)
    <3>1. PurgeEvent(e)
      BY <2>1, PurgedByPurge
    <3>. QED BY <2>1, <3>1 DEF PurgeEvent, PurgeInv
  <2>. QED BY <2>1 DEF PastGrace
<1>. HIDE DEF AllInv
<1>4. Spec /\ [][ListedLeft]_vars => []AllInv /\ [][Next]_vars
  BY <1>1, <1>2, PTL DEF Spec
<1>. QED BY <1>3, <1>4, PTL DEF PurgeOnlyPastGrace
=============================================================================
