---------------------------- MODULE EventLifecycle ----------------------------
(***************************************************************************)
(* Events of one owner (internal/events): creation under the plan's limit  *)
(* of live events, client transitions, extension, change of expiry and     *)
(* soft deletion; the event.expire job that warns and expires, and the     *)
(* event.purge job that removes the objects, the row and the bytes of      *)
(* events past the grace period.                                           *)
(*                                                                         *)
(* A service method reads, checks and then writes, each a statement of its *)
(* own, so jobs and other requests interleave.  The clock counts days.     *)
(* There is one worker, so one run of each job at a time.                  *)
(***************************************************************************)
EXTENDS Integers, FiniteSets, FiniteSetsExt

CONSTANTS
    Events,
    Requests,    \* API handlers that may be in flight together
    Calls,       \* the service methods that clients call
    Jobs,        \* the jobs that are scheduled
    MaxEvents,   \* of the plan; 0 is unlimited
    Retention,   \* retentionDays of the plan; 0 is unlimited
    Grace,       \* EVENT_PURGE_GRACE_DAYS
    WarnWithin,  \* EXPIRY_WARN_DAYS
    MaxDays,     \* bound: days of an extension, or of an expiry ahead
    MaxTime,     \* bound: of the clock
    MaxUploads,  \* bound: objects of an event
    MaxFaults,   \* bound: failed calls and stopped handlers
    Never, NoEvent

ASSUME LifecycleAssumption ==
    /\ Calls \subseteq {"create", "transition", "extend", "update", "delete"}
    /\ Jobs \subseteq {"expire", "purge"}
    /\ {MaxEvents, Retention, Grace, WarnWithin, MaxTime, MaxUploads, MaxFaults} \subseteq Nat
    /\ MaxDays \in Nat \ {0}
    /\ Never \notin Nat
    /\ NoEvent \notin Events
    /\ {"idle", "warn", "expire", "list"} \cap Events = {}

VARIABLES
    now,
    status,     \* events.status, "none" before the insert, "purged" after the delete
    expiresAt, deletedAt,
    warned,     \* expiry_warned_at is set
    mails,      \* history: warnings sent about the current expiry
    objects,    \* objects of the event's photos, of one byte each
    storageBytes, userBytes,  \* the counters on events and on its owner
    op, call,   \* the next statement of a request and its local variables
    exPc, exAt, exList,  \* event.expire: next step, its "now", the listed events
    puPc, puList, puKeys,  \* event.purge: likewise, and keys to delete
    faults

rowVars == <<status, expiresAt, deletedAt, warned, mails>>
bytes   == <<storageBytes, userBytes>>
exVars  == <<exPc, exAt, exList>>
puVars  == <<puPc, puList, puKeys>>
vars == <<now, status, expiresAt, deletedAt, warned, mails, objects, storageBytes,
          userBytes, op, call, exPc, exAt, exList, puPc, puList, puKeys, faults>>

LiveStatuses == {"upcoming", "active", "completed"}
Statuses     == LiveStatuses \cup {"archived", "expired"}

AllowedTransitions ==
    {<<"upcoming", "active">>, <<"upcoming", "archived">>,
     <<"active", "completed">>, <<"active", "archived">>,
     <<"completed", "archived">>, <<"expired", "active">>}

NoCall == [e |-> NoEvent, to |-> "none", expires |-> Never, reactivate |-> FALSE]

Init ==
    /\ now       = 0
    /\ status    = [e \in Events |-> "none"]
    /\ expiresAt = [e \in Events |-> Never]
    /\ deletedAt = [e \in Events |-> Never]
    /\ warned    = [e \in Events |-> FALSE]
    /\ mails     = [e \in Events |-> 0]
    /\ objects   = [e \in Events |-> {}]
    /\ storageBytes = [e \in Events |-> 0]
    /\ userBytes = 0
    /\ op        = [r \in Requests |-> "idle"]
    /\ call      = [r \in Requests |-> NoCall]
    /\ exPc = "idle" /\ exAt = 0 /\ exList = {}
    /\ puPc = "idle" /\ puList = {} /\ puKeys = {}
    /\ faults    = 0

Fault == faults < MaxFaults /\ faults' = faults + 1

\* Rows a service method can reach.
Kept   == {e \in Events : status[e] \in Statuses /\ deletedAt[e] = Never}
Live   == {e \in Kept : status[e] \in LiveStatuses}
By(t)  == {e \in Events : expiresAt[e] # Never /\ expiresAt[e] <= t}

\* Mutant: the last slot is given away twice.
UnderEventLimitOrAt == MaxEvents = 0 \/ Cardinality(Live) <= MaxEvents

UnderEventLimit == MaxEvents = 0 \/ Cardinality(Live) < MaxEvents

\* checkRetention, and the expiry that a plan gives an event by default.
WithinPlan(t) == Retention = 0 \/ (t # Never /\ t <= now + Retention)
PlanExpiry    == IF Retention = 0 THEN Never ELSE now + Retention

AtLeastZero(n) == IF n > 0 THEN n ELSE 0

Then(r, next, c) ==
    /\ op'   = [op EXCEPT ![r] = next]
    /\ call' = [call EXCEPT ![r] = c]

Respond(r) == Then(r, "idle", NoCall)

SetExpiry(e, t) ==
    /\ expiresAt' = [expiresAt EXCEPT ![e] = t]
    /\ warned'    = [warned EXCEPT ![e] = FALSE]
    /\ mails'     = [mails EXCEPT ![e] = 0]

-----------------------------------------------------------------------------
(* Requests                                                                *)

\* enforceEventLimit, and the expiry: given by the client or the plan's.
CreateCheck(r) ==
    /\ "create" \in Calls
    /\ op[r] = "idle"
    /\ UnderEventLimit
    /\ \E to \in Statuses, t \in {PlanExpiry} \cup now..now + MaxDays :
          /\ WithinPlan(t)
          /\ Then(r, "create", [NoCall EXCEPT !.to = to, !.expires = t])
    /\ UNCHANGED <<now, rowVars, objects, bytes, exVars, puVars, faults>>

Create(r) ==
    /\ op[r] = "create"
    /\ \E e \in Events :
          /\ status[e] = "none"
          /\ status' = [status EXCEPT ![e] = call[r].to]
          /\ SetExpiry(e, call[r].expires)
    /\ Respond(r)
    /\ UNCHANGED <<now, deletedAt, objects, bytes, exVars, puVars, faults>>

TransitionRead(r, e) ==
    /\ "transition" \in Calls
    /\ op[r] = "idle"
    /\ e \in Kept
    /\ \E to \in Statuses :
          /\ <<status[e], to>> \in AllowedTransitions
          /\ Then(r, IF to = "active" /\ status[e] = "expired" THEN "reactivate?" ELSE "set",
                  [NoCall EXCEPT !.e = e, !.to = to])
    /\ UNCHANGED <<now, rowVars, objects, bytes, exVars, puVars, faults>>

\* By id alone: whatever the status has become.
SetStatus(r) ==
    LET e == call[r].e IN
    /\ op[r] = "set"
    /\ status' = [status EXCEPT ![e] = IF e \in Kept THEN call[r].to ELSE @]
    /\ Respond(r)
    /\ UNCHANGED <<now, expiresAt, deletedAt, warned, mails, objects, bytes, exVars, puVars, faults>>

ReactivateCheck(r) ==
    /\ op[r] = "reactivate?"
    /\ IF UnderEventLimit
       THEN Then(r, "reactivate", [call[r] EXCEPT !.expires = PlanExpiry])
       ELSE Respond(r)
    /\ UNCHANGED <<now, rowVars, objects, bytes, exVars, puVars, faults>>

\* With the status as a predicate.
Reactivate(r) ==
    LET e == call[r].e IN
    /\ op[r] = "reactivate"
    /\ IF e \in Kept /\ status[e] = "expired"
       THEN status' = [status EXCEPT ![e] = "active"] /\ SetExpiry(e, call[r].expires)
       ELSE UNCHANGED <<status, expiresAt, warned, mails>>
    /\ Respond(r)
    /\ UNCHANGED <<now, deletedAt, objects, bytes, exVars, puVars, faults>>

\* Extend reads the event; an expired one is to be reactivated, for which
\* the limit is checked first.
ExtendRead(r, e) ==
    /\ "extend" \in Calls
    /\ op[r] = "idle"
    /\ e \in Kept
    /\ status[e] # "archived"
    /\ Then(r, IF status[e] = "expired" THEN "limit?" ELSE "extend?",
            [NoCall EXCEPT !.e = e, !.reactivate = (status[e] = "expired"), !.expires = expiresAt[e]])
    /\ UNCHANGED <<now, rowVars, objects, bytes, exVars, puVars, faults>>

ExtendLimit(r) ==
    /\ op[r] = "limit?"
    /\ IF UnderEventLimit THEN Then(r, "extend?", call[r]) ELSE Respond(r)
    /\ UNCHANGED <<now, rowVars, objects, bytes, exVars, puVars, faults>>

\* From the later of now and the expiry that was read.
ExtendCheck(r) ==
    LET base == IF call[r].expires # Never /\ call[r].expires > now THEN call[r].expires ELSE now IN
    /\ op[r] = "extend?"
    /\ \E days \in 1..MaxDays :
          IF WithinPlan(base + days)
          THEN Then(r, "extend", [call[r] EXCEPT !.expires = base + days])
          ELSE Respond(r)
    /\ UNCHANGED <<now, rowVars, objects, bytes, exVars, puVars, faults>>

Extend(r) ==
    LET e == call[r].e IN
    /\ op[r] = "extend"
    /\ IF e \in Kept
       THEN /\ status' = [status EXCEPT ![e] = IF call[r].reactivate THEN "active" ELSE @]
            /\ SetExpiry(e, call[r].expires)
       ELSE UNCHANGED <<status, expiresAt, warned, mails>>
    /\ Respond(r)
    /\ UNCHANGED <<now, deletedAt, objects, bytes, exVars, puVars, faults>>

\* Mutant: a cleared expiry is cleared whatever the plan.
UpdateReadClearing(r, e) ==
    /\ "update" \in Calls
    /\ op[r] = "idle"
    /\ e \in Kept
    /\ status[e] \notin {"expired", "archived"}
    /\ \E t \in {Never} \cup now..now + MaxDays :
          /\ t = Never \/ WithinPlan(t)
          /\ Then(r, "update", [NoCall EXCEPT !.e = e, !.expires = t])
    /\ UNCHANGED <<now, rowVars, objects, bytes, exVars, puVars, faults>>

\* Update of the expiry; one that is cleared becomes the plan's.
UpdateRead(r, e) ==
    /\ "update" \in Calls
    /\ op[r] = "idle"
    /\ e \in Kept
    /\ status[e] \notin {"expired", "archived"}
    /\ \E t \in {PlanExpiry} \cup now..now + MaxDays :
          /\ WithinPlan(t)
          /\ Then(r, "update", [NoCall EXCEPT !.e = e, !.expires = t])
    /\ UNCHANGED <<now, rowVars, objects, bytes, exVars, puVars, faults>>

Update(r) ==
    LET e == call[r].e IN
    /\ op[r] = "update"
    /\ IF e \in Kept THEN SetExpiry(e, call[r].expires) ELSE UNCHANGED <<expiresAt, warned, mails>>
    /\ Respond(r)
    /\ UNCHANGED <<now, status, deletedAt, objects, bytes, exVars, puVars, faults>>

\* Mutant: the bytes are given back at once, and again by the purge.
SoftDeleteCounted(e) ==
    /\ "delete" \in Calls
    /\ e \in Kept
    /\ deletedAt' = [deletedAt EXCEPT ![e] = now]
    /\ userBytes' = AtLeastZero(userBytes - storageBytes[e])
    /\ UNCHANGED <<now, status, expiresAt, warned, mails, objects, storageBytes, op, call, exVars, puVars, faults>>

SoftDelete(e) ==
    /\ "delete" \in Calls
    /\ e \in Kept
    /\ deletedAt' = [deletedAt EXCEPT ![e] = now]
    /\ UNCHANGED <<now, status, expiresAt, warned, mails, objects, bytes, op, call, exVars, puVars, faults>>

\* A photo uploaded to an event that is open: its object, under a key that
\* was never used, and its byte.
Upload(e) ==
    /\ e \in Live \ By(now)
    /\ storageBytes[e] < MaxUploads
    /\ objects' = [objects EXCEPT ![e] = @ \cup {storageBytes[e] + 1}]
    /\ storageBytes' = [storageBytes EXCEPT ![e] = @ + 1]
    /\ userBytes' = userBytes + 1
    /\ UNCHANGED <<now, rowVars, op, call, exVars, puVars, faults>>

-----------------------------------------------------------------------------
(* event.expire                                                            *)

\* The handler's local variables; it has none when it returns.
ExGoto(next, at, list) == exPc' = next /\ exAt' = at /\ exList' = list
ExReturn == ExGoto("idle", 0, {})

ListExpiryWarnings ==
    /\ "expire" \in Jobs
    /\ exPc = "idle"
    /\ ExGoto("warn", now, {e \in (Live \cap By(now + WarnWithin)) \ By(now) : ~warned[e]})
    /\ UNCHANGED <<now, rowVars, objects, bytes, op, call, puVars, faults>>

\* The warning is sent; a failure to send it is left for the next run.
NotifyExpiryWarning(e) ==
    /\ exPc = "warn"
    /\ e \in exList
    /\ \/ /\ mails' = [mails EXCEPT ![e] = @ + 1]
          /\ ExGoto(e, exAt, exList)
          /\ UNCHANGED faults
       \/ /\ Fault
          /\ ExGoto("warn", exAt, exList \ {e})
          /\ UNCHANGED mails
    /\ UNCHANGED <<now, status, expiresAt, deletedAt, warned, objects, bytes, op, call, puVars>>

\* By id alone: the warning marks whatever expiry the event has by now.
MarkExpiryWarned(e) ==
    /\ exPc = e
    /\ warned' = [warned EXCEPT ![e] = TRUE]
    /\ ExGoto("warn", exAt, exList \ {e})
    /\ UNCHANGED <<now, status, expiresAt, deletedAt, mails, objects, bytes, op, call, puVars, faults>>

ListDueExpiry ==
    /\ exPc = "warn"
    /\ exList = {}
    /\ ExGoto("expire", exAt, Live \cap By(exAt))
    /\ UNCHANGED <<now, rowVars, objects, bytes, op, call, puVars, faults>>

\* Only a live event, but with no second look at its expiry.
MarkExpired(e) ==
    /\ exPc = "expire"
    /\ e \in exList
    /\ status' = [status EXCEPT ![e] = IF e \in Live THEN "expired" ELSE @]
    /\ ExGoto("expire", exAt, exList \ {e})
    /\ UNCHANGED <<now, expiresAt, deletedAt, warned, mails, objects, bytes, op, call, puVars, faults>>

ExpireDone ==
    /\ exPc = "expire"
    /\ exList = {}
    /\ ExReturn
    /\ UNCHANGED <<now, rowVars, objects, bytes, op, call, puVars, faults>>

ExpireError ==
    /\ exPc # "idle"
    /\ Fault
    /\ ExReturn
    /\ UNCHANGED <<now, rowVars, objects, bytes, op, call, puVars>>

-----------------------------------------------------------------------------
(* event.purge                                                             *)

PuGoto(next, list, keys) == puPc' = next /\ puList' = list /\ puKeys' = keys

\* Mutant: the expiry of a listed event counts, not whether it has expired.
ListPurgeableDue ==
    LET cutoff == now - Grace IN
    /\ "purge" \in Jobs
    /\ puPc = "idle"
    /\ PuGoto("list", {e \in By(cutoff) : status[e] \in Statuses}, {})
    /\ UNCHANGED <<now, rowVars, objects, bytes, op, call, exVars, faults>>

\* Deleted, or expired, at least as long ago as the cutoff.
ListPurgeable ==
    LET cutoff == now - Grace IN
    /\ "purge" \in Jobs
    /\ puPc = "idle"
    /\ PuGoto("list",
              {e \in Events : status[e] \in Statuses /\ deletedAt[e] # Never /\ deletedAt[e] <= cutoff}
                \cup {e \in By(cutoff) : status[e] = "expired"}, {})
    /\ UNCHANGED <<now, rowVars, objects, bytes, op, call, exVars, faults>>

PurgeKeys(e) ==
    /\ puPc = "list"
    /\ e \in puList
    /\ PuGoto(e, puList, objects[e])
    /\ UNCHANGED <<now, rowVars, objects, bytes, op, call, exVars, faults>>

\* Mutant: an error of the store does not stop the handler.
PurgeObjectLenient(e) ==
    /\ puPc = e
    /\ \E k \in puKeys :
          /\ \/ objects' = [objects EXCEPT ![e] = @ \ {k}] /\ UNCHANGED faults
             \/ Fault /\ UNCHANGED objects
          /\ PuGoto(e, puList, puKeys \ {k})
    /\ UNCHANGED <<now, rowVars, bytes, op, call, exVars>>

PurgeObject(e) ==
    /\ puPc = e
    /\ \E k \in puKeys :
          /\ objects' = [objects EXCEPT ![e] = @ \ {k}]
          /\ PuGoto(e, puList, puKeys \ {k})
    /\ UNCHANGED <<now, rowVars, bytes, op, call, exVars, faults>>

\* One transaction; by id alone, whatever the event has become since it was
\* listed.
PurgeEvent(e) ==
    /\ puPc = e
    /\ puKeys = {}
    /\ status' = [status EXCEPT ![e] = "purged"]
    /\ userBytes' = AtLeastZero(userBytes - storageBytes[e])
    /\ storageBytes' = [storageBytes EXCEPT ![e] = 0]
    /\ PuGoto("list", puList \ {e}, {})
    /\ UNCHANGED <<now, expiresAt, deletedAt, warned, mails, objects, op, call, exVars, faults>>

PurgeDone ==
    /\ puPc = "list"
    /\ puList = {}
    /\ PuGoto("idle", {}, {})
    /\ UNCHANGED <<now, rowVars, objects, bytes, op, call, exVars, faults>>

PurgeError ==
    /\ puPc # "idle"
    /\ Fault
    /\ PuGoto("idle", {}, {})
    /\ UNCHANGED <<now, rowVars, objects, bytes, op, call, exVars>>

-----------------------------------------------------------------------------
Tick ==
    /\ now < MaxTime
    /\ now' = now + 1
    /\ UNCHANGED <<rowVars, objects, bytes, op, call, exVars, puVars, faults>>

\* A statement fails, the client goes away or the API stops.
RequestFails(r) ==
    /\ op[r] # "idle"
    /\ Fault
    /\ Respond(r)
    /\ UNCHANGED <<now, rowVars, objects, bytes, exVars, puVars>>

Arrival(r) ==
    \/ CreateCheck(r)
    \/ \E e \in Events : TransitionRead(r, e) \/ ExtendRead(r, e) \/ UpdateRead(r, e)

RequestStep(r) ==
    \/ Create(r) \/ SetStatus(r) \/ ReactivateCheck(r) \/ Reactivate(r)
    \/ ExtendLimit(r) \/ ExtendCheck(r) \/ Extend(r) \/ Update(r)

ExpireStep ==
    \/ ListExpiryWarnings \/ ListDueExpiry \/ ExpireDone
    \/ \E e \in Events : NotifyExpiryWarning(e) \/ MarkExpiryWarned(e) \/ MarkExpired(e)

PurgeStep ==
    \/ ListPurgeable \/ PurgeDone
    \/ \E e \in Events : PurgeKeys(e) \/ PurgeObject(e) \/ PurgeEvent(e)

Next ==
    \/ \E r \in Requests : Arrival(r) \/ RequestStep(r) \/ RequestFails(r)
    \/ \E e \in Events : SoftDelete(e) \/ Upload(e)
    \/ ExpireStep \/ ExpireError
    \/ PurgeStep \/ PurgeError
    \/ Tick

Spec == Init /\ [][Next]_vars

\* The scheduler runs both jobs again and again and statements are answered;
\* clients and the clock owe nothing.
Fairness ==
    /\ \A r \in Requests : WF_vars(RequestStep(r))
    /\ WF_vars(ExpireStep)
    /\ WF_vars(PurgeStep)

FairSpec == Spec /\ Fairness
=============================================================================
