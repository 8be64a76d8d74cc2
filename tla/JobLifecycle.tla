---------------------------- MODULE JobLifecycle ----------------------------
(***************************************************************************)
(* What the queue of internal/jobs promises about one row of table jobs,   *)
(* as the interface Queue of job.go words it: a job is run by one holder   *)
(* at a time, an attempt that fails is counted and retried until the       *)
(* attempts are used up, a release counts no attempt, and a job that is    *)
(* done or failed stays so.  A holder may be lost with its process; its    *)
(* jobs then stay running with no holder.                                  *)
(***************************************************************************)
EXTENDS Integers

CONSTANTS JobIds, Holders, MaxAttempts

VARIABLES
    phase,   \* "absent", "pending", "running", "done" or "failed"
    tries,   \* failed attempts
    holders  \* who is running the job now

vars == <<phase, tries, holders>>

Init ==
    /\ phase   = [j \in JobIds |-> "absent"]
    /\ tries   = [j \in JobIds |-> 0]
    /\ holders = [j \in JobIds |-> {}]

Submit(j) ==
    /\ phase[j] = "absent"
    /\ phase' = [phase EXCEPT ![j] = "pending"]
    /\ UNCHANGED <<tries, holders>>

Take(j, h) ==
    /\ phase[j] = "pending"
    /\ phase' = [phase EXCEPT ![j] = "running"]
    /\ holders' = [holders EXCEPT ![j] = {h}]
    /\ UNCHANGED tries

\* The claim took effect and nobody learned of it.
TakeLost(j) ==
    /\ phase[j] = "pending"
    /\ phase' = [phase EXCEPT ![j] = "running"]
    /\ UNCHANGED <<tries, holders>>

\* The one holder of a running job leaves it in phase next.
Leave(j, next) ==
    /\ phase[j] = "running"
    /\ \E h \in Holders : holders[j] = {h}
    /\ phase' = [phase EXCEPT ![j] = next]
    /\ holders' = [holders EXCEPT ![j] = {}]

Succeed(j) == Leave(j, "done") /\ UNCHANGED tries

Attempt(j) == tries' = [tries EXCEPT ![j] = @ + 1]

Retry(j) ==
    /\ tries[j] + 1 < MaxAttempts
    /\ Leave(j, "pending")
    /\ Attempt(j)

GiveUp(j) ==
    /\ tries[j] + 1 = MaxAttempts
    /\ Leave(j, "failed")
    /\ Attempt(j)

PutBack(j) == Leave(j, "pending") /\ UNCHANGED tries

\* Some holders are gone; what they held stays running.
Lose(gone) ==
    /\ holders' = [j \in JobIds |-> holders[j] \ gone]
    /\ UNCHANGED <<phase, tries>>

Next ==
    \/ \E j \in JobIds :
          \/ Submit(j) \/ TakeLost(j) \/ Succeed(j) \/ Retry(j) \/ GiveUp(j) \/ PutBack(j)
          \/ \E h \in Holders : Take(j, h)
    \/ \E gone \in SUBSET Holders : Lose(gone)

Spec == Init /\ [][Next]_vars
=============================================================================
