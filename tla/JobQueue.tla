------------------------------ MODULE JobQueue ------------------------------
(***************************************************************************)
(* The Postgres-backed job queue of internal/jobs: the rows of table jobs, *)
(* the worker processes of cmd/worker (each a Poller with a fixed number   *)
(* of goroutines, and a Scheduler), and the statements they send.          *)
(*                                                                         *)
(* A worker process takes a fresh random name when it starts (workerName), *)
(* so a member of Procs is one run of a process: a restart is the start    *)
(* of another member.  A poller is a pair <<process, slot>>.               *)
(*                                                                         *)
(* A statement is atomic at its commit.  Claim is two statements in one    *)
(* transaction, so it is a lock step and a commit step; EnqueueUnique is   *)
(* one statement, but under READ COMMITTED its NOT EXISTS reads a snapshot *)
(* that is older than its insert, so it is a check step and an insert      *)
(* step.                                                                   *)
(***************************************************************************)
EXTENDS Integers, FiniteSets

CONSTANTS
    Procs,        \* runs of the worker process
    Slots,        \* goroutines of one process (WORKER_CONCURRENCY)
    JobIds,       \* rows of table jobs that are ever inserted
    Types,        \* job types
    TypeOf,       \* the type a row is inserted with
    Periodic,     \* types the scheduler enqueues
    Registered,   \* types the registry has a handler for
    MaxAttempts,  \* column max_attempts, 5 in the migration
    MaxStops,     \* bound: processes that stop, gracefully or not
    MaxFaults,    \* bound: crashes and failed database calls
    NoProc, NoJob

ASSUME JobTypesAssumption ==
    /\ TypeOf \in [JobIds -> Types]
    /\ Periodic \subseteq Types
    /\ Registered \subseteq Types

ASSUME BoundsAssumption ==
    /\ MaxAttempts \in Nat \ {0}
    /\ MaxStops \in Nat
    /\ MaxFaults \in Nat

ASSUME SentinelAssumption == NoProc \notin Procs /\ NoJob \notin JobIds

VARIABLES
    status,     \* jobs.status, "absent" before the insert
    attempts,   \* jobs.attempts
    lockedBy,   \* jobs.locked_by
    due,        \* jobs.run_at <= NOW()
    earlier,    \* <<j, k>> when both are due and j.run_at < k.run_at
    proc,       \* life of a worker process
    pc,         \* where a poller is in loop and handle
    cur,        \* the job a poller has in hand
    inserting,  \* <<process, type>>: EnqueueUnique is past its NOT EXISTS
    faults      \* crashes and failed database calls so far

rowVars  == <<status, attempts, lockedBy, due, earlier>>
pollVars == <<pc, cur>>
vars == <<status, attempts, lockedBy, due, earlier, proc, pc, cur, inserting, faults>>

Pollers  == Procs \X Slots
Statuses == {"absent", "pending", "running", "done", "failed"}
Active   == {"pending", "running"}
Terminal == {"done", "failed"}

\* A poller holds a job from the commit of its claim until it gives it up.
Holding == {"handling", "completing", "failing", "releasing"}
PcStates == {"off", "polling", "claiming", "stopped"} \cup Holding

\* The context every goroutine of w shares is cancelled.
Cancelled(w) == proc[w] = "stopping"

\* A call that may return an error: its context is cancelled, or the database
\* fails it, which the bound MaxFaults counts.
CallFails(w) == \/ Cancelled(w) /\ faults' = faults
                \/ faults < MaxFaults /\ faults' = faults + 1

\* The same for the calls made under context.WithoutCancel.
DetachedCallFails == faults < MaxFaults /\ faults' = faults + 1

Init ==
    /\ status    = [j \in JobIds |-> "absent"]
    /\ attempts  = [j \in JobIds |-> 0]
    /\ lockedBy  = [j \in JobIds |-> NoProc]
    /\ due       = [j \in JobIds |-> FALSE]
    /\ earlier   = {}
    /\ proc      = [w \in Procs |-> "new"]
    /\ pc        = [p \in Pollers |-> "off"]
    /\ cur       = [p \in Pollers |-> NoJob]
    /\ inserting = {}
    /\ faults    = 0

-----------------------------------------------------------------------------
(* Enqueueing                                                              *)

\* A row's run_at is now: it comes after every row that is already due.
BecomeDue(j) ==
    /\ due'     = [due EXCEPT ![j] = TRUE]
    /\ earlier' = earlier \cup ({k \in JobIds : due[k]} \X {j})

Insert(j) ==
    /\ status[j] = "absent"
    /\ status' = [status EXCEPT ![j] = "pending"]
    /\ BecomeDue(j)
    /\ UNCHANGED <<attempts, lockedBy>>

Enqueue(j) ==
    /\ TypeOf[j] \notin Periodic
    /\ Insert(j)
    /\ UNCHANGED <<proc, pollVars, inserting, faults>>

InFlight(t) == {j \in JobIds : TypeOf[j] = t /\ status[j] \in Active}

\* Mutant: the NOT EXISTS looks at pending rows only.
EnqueueUniqueCheckPendingOnly(w, t) ==
    /\ proc[w] = "up"
    /\ t \in Periodic
    /\ <<w, t>> \notin inserting
    /\ \A j \in InFlight(t) : status[j] = "running"
    /\ \E j \in JobIds : TypeOf[j] = t /\ status[j] = "absent"
    /\ inserting' = inserting \cup {<<w, t>>}
    /\ UNCHANGED <<rowVars, proc, pollVars, faults>>

\* A tick of the scheduler: the snapshot of EnqueueUnique sees no instance.
\* When it sees one the statement inserts nothing and no state changes.
EnqueueUniqueCheck(w, t) ==
    /\ proc[w] = "up"
    /\ t \in Periodic
    /\ <<w, t>> \notin inserting
    /\ InFlight(t) = {}
    /\ \E j \in JobIds : TypeOf[j] = t /\ status[j] = "absent"
    /\ inserting' = inserting \cup {<<w, t>>}
    /\ UNCHANGED <<rowVars, proc, pollVars, faults>>

EnqueueUniqueInsert(w, t) ==
    /\ <<w, t>> \in inserting
    /\ \E j \in JobIds : TypeOf[j] = t /\ Insert(j)
    /\ inserting' = inserting \ {<<w, t>>}
    /\ UNCHANGED <<proc, pollVars, faults>>

\* The statement fails; the scheduler logs it and waits for the next tick.
EnqueueUniqueError(w, t) ==
    /\ <<w, t>> \in inserting
    /\ CallFails(w)
    /\ inserting' = inserting \ {<<w, t>>}
    /\ UNCHANGED <<rowVars, proc, pollVars>>

\* The backoff of a failed attempt has passed.
Elapse(j) ==
    /\ status[j] = "pending"
    /\ ~due[j]
    /\ BecomeDue(j)
    /\ UNCHANGED <<status, attempts, lockedBy, proc, pollVars, inserting, faults>>

-----------------------------------------------------------------------------
(* Claiming                                                                *)

\* Rows under the FOR UPDATE lock of an open claim.
RowLocked == {cur[p] : p \in {q \in Pollers : pc[q] = "claiming"}}

\* Mutant: the claim reads without a row lock.
ClaimableUnlocked == {j \in JobIds : status[j] = "pending" /\ due[j]}

\* Rows the claim's SELECT can return: SKIP LOCKED passes over the others.
Claimable == {j \in JobIds : status[j] = "pending" /\ due[j] /\ j \notin RowLocked}

GoTo(p, next, j) ==
    /\ pc'  = [pc EXCEPT ![p] = next]
    /\ cur' = [cur EXCEPT ![p] = j]

\* The row update a claim commits.
MarkRunning(p, j) ==
    /\ status'   = [status EXCEPT ![j] = "running"]
    /\ lockedBy' = [lockedBy EXCEPT ![j] = p[1]]
    /\ UNCHANGED <<attempts, due, earlier>>

ClaimSelect(p) ==
    /\ pc[p] = "polling"
    /\ proc[p[1]] = "up"
    /\ \E j \in Claimable :
          /\ \A k \in Claimable : <<k, j>> \notin earlier
          /\ GoTo(p, "claiming", j)
    /\ UNCHANGED <<rowVars, proc, inserting, faults>>

ClaimCommit(p) ==
    /\ pc[p] = "claiming"
    /\ MarkRunning(p, cur[p])
    /\ GoTo(p, "handling", cur[p])
    /\ UNCHANGED <<proc, inserting, faults>>

\* The commit reached the database, its answer did not reach the poller:
\* Claim returns an error and the loop goes on without the job.
ClaimCommitUnseen(p) ==
    /\ pc[p] = "claiming"
    /\ CallFails(p[1])
    /\ MarkRunning(p, cur[p])
    /\ GoTo(p, "polling", NoJob)
    /\ UNCHANGED <<proc, inserting>>

ClaimRollback(p) ==
    /\ pc[p] = "claiming"
    /\ CallFails(p[1])
    /\ GoTo(p, "polling", NoJob)
    /\ UNCHANGED <<rowVars, proc, inserting>>

-----------------------------------------------------------------------------
(* Handling                                                                *)

\* Dispatch returns nil.  Complete is called with the poller's own context:
\* if that is cancelled the call fails before it reaches the database, and
\* handle returns with the row still running.
HandlerOk(p) ==
    /\ pc[p] = "handling"
    /\ TypeOf[cur[p]] \in Registered
    /\ IF Cancelled(p[1]) THEN GoTo(p, "polling", NoJob)
                          ELSE GoTo(p, "completing", cur[p])
    /\ UNCHANGED <<rowVars, proc, inserting, faults>>

\* Dispatch returns an error; an unregistered type always does.
HandlerError(p) ==
    /\ pc[p] = "handling"
    /\ GoTo(p, "failing", cur[p])
    /\ UNCHANGED <<rowVars, proc, inserting, faults>>

\* Dispatch returns context.Canceled because of the shutdown.
HandlerCancelled(p) ==
    /\ pc[p] = "handling"
    /\ TypeOf[cur[p]] \in Registered
    /\ Cancelled(p[1])
    /\ GoTo(p, "releasing", cur[p])
    /\ UNCHANGED <<rowVars, proc, inserting, faults>>

\* A row leaves the running state for next; only a row that stays due keeps
\* its place in the claim order.
Unlock(j, next, stillDue) ==
    /\ status'   = [status EXCEPT ![j] = next]
    /\ lockedBy' = [lockedBy EXCEPT ![j] = NoProc]
    /\ due'      = [due EXCEPT ![j] = stillDue]
    /\ earlier'  = IF stillDue THEN earlier
                   ELSE {e \in earlier : e[1] # j /\ e[2] # j}

Complete(p) ==
    /\ pc[p] = "completing"
    /\ Unlock(cur[p], "done", FALSE)
    /\ GoTo(p, "polling", NoJob)
    /\ UNCHANGED <<attempts, proc, inserting, faults>>

CompleteError(p) ==
    /\ pc[p] = "completing"
    /\ CallFails(p[1])
    /\ GoTo(p, "polling", NoJob)
    /\ UNCHANGED <<rowVars, proc, inserting>>

\* Mutant: the last attempt is one too late.
FailOffByOne(p) ==
    LET j == cur[p] IN
    /\ pc[p] = "failing"
    /\ attempts' = [attempts EXCEPT ![j] = @ + 1]
    /\ Unlock(j, IF attempts'[j] > MaxAttempts THEN "failed" ELSE "pending", FALSE)
    /\ GoTo(p, "polling", NoJob)
    /\ UNCHANGED <<proc, inserting, faults>>

\* Mutant: the failed attempt is not counted.
FailUncounted(p) ==
    /\ pc[p] = "failing"
    /\ Unlock(cur[p], "pending", FALSE)
    /\ GoTo(p, "polling", NoJob)
    /\ UNCHANGED <<attempts, proc, inserting, faults>>

Fail(p) ==
    LET j == cur[p] IN
    /\ pc[p] = "failing"
    /\ attempts' = [attempts EXCEPT ![j] = @ + 1]
    /\ Unlock(j, IF attempts'[j] >= MaxAttempts THEN "failed" ELSE "pending", FALSE)
    /\ GoTo(p, "polling", NoJob)
    /\ UNCHANGED <<proc, inserting, faults>>

FailError(p) ==
    /\ pc[p] = "failing"
    /\ DetachedCallFails
    /\ GoTo(p, "polling", NoJob)
    /\ UNCHANGED <<rowVars, proc, inserting>>

\* Mutant: a release counts as a failed attempt.
ReleaseCounting(p) ==
    LET j == cur[p] IN
    /\ pc[p] = "releasing"
    /\ Unlock(j, "pending", TRUE)
    /\ attempts' = [attempts EXCEPT ![j] = @ + 1]
    /\ GoTo(p, "polling", NoJob)
    /\ UNCHANGED <<proc, inserting, faults>>

\* Release leaves run_at alone and touches only a running row.
Release(p) ==
    LET j == cur[p] IN
    /\ pc[p] = "releasing"
    /\ IF status[j] = "running" THEN Unlock(j, "pending", TRUE)
       ELSE UNCHANGED <<status, lockedBy, due, earlier>>
    /\ GoTo(p, "polling", NoJob)
    /\ UNCHANGED <<attempts, proc, inserting, faults>>

ReleaseError(p) ==
    /\ pc[p] = "releasing"
    /\ DetachedCallFails
    /\ GoTo(p, "polling", NoJob)
    /\ UNCHANGED <<rowVars, proc, inserting>>

-----------------------------------------------------------------------------
(* Processes                                                               *)

PollersOf(w) == {w} \X Slots

SetPollers(w, state) ==
    /\ pc'  = [p \in Pollers |-> IF p \in PollersOf(w) THEN state ELSE pc[p]]
    /\ cur' = [p \in Pollers |-> IF p \in PollersOf(w) THEN NoJob ELSE cur[p]]

Start(w) ==
    /\ proc[w] = "new"
    /\ proc' = [proc EXCEPT ![w] = "up"]
    /\ SetPollers(w, "polling")
    /\ UNCHANGED <<rowVars, inserting, faults>>

Stopped == {w \in Procs : proc[w] \in {"stopping", "down"}}

\* SIGTERM or SIGINT cancels the context.
Shutdown(w) ==
    /\ proc[w] = "up"
    /\ Cardinality(Stopped) < MaxStops
    /\ proc' = [proc EXCEPT ![w] = "stopping"]
    /\ UNCHANGED <<rowVars, pollVars, inserting, faults>>

\* The loop sees the cancelled context and returns.
LoopExit(p) ==
    /\ pc[p] = "polling"
    /\ Cancelled(p[1])
    /\ GoTo(p, "stopped", NoJob)
    /\ UNCHANGED <<rowVars, proc, inserting, faults>>

\* Mutant: the process waits until no row carries its name.
ExitWhenDrained(w) ==
    /\ proc[w] = "stopping"
    /\ \A p \in PollersOf(w) : pc[p] = "stopped"
    /\ \A j \in JobIds : lockedBy[j] # w
    /\ proc' = [proc EXCEPT ![w] = "down"]
    /\ inserting' = {e \in inserting : e[1] # w}
    /\ UNCHANGED <<rowVars, pollVars, faults>>

\* Run's WaitGroup is done: the process ends.
Exit(w) ==
    /\ proc[w] = "stopping"
    /\ \A p \in PollersOf(w) : pc[p] = "stopped"
    /\ proc' = [proc EXCEPT ![w] = "down"]
    /\ inserting' = {e \in inserting : e[1] # w}
    /\ UNCHANGED <<rowVars, pollVars, faults>>

\* The process dies; the database rolls its open transactions back.
Crash(w) ==
    /\ proc[w] \in {"up", "stopping"}
    /\ proc[w] = "up" => Cardinality(Stopped) < MaxStops
    /\ DetachedCallFails
    /\ proc' = [proc EXCEPT ![w] = "down"]
    /\ SetPollers(w, "stopped")
    /\ inserting' = {e \in inserting : e[1] # w}
    /\ UNCHANGED rowVars

-----------------------------------------------------------------------------
ClaimStep(p)   == ClaimCommit(p) \/ ClaimCommitUnseen(p) \/ ClaimRollback(p)
HandlerStep(p) == HandlerOk(p) \/ HandlerError(p) \/ HandlerCancelled(p)
SettleStep(p)  == \/ Complete(p) \/ CompleteError(p)
                  \/ Fail(p) \/ FailError(p)
                  \/ Release(p) \/ ReleaseError(p)
PollerStep(p)  == ClaimSelect(p) \/ ClaimStep(p) \/ HandlerStep(p) \/ SettleStep(p) \/ LoopExit(p)
ProcStep(w)    == Start(w) \/ Shutdown(w) \/ Exit(w) \/ Crash(w)
TickStep(w, t) == \/ EnqueueUniqueCheck(w, t) \/ EnqueueUniqueInsert(w, t)
                  \/ EnqueueUniqueError(w, t)
RowStep(j)     == Enqueue(j) \/ Elapse(j)

Next ==
    \/ \E j \in JobIds : RowStep(j)
    \/ \E w \in Procs, t \in Types : TickStep(w, t)
    \/ \E p \in Pollers : PollerStep(p)
    \/ \E w \in Procs : ProcStep(w)

Spec == Init /\ [][Next]_vars

\* Every goroutine that can run does run, every database call returns, every
\* handler returns (each does bounded work), time passes, and a process that
\* is deployed starts.  Nothing is assumed of shutdowns, crashes or faults.
Fairness ==
    /\ \A j \in JobIds : WF_vars(Elapse(j))
    /\ \A p \in Pollers : WF_vars(PollerStep(p))
    /\ \A w \in Procs : WF_vars(Start(w)) /\ WF_vars(Exit(w))

FairSpec == Spec /\ Fairness
=============================================================================
