---------------------------- MODULE JobQueueProps ----------------------------
(***************************************************************************)
(* What must hold of the job queue.                                        *)
(***************************************************************************)
EXTENDS JobQueue

\* Every variable of the model has its type: the columns of table jobs, the
\* life of each process, and the place of each poller in loop and handle.
TypeOK ==
    /\ status \in [JobIds -> Statuses]
    /\ attempts \in [JobIds -> 0..MaxAttempts]
    /\ lockedBy \in [JobIds -> Procs \cup {NoProc}]
    /\ due \in [JobIds -> BOOLEAN]
    /\ earlier \subseteq JobIds \X JobIds
    /\ proc \in [Procs -> {"new", "up", "stopping", "down"}]
    /\ pc \in [Pollers -> PcStates]
    /\ cur \in [Pollers -> JobIds \cup {NoJob}]
    /\ inserting \subseteq Procs \X Types
    /\ faults \in 0..MaxFaults

\* The pollers that have a job in hand, claimed and not yet given up.
HoldersOf(j) == {p \in Pollers : pc[p] \in Holding /\ cur[p] = j}

\* Rows that are running while no poller works on them.
Orphans == {j \in JobIds : status[j] = "running" /\ HoldersOf(j) = {}}

\* No job is ever run by two pollers at once, whatever processes crash, stop
\* or lose a database answer, and a poller that runs a job finds the row
\* running under its own process's name.  Complete and Fail update a row by
\* its id alone, so this is all that keeps them from a row that is not theirs.
ExclusiveExecution ==
    \A p \in Pollers : pc[p] \in Holding =>
        /\ status[cur[p]] = "running"
        /\ lockedBy[cur[p]] = p[1]
        /\ \A q \in Pollers \ {p} : pc[q] \in Holding => cur[q] # cur[p]

\* A row is failed exactly when its attempts are used up: an unfinished or a
\* finished job always had one left, and a release never spends one.
FailedMeansExhausted ==
    \A j \in JobIds : status[j] = "failed" <=> attempts[j] = MaxAttempts

\* Every job that is queued comes to an end, done or failed, or is lost with
\* its holder, unless no process is left: retries and releases do not go on
\* for ever and no row is starved.
EveryJobSettles ==
    \A j \in JobIds :
        status[j] \in Active ~>
            (status[j] \in Terminal \/ j \in Orphans \/ \A w \in Procs : proc[w] = "down")

\* A process that is told to stop does: Run returns once its pollers saw the
\* cancelled context, whatever they were doing.
ShutdownCompletes ==
    \A w \in Procs : proc[w] = "stopping" ~> proc[w] = "down"

\* The queue as one row's user sees it: the pollers and their processes
\* behave as holders of the abstract life cycle.
Lifecycle == INSTANCE JobLifecycle WITH
    Holders <- Pollers,
    phase   <- status,
    tries   <- attempts,
    holders <- [j \in JobIds |-> HoldersOf(j)]

\* Every behaviour of the queue is one of the abstract life cycle of a job.
ImplementsLifecycle == Lifecycle!Spec

\* At most one instance of a periodic job is in flight per worker process.
\* scheduler.go:22 promises one in all, for any number of workers; the NOT
\* EXISTS of EnqueueUnique (queue.go:75) is older than its insert, though, so
\* schedulers that check before either inserts all insert (queue.go:67 says
\* that concurrent callers may still race).  No process ever adds a second.
InstancesBounded ==
    \A t \in Periodic : Cardinality(InFlight(t)) <= Cardinality(Procs)
=============================================================================
