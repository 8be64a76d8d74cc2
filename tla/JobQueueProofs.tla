--------------------------- MODULE JobQueueProofs ---------------------------
(***************************************************************************)
(* Proofs about the job queue, for any number of processes, goroutines,    *)
(* rows, attempts, stops and faults.                                       *)
(***************************************************************************)
EXTENDS JobQueueProps, FiniteSetTheorems, TLAPS

\* A poller that has a job in hand, claimed or about to be.
Busy == Holding \cup {"claiming"}

\* What a poller has in hand is a row: pending while the claim is open,
\* running under the name of the poller's process afterwards.
HandMatchesRow ==
    \A p \in Pollers :
        /\ pc[p] \in Busy => cur[p] \in JobIds
        /\ pc[p] = "claiming" => status[cur[p]] = "pending"
        /\ pc[p] \in Holding => status[cur[p]] = "running" /\ lockedBy[cur[p]] = p[1]

\* Two pollers never have the same row in hand, the open claims included.
HandsDisjoint ==
    \A p, q \in Pollers :
        p # q /\ pc[p] \in Busy /\ pc[q] \in Busy => cur[p] # cur[q]

\* The inductive invariant.  ExclusiveExecution alone is not inductive: that
\* ClaimCommit keeps it rests on the row lock, which HandMatchesRow and
\* HandsDisjoint express as facts about pollers whose claim is still open.
IInv == TypeOK /\ HandMatchesRow /\ HandsDisjoint /\ FailedMeansExhausted

\* A queue with no rows and no process satisfies the invariant.
LEMMA InitIInv == Init => IInv
  <1>1. Init => TypeOK
    BY BoundsAssumption DEF Init, TypeOK, Statuses, PcStates
  <1>2. Init => HandMatchesRow /\ HandsDisjoint
    BY DEF Init, HandMatchesRow, HandsDisjoint, Busy, Holding
  <1>3. Init => FailedMeansExhausted
    BY BoundsAssumption DEF Init, FailedMeansExhausted
  <1>. QED BY <1>1, <1>2, <1>3 DEF IInv

\* Inserting a row, or the end of a backoff, touches no row a poller has.
LEMMA RowStepIInv ==
  ASSUME IInv, NEW j \in JobIds, RowStep(j)
  PROVE  IInv'
  <1>. USE DEF IInv
  <1>1. CASE Enqueue(j)
    <2>1. TypeOK'
      BY <1>1 DEF Enqueue, Insert, BecomeDue, TypeOK, pollVars, Statuses
    <2>2. HandMatchesRow' /\ HandsDisjoint'
      BY <1>1 DEF Enqueue, Insert, TypeOK, pollVars, HandMatchesRow, HandsDisjoint, Busy, Holding
    <2>3. FailedMeansExhausted'
      BY <1>1 DEF Enqueue, Insert, TypeOK, FailedMeansExhausted
    <2>. QED BY <2>1, <2>2, <2>3
  <1>2. CASE Elapse(j)
    <2>1. TypeOK'
      BY <1>2 DEF Elapse, BecomeDue, TypeOK, pollVars
    <2>2. HandMatchesRow' /\ HandsDisjoint' /\ FailedMeansExhausted'
      BY <1>2 DEF Elapse, pollVars, HandMatchesRow, HandsDisjoint, FailedMeansExhausted
    <2>. QED BY <2>1, <2>2
  <1>. QED BY <1>1, <1>2 DEF RowStep

\* The faults that failed calls count stay within their bound.
LEMMA CallFailsType ==
  ASSUME NEW w \in Procs, faults \in 0..MaxFaults, CallFails(w) \/ DetachedCallFails
  PROVE  faults' \in 0..MaxFaults
  BY BoundsAssumption DEF CallFails, DetachedCallFails

\* A tick inserts a fresh row at most (Scheduler.Tick, EnqueueUnique).
LEMMA TickStepIInv ==
  ASSUME IInv, NEW w \in Procs, NEW t \in Types, TickStep(w, t)
  PROVE  IInv'
  <1>. USE DEF IInv
  <1>1. CASE EnqueueUniqueCheck(w, t)
    BY <1>1 DEF EnqueueUniqueCheck, TypeOK, rowVars, pollVars,
                HandMatchesRow, HandsDisjoint, FailedMeansExhausted
  <1>2. CASE EnqueueUniqueInsert(w, t)
    <2>1. PICK j \in JobIds : Insert(j)
      BY <1>2 DEF EnqueueUniqueInsert
    <2>2. TypeOK'
      BY <1>2, <2>1 DEF EnqueueUniqueInsert, Insert, BecomeDue, TypeOK, pollVars, Statuses
    <2>3. HandMatchesRow' /\ HandsDisjoint'
      BY <1>2, <2>1 DEF EnqueueUniqueInsert, Insert, TypeOK, pollVars,
                        HandMatchesRow, HandsDisjoint, Busy, Holding
    <2>4. FailedMeansExhausted'
      BY <2>1 DEF Insert, TypeOK, FailedMeansExhausted
    <2>. QED BY <2>2, <2>3, <2>4
  <1>3. CASE EnqueueUniqueError(w, t)
    <2>1. faults' \in 0..MaxFaults
      BY <1>3, CallFailsType DEF EnqueueUniqueError, TypeOK
    <2>. QED
      BY <1>3, <2>1 DEF EnqueueUniqueError, TypeOK, rowVars, pollVars,
                        HandMatchesRow, HandsDisjoint, FailedMeansExhausted
  <1>. QED BY <1>1, <1>2, <1>3 DEF TickStep

\* While no row changes, pollers that move on with what they have in hand,
\* or let it go, keep the invariant.
LEMMA MovingOn ==
  ASSUME IInv, UNCHANGED rowVars,
         \A p \in Pollers : pc'[p] \in Holding => pc[p] \in Holding /\ cur'[p] = cur[p],
         \A p \in Pollers : pc'[p] = "claiming" => pc[p] = "claiming" /\ cur'[p] = cur[p]
  PROVE  HandMatchesRow' /\ HandsDisjoint' /\ FailedMeansExhausted'
  <1>1. FailedMeansExhausted'
    BY DEF IInv, FailedMeansExhausted, rowVars
  <1>2. HandMatchesRow'
    BY DEF IInv, HandMatchesRow, rowVars, Busy
  <1>3. HandsDisjoint'
    BY DEF IInv, HandsDisjoint, Busy
  <1>. QED BY <1>1, <1>2, <1>3

\* The holder of a row takes it out of running and lets it go: no other
\* poller has that row, so what the others have in hand is as it was.
LEMMA HolderLeaves ==
  ASSUME IInv, NEW p \in Pollers, pc[p] \in Holding, NEW next,
         status' = [status EXCEPT ![cur[p]] = next],
         \A j \in JobIds : j # cur[p] => lockedBy'[j] = lockedBy[j],
         GoTo(p, "polling", NoJob)
  PROVE  HandMatchesRow' /\ HandsDisjoint'
  <1>. USE DEF IInv
  <1>1. pc'[p] = "polling" /\ \A q \in Pollers \ {p} : pc'[q] = pc[q] /\ cur'[q] = cur[q]
    BY DEF GoTo, TypeOK
  <1>2. \A q \in Pollers \ {p} : pc[q] \in Busy => cur[q] \in JobIds /\ cur[q] # cur[p]
    BY DEF HandsDisjoint, HandMatchesRow, Busy
  <1>3. \A q \in Pollers \ {p} : pc[q] \in Busy =>
           status'[cur[q]] = status[cur[q]] /\ lockedBy'[cur[q]] = lockedBy[cur[q]]
    BY <1>2 DEF TypeOK
  <1>4. HandMatchesRow'
    <2>. SUFFICES ASSUME NEW q \in Pollers PROVE
           /\ pc'[q] \in Busy => cur'[q] \in JobIds
           /\ pc'[q] = "claiming" => status'[cur'[q]] = "pending"
           /\ pc'[q] \in Holding => status'[cur'[q]] = "running" /\ lockedBy'[cur'[q]] = q[1]
      BY DEF HandMatchesRow
    <2>1. CASE q = p
      BY <1>1, <2>1 DEF Busy, Holding
    <2>2. CASE q # p
      BY <1>1, <1>3, <2>2 DEF HandMatchesRow, Busy
    <2>. QED BY <2>1, <2>2
  <1>5. HandsDisjoint'
    BY <1>1 DEF HandsDisjoint, Busy, Holding
  <1>. QED BY <1>4, <1>5

\* The poller with the open claim commits it, and either learns of it or not.
LEMMA ClaimTakesEffect ==
  ASSUME IInv, NEW p \in Pollers, pc[p] = "claiming", MarkRunning(p, cur[p]),
         NEW next, NEW job, GoTo(p, next, job),
         (next = "handling" /\ job = cur[p]) \/ (next = "polling" /\ job = NoJob)
  PROVE  HandMatchesRow' /\ HandsDisjoint' /\ FailedMeansExhausted'
  <1>. USE DEF IInv
  <1>1. cur[p] \in JobIds /\ status[cur[p]] = "pending"
    BY DEF HandMatchesRow, Busy
  <1>2. pc'[p] = next /\ cur'[p] = job /\ \A q \in Pollers \ {p} : pc'[q] = pc[q] /\ cur'[q] = cur[q]
    BY DEF GoTo, TypeOK
  <1>3. \A q \in Pollers \ {p} : pc[q] \in Busy => cur[q] \in JobIds /\ cur[q] # cur[p]
    BY DEF HandsDisjoint, HandMatchesRow, Busy
  <1>4. status'[cur[p]] = "running" /\ lockedBy'[cur[p]] = p[1]
    BY <1>1 DEF MarkRunning, TypeOK
  <1>5. \A q \in Pollers \ {p} : pc[q] \in Busy =>
           status'[cur[q]] = status[cur[q]] /\ lockedBy'[cur[q]] = lockedBy[cur[q]]
    BY <1>3 DEF MarkRunning, TypeOK
  <1>6. HandMatchesRow'
    <2>. SUFFICES ASSUME NEW q \in Pollers PROVE
           /\ pc'[q] \in Busy => cur'[q] \in JobIds
           /\ pc'[q] = "claiming" => status'[cur'[q]] = "pending"
           /\ pc'[q] \in Holding => status'[cur'[q]] = "running" /\ lockedBy'[cur'[q]] = q[1]
      BY DEF HandMatchesRow
    <2>1. CASE q = p
      BY <1>1, <1>2, <1>4, <2>1 DEF Busy, Holding
    <2>2. CASE q # p
      BY <1>2, <1>5, <2>2 DEF HandMatchesRow, Busy
    <2>. QED BY <2>1, <2>2
  <1>7. HandsDisjoint'
    BY <1>1, <1>2, <1>3 DEF HandsDisjoint, Busy, Holding
  <1>8. FailedMeansExhausted'
    BY <1>1 DEF FailedMeansExhausted, MarkRunning, TypeOK
  <1>. QED BY <1>6, <1>7, <1>8

\* The steps of Claim: the row that is locked, and the three ways its
\* transaction ends.
LEMMA ClaimIInv ==
  ASSUME IInv, NEW p \in Pollers, ClaimSelect(p) \/ ClaimStep(p)
  PROVE  IInv'
  <1>. USE DEF IInv
  <1>0. p[1] \in Procs
    BY DEF Pollers
  <1>1. CASE ClaimSelect(p)
    <2>1. PICK j \in Claimable : GoTo(p, "claiming", j)
      BY <1>1 DEF ClaimSelect
    <2>2. j \in JobIds /\ status[j] = "pending" /\ \A q \in Pollers : pc[q] = "claiming" => cur[q] # j
      BY <2>1 DEF Claimable, RowLocked
    <2>3. pc'[p] = "claiming" /\ cur'[p] = j
          /\ \A q \in Pollers \ {p} : pc'[q] = pc[q] /\ cur'[q] = cur[q]
      BY <2>1 DEF GoTo, TypeOK
    <2>4. TypeOK'
      BY <1>1, <2>1, <2>2 DEF ClaimSelect, GoTo, TypeOK, rowVars, PcStates
    <2>5. HandMatchesRow'
      BY <1>1, <2>2, <2>3 DEF ClaimSelect, HandMatchesRow, rowVars, Busy, Holding
    <2>6. \A q \in Pollers : pc[q] \in Busy => cur[q] # j
      BY <2>2 DEF HandMatchesRow, Busy
    <2>7. HandsDisjoint'
      BY <2>3, <2>6 DEF HandsDisjoint
    <2>8. FailedMeansExhausted'
      BY <1>1 DEF ClaimSelect, FailedMeansExhausted, rowVars
    <2>. QED BY <2>4, <2>5, <2>7, <2>8
  <1>2. CASE ClaimCommit(p)
    <2>1. TypeOK'
      BY <1>0, <1>2 DEF ClaimCommit, MarkRunning, GoTo, TypeOK, Statuses, PcStates, Holding
    <2>. QED BY <1>2, <2>1, ClaimTakesEffect DEF ClaimCommit
  <1>3. CASE ClaimCommitUnseen(p)
    <2>1. faults' \in 0..MaxFaults
      BY <1>0, <1>3, CallFailsType DEF ClaimCommitUnseen, TypeOK
    <2>2. TypeOK'
      BY <1>0, <1>3, <2>1 DEF ClaimCommitUnseen, MarkRunning, GoTo, TypeOK, Statuses, PcStates
    <2>. QED BY <1>3, <2>2, ClaimTakesEffect DEF ClaimCommitUnseen
  <1>4. CASE ClaimRollback(p)
    <2>1. faults' \in 0..MaxFaults
      BY <1>0, <1>4, CallFailsType DEF ClaimRollback, TypeOK
    <2>2. TypeOK'
      BY <1>4, <2>1 DEF ClaimRollback, GoTo, TypeOK, rowVars, PcStates
    <2>3. HandMatchesRow' /\ HandsDisjoint' /\ FailedMeansExhausted'
      BY <1>4, MovingOn DEF ClaimRollback, GoTo, TypeOK, Holding
    <2>. QED BY <2>2, <2>3
  <1>. QED BY <1>1, <1>2, <1>3, <1>4 DEF ClaimStep

\* A handler returns, and its poller goes on to settle the row it holds.
LEMMA HandlerIInv ==
  ASSUME IInv, NEW p \in Pollers, HandlerStep(p)
  PROVE  IInv'
  <1>. USE DEF IInv
  <1>1. cur[p] \in JobIds
    BY DEF HandlerStep, HandlerOk, HandlerError, HandlerCancelled, HandMatchesRow, Busy, Holding
  <1>2. TypeOK'
    BY <1>1 DEF HandlerStep, HandlerOk, HandlerError, HandlerCancelled, GoTo, TypeOK,
                rowVars, PcStates, Holding
  <1>3. HandMatchesRow' /\ HandsDisjoint' /\ FailedMeansExhausted'
    BY MovingOn DEF HandlerStep, HandlerOk, HandlerError, HandlerCancelled, GoTo, TypeOK, Holding
  <1>. QED BY <1>2, <1>3

\* A running row has an attempt left, so counting one more stays in bounds.
LEMMA AttemptLeft ==
  ASSUME IInv, NEW p \in Pollers, pc[p] \in Holding
  PROVE  /\ cur[p] \in JobIds /\ status[cur[p]] = "running"
         /\ attempts[cur[p]] \in 0..(MaxAttempts - 1)
  BY BoundsAssumption DEF IInv, TypeOK, HandMatchesRow, FailedMeansExhausted, Busy

\* Complete, Fail and Release, and their failed calls: the one holder of
\* the row lets go of it, whether or not the statement took effect.
LEMMA SettleIInv ==
  ASSUME IInv, NEW p \in Pollers, SettleStep(p)
  PROVE  IInv'
  <1>. USE DEF IInv
  <1>1. pc[p] \in Holding /\ p[1] \in Procs
    BY DEF SettleStep, Complete, CompleteError, Fail, FailError, Release, ReleaseError,
           Holding, Pollers
  <1>2. /\ cur[p] \in JobIds /\ status[cur[p]] = "running"
        /\ attempts[cur[p]] \in 0..(MaxAttempts - 1)
    BY <1>1, AttemptLeft
  <1>3. CASE Complete(p)
    <2>1. TypeOK'
      BY <1>2, <1>3 DEF Complete, Unlock, GoTo, TypeOK, Statuses, PcStates
    <2>2. HandMatchesRow' /\ HandsDisjoint'
      BY <1>1, <1>3, HolderLeaves DEF Complete, Unlock, TypeOK
    <2>3. FailedMeansExhausted'
      BY <1>2, <1>3 DEF Complete, Unlock, TypeOK, FailedMeansExhausted
    <2>. QED BY <2>1, <2>2, <2>3
  <1>4. CASE Fail(p)
    <2>. DEFINE next == IF attempts'[cur[p]] >= MaxAttempts THEN "failed" ELSE "pending"
    <2>1. attempts' = [attempts EXCEPT ![cur[p]] = @ + 1] /\ Unlock(cur[p], next, FALSE)
      BY <1>4 DEF Fail
    <2>2. attempts'[cur[p]] \in 0..MaxAttempts
          /\ \A j \in JobIds : j # cur[p] => attempts'[j] = attempts[j]
      BY <1>2, <2>1, BoundsAssumption DEF TypeOK
    <2>3. next \in Statuses
      BY DEF Statuses
    <2>4. TypeOK'
      BY <1>2, <1>4, <2>1, <2>2, <2>3 DEF Fail, Unlock, GoTo, TypeOK, PcStates
    <2>5. HandMatchesRow' /\ HandsDisjoint'
      <3>. HIDE DEF next
      <3>1. /\ status' = [status EXCEPT ![cur[p]] = next]
            /\ \A j \in JobIds : j # cur[p] => lockedBy'[j] = lockedBy[j]
        BY <2>1 DEF Unlock, TypeOK
      <3>2. GoTo(p, "polling", NoJob)
        BY <1>4 DEF Fail
      <3>. QED BY <1>1, <3>1, <3>2, HolderLeaves
    <2>6. status'[cur[p]] = next /\ \A j \in JobIds : j # cur[p] => status'[j] = status[j]
      BY <1>2, <2>1 DEF Unlock, TypeOK
    <2>7. (status'[cur[p]] = "failed") <=> attempts'[cur[p]] = MaxAttempts
      BY <2>2, <2>6, BoundsAssumption
    <2>8. FailedMeansExhausted'
      BY <2>2, <2>6, <2>7 DEF FailedMeansExhausted
    <2>. QED BY <2>4, <2>5, <2>8
  <1>5. CASE Release(p)
    <2>1. Unlock(cur[p], "pending", TRUE)
      BY <1>2, <1>5 DEF Release
    <2>2. TypeOK'
      BY <1>2, <1>5, <2>1 DEF Release, Unlock, GoTo, TypeOK, Statuses, PcStates
    <2>3. HandMatchesRow' /\ HandsDisjoint'
      BY <1>1, <1>5, <2>1, HolderLeaves DEF Release, Unlock, TypeOK
    <2>4. FailedMeansExhausted'
      BY <1>2, <1>5, <2>1 DEF Release, Unlock, TypeOK, FailedMeansExhausted
    <2>. QED BY <2>2, <2>3, <2>4
  <1>6. CASE CompleteError(p) \/ FailError(p) \/ ReleaseError(p)
    <2>1. faults' \in 0..MaxFaults
      BY <1>1, <1>6, CallFailsType DEF CompleteError, FailError, ReleaseError, TypeOK
    <2>2. TypeOK'
      BY <1>6, <2>1 DEF CompleteError, FailError, ReleaseError, GoTo, TypeOK, rowVars, PcStates
    <2>3. HandMatchesRow' /\ HandsDisjoint' /\ FailedMeansExhausted'
      BY <1>6, MovingOn DEF CompleteError, FailError, ReleaseError, GoTo, TypeOK, Holding
    <2>. QED BY <2>2, <2>3
  <1>. QED BY <1>3, <1>4, <1>5, <1>6 DEF SettleStep

\* A loop that ends has no job in hand (Poller.loop).
LEMMA LoopExitIInv ==
  ASSUME IInv, NEW p \in Pollers, LoopExit(p)
  PROVE  IInv'
  <1>. USE DEF IInv
  <1>1. TypeOK'
    BY DEF LoopExit, GoTo, TypeOK, rowVars, PcStates
  <1>2. HandMatchesRow' /\ HandsDisjoint' /\ FailedMeansExhausted'
    BY MovingOn DEF LoopExit, GoTo, TypeOK, Holding
  <1>. QED BY <1>1, <1>2

\* A process that starts or dies takes every job out of its pollers' hands.
LEMMA ProcStepIInv ==
  ASSUME IInv, NEW w \in Procs, ProcStep(w)
  PROVE  IInv'
  <1>. USE DEF IInv
  <1>1. CASE Start(w)
    <2>1. TypeOK'
      BY <1>1 DEF Start, SetPollers, TypeOK, rowVars, PcStates
    <2>2. HandMatchesRow' /\ HandsDisjoint' /\ FailedMeansExhausted'
      BY <1>1, MovingOn DEF Start, SetPollers, TypeOK, Holding
    <2>. QED BY <2>1, <2>2
  <1>2. CASE Shutdown(w)
    BY <1>2 DEF Shutdown, TypeOK, rowVars, pollVars, HandMatchesRow, HandsDisjoint,
                FailedMeansExhausted
  <1>3. CASE Exit(w)
    BY <1>3 DEF Exit, TypeOK, rowVars, pollVars, HandMatchesRow, HandsDisjoint,
                FailedMeansExhausted
  <1>4. CASE Crash(w)
    <2>1. faults' \in 0..MaxFaults
      BY <1>4, CallFailsType DEF Crash, TypeOK
    <2>2. TypeOK'
      BY <1>4, <2>1 DEF Crash, SetPollers, TypeOK, rowVars, PcStates
    <2>3. HandMatchesRow' /\ HandsDisjoint' /\ FailedMeansExhausted'
      BY <1>4, MovingOn DEF Crash, SetPollers, TypeOK, Holding
    <2>. QED BY <2>2, <2>3
  <1>. QED BY <1>1, <1>2, <1>3, <1>4 DEF ProcStep

\* Every step keeps the invariant.
LEMMA NextIInv == IInv /\ [Next]_vars => IInv'
  <1>. SUFFICES ASSUME IInv, [Next]_vars PROVE IInv'
    OBVIOUS
  <1>1. CASE \E j \in JobIds : RowStep(j)
    BY <1>1, RowStepIInv
  <1>2. CASE \E w \in Procs, t \in Types : TickStep(w, t)
    BY <1>2, TickStepIInv
  <1>3. ASSUME NEW p \in Pollers, PollerStep(p) PROVE IInv'
    BY <1>3, ClaimIInv, HandlerIInv, SettleIInv, LoopExitIInv DEF PollerStep
  <1>4. CASE \E w \in Procs : ProcStep(w)
    BY <1>4, ProcStepIInv
  <1>5. CASE UNCHANGED vars
    BY <1>5 DEF vars, IInv, TypeOK, HandMatchesRow, HandsDisjoint, FailedMeansExhausted
  <1>. QED BY <1>1, <1>2, <1>3, <1>4, <1>5 DEF Next

\* The inductive invariant holds in every reachable state of the queue.
THEOREM Invariance == Spec => []IInv
  BY InitIInv, NextIInv, PTL DEF Spec

\* Every variable keeps its type, for every instance of the queue.
THEOREM TypeCorrect == Spec => []TypeOK
  <1>1. IInv => TypeOK
    BY DEF IInv
  <1>. QED BY <1>1, Invariance, PTL

\* However many processes, goroutines and jobs there are, no job is run twice
\* at once, and whoever runs a job owns its row.
THEOREM Exclusion == Spec => []ExclusiveExecution
  <1>1. IInv => ExclusiveExecution
    BY DEF IInv, ExclusiveExecution, HandMatchesRow, HandsDisjoint, Busy
  <1>. QED BY <1>1, Invariance, PTL

\* A row is failed exactly when its max_attempts are used up.
THEOREM RetryBudget == Spec => []FailedMeansExhausted
  <1>1. IInv => FailedMeansExhausted
    BY DEF IInv
  <1>. QED BY <1>1, Invariance, PTL

-----------------------------------------------------------------------------
(* The refinement: a step of the queue is a step of the life cycle of one  *)
(* job, or none.                                                           *)

held == [j \in JobIds |-> HoldersOf(j)]

\* While the pollers that hold a job go on holding it and no other does, and
\* the rows stay, the life cycle does not see the step.
LEMMA Unseen ==
  ASSUME UNCHANGED <<status, attempts>>,
         \A q \in Pollers : pc'[q] \in Holding <=> pc[q] \in Holding,
         \A q \in Pollers : pc[q] \in Holding => cur'[q] = cur[q]
  PROVE  UNCHANGED Lifecycle!vars
  <1>1. \A j \in JobIds : HoldersOf(j)' = HoldersOf(j)
    BY DEF HoldersOf
  <1>2. held' = held
    BY <1>1 DEF held
  <1>. QED BY <1>2 DEF Lifecycle!vars, held

\* A poller goes back to polling: it holds nothing, the others what they held.
LEMMA LetGo ==
  ASSUME IInv, NEW p \in Pollers, GoTo(p, "polling", NoJob)
  PROVE  \A j \in JobIds : HoldersOf(j)' = HoldersOf(j) \ {p}
  <1>1. pc'[p] = "polling" /\ \A q \in Pollers \ {p} : pc'[q] = pc[q] /\ cur'[q] = cur[q]
    BY DEF GoTo, IInv, TypeOK
  <1>. QED BY <1>1 DEF HoldersOf, Holding

\* Whoever holds a row is its only holder, and holds no other.
LEMMA OnlyHolder ==
  ASSUME IInv, NEW p \in Pollers, pc[p] \in Holding
  PROVE  /\ cur[p] \in JobIds /\ status[cur[p]] = "running" /\ HoldersOf(cur[p]) = {p}
         /\ \A j \in JobIds \ {cur[p]} : p \notin HoldersOf(j)
  BY DEF IInv, HandMatchesRow, HandsDisjoint, HoldersOf, Busy

\* A holder that is gone without a word is lost.
LEMMA PollerLost ==
  ASSUME IInv, NEW p \in Pollers, GoTo(p, "polling", NoJob), UNCHANGED <<status, attempts>>
  PROVE  Lifecycle!Lose({p})
  <1>1. held' = [j \in JobIds |-> held[j] \ {p}]
    BY LetGo DEF held
  <1>. QED BY <1>1 DEF Lifecycle!Lose, held

\* A holder that settles its row leaves it.
LEMMA HolderSettles ==
  ASSUME IInv, NEW p \in Pollers, pc[p] \in Holding, GoTo(p, "polling", NoJob),
         NEW next, status' = [status EXCEPT ![cur[p]] = next]
  PROVE  Lifecycle!Leave(cur[p], next)
  <1>1. /\ cur[p] \in JobIds /\ status[cur[p]] = "running" /\ HoldersOf(cur[p]) = {p}
        /\ \A j \in JobIds \ {cur[p]} : p \notin HoldersOf(j)
    BY OnlyHolder
  <1>2. \A j \in JobIds : HoldersOf(j)' = HoldersOf(j) \ {p}
    BY LetGo
  <1>3. held' = [held EXCEPT ![cur[p]] = {}]
    <2>1. held' = [j \in JobIds |-> HoldersOf(j) \ {p}]
      BY <1>2 DEF held
    <2>2. \A j \in JobIds : HoldersOf(j) \ {p} = IF j = cur[p] THEN {} ELSE HoldersOf(j)
      BY <1>1
    <2>3. [held EXCEPT ![cur[p]] = {}] = [j \in JobIds |-> IF j = cur[p] THEN {} ELSE HoldersOf(j)]
      BY DEF held
    <2>. QED BY <2>1, <2>2, <2>3
  <1>4. \E h \in Pollers : held[cur[p]] = {h}
    BY <1>1 DEF held
  <1>. QED BY <1>1, <1>3, <1>4 DEF Lifecycle!Leave, held

\* Enqueue and the scheduler's insert submit a row.
LEMMA InsertRefined ==
  ASSUME NEW j \in JobIds, Insert(j), UNCHANGED pollVars
  PROVE  Lifecycle!Submit(j)
  <1>1. \A k \in JobIds : HoldersOf(k)' = HoldersOf(k)
    BY DEF HoldersOf, pollVars
  <1>2. held' = held
    BY <1>1 DEF held
  <1>. QED BY <1>2 DEF Lifecycle!Submit, Insert, held

\* A claim takes the row when its commit takes effect, seen or not.
LEMMA ClaimRefined ==
  ASSUME IInv, NEW p \in Pollers, ClaimSelect(p) \/ ClaimStep(p)
  PROVE  [Lifecycle!Next]_Lifecycle!vars
  <1>1. CASE ClaimSelect(p) \/ ClaimRollback(p)
    <2>1. \E next \in {"claiming", "polling"}, j \in JobIds \cup {NoJob} : GoTo(p, next, j)
      BY <1>1 DEF ClaimSelect, ClaimRollback, Claimable
    <2>2. UNCHANGED <<status, attempts>> /\ pc[p] \notin Holding
      BY <1>1 DEF ClaimSelect, ClaimRollback, rowVars, Holding
    <2>. QED BY <2>1, <2>2, Unseen DEF GoTo, IInv, TypeOK, Holding
  <1>2. CASE ClaimCommit(p) \/ ClaimCommitUnseen(p)
    <2>1. pc[p] = "claiming" /\ cur[p] \in JobIds /\ status[cur[p]] = "pending" /\ MarkRunning(p, cur[p])
      BY <1>2 DEF ClaimCommit, ClaimCommitUnseen, IInv, HandMatchesRow, Busy
    <2>2. \A q \in Pollers : pc[q] \in Holding => cur[q] # cur[p]
      BY <2>1 DEF IInv, HandsDisjoint, Busy, Holding
    <2>3. CASE ClaimCommit(p)
      <3>1. pc'[p] = "handling" /\ cur'[p] = cur[p] /\ \A q \in Pollers \ {p} : pc'[q] = pc[q] /\ cur'[q] = cur[q]
        BY <2>3 DEF ClaimCommit, GoTo, IInv, TypeOK
      <3>2. \A j \in JobIds : HoldersOf(j)' = IF j = cur[p] THEN {p} ELSE HoldersOf(j)
        BY <2>1, <2>2, <3>1 DEF HoldersOf, Holding
      <3>3. held' = [j \in JobIds |-> IF j = cur[p] THEN {p} ELSE HoldersOf(j)]
        BY <3>2 DEF held
      <3>4. held' = [held EXCEPT ![cur[p]] = {p}]
        BY <3>3 DEF held
      <3>5. Lifecycle!Take(cur[p], p)
        BY <2>1, <3>4 DEF Lifecycle!Take, MarkRunning, held
      <3>. QED BY <2>1, <3>5 DEF Lifecycle!Next
    <2>4. CASE ClaimCommitUnseen(p)
      <3>1. \A j \in JobIds : HoldersOf(j)' = HoldersOf(j) \ {p}
        BY <2>4, LetGo DEF ClaimCommitUnseen
      <3>2. \A j \in JobIds : p \notin HoldersOf(j)
        BY <2>1 DEF HoldersOf, Holding
      <3>3. held' = held
        BY <3>1, <3>2 DEF held
      <3>4. Lifecycle!TakeLost(cur[p])
        BY <2>1, <3>3 DEF Lifecycle!TakeLost, MarkRunning, held
      <3>. QED BY <2>1, <3>4 DEF Lifecycle!Next
    <2>. QED BY <1>2, <2>3, <2>4
  <1>. QED BY <1>1, <1>2 DEF ClaimStep

\* A handler that returns to a cancelled poller loses its row: Complete fails.
LEMMA HandlerRefined ==
  ASSUME IInv, NEW p \in Pollers, HandlerStep(p)
  PROVE  [Lifecycle!Next]_Lifecycle!vars
  <1>1. UNCHANGED <<status, attempts>> /\ pc[p] \in Holding
    BY DEF HandlerStep, HandlerOk, HandlerError, HandlerCancelled, rowVars, Holding
  <1>2. CASE GoTo(p, "polling", NoJob)
    BY <1>1, <1>2, PollerLost DEF Lifecycle!Next
  <1>3. CASE \E next \in Holding : GoTo(p, next, cur[p])
    BY <1>1, <1>3, Unseen DEF GoTo, IInv, TypeOK
  <1>. QED BY <1>2, <1>3 DEF HandlerStep, HandlerOk, HandlerError, HandlerCancelled, Holding

\* Complete, Fail and Release settle the row, and a call that fails loses it.
LEMMA SettleRefined ==
  ASSUME IInv, NEW p \in Pollers, SettleStep(p)
  PROVE  [Lifecycle!Next]_Lifecycle!vars
  <1>1. pc[p] \in Holding /\ GoTo(p, "polling", NoJob)
    BY DEF SettleStep, Complete, CompleteError, Fail, FailError, Release, ReleaseError, Holding
  <1>2. /\ cur[p] \in JobIds /\ status[cur[p]] = "running"
        /\ attempts[cur[p]] \in 0..(MaxAttempts - 1)
    BY <1>1, AttemptLeft
  <1>3. CASE Complete(p)
    <2>1. Lifecycle!Leave(cur[p], "done") /\ UNCHANGED attempts
      BY <1>1, <1>3, HolderSettles DEF Complete, Unlock
    <2>2. Lifecycle!Succeed(cur[p])
      BY <2>1 DEF Lifecycle!Succeed
    <2>. QED BY <1>2, <2>2 DEF Lifecycle!Next
  <1>4. CASE Release(p)
    <2>1. Lifecycle!Leave(cur[p], "pending") /\ UNCHANGED attempts
      BY <1>1, <1>2, <1>4, HolderSettles DEF Release, Unlock
    <2>2. Lifecycle!PutBack(cur[p])
      BY <2>1 DEF Lifecycle!PutBack
    <2>. QED BY <1>2, <2>2 DEF Lifecycle!Next
  <1>5. CASE Fail(p)
    <2>. DEFINE next == IF attempts'[cur[p]] >= MaxAttempts THEN "failed" ELSE "pending"
    <2>1. attempts' = [attempts EXCEPT ![cur[p]] = @ + 1] /\ Unlock(cur[p], next, FALSE)
      BY <1>5 DEF Fail
    <2>2. status' = [status EXCEPT ![cur[p]] = next] /\ attempts'[cur[p]] = attempts[cur[p]] + 1
      BY <1>2, <2>1 DEF Unlock, IInv, TypeOK
    <2>3. Lifecycle!Attempt(cur[p])
      BY <2>1 DEF Lifecycle!Attempt
    <2>4. CASE attempts[cur[p]] + 1 = MaxAttempts
      <3>0. next = "failed"
        BY <2>2, <2>4, BoundsAssumption
      <3>. HIDE DEF next
      <3>1. status' = [status EXCEPT ![cur[p]] = "failed"]
        BY <2>2, <3>0
      <3>2. Lifecycle!GiveUp(cur[p])
        BY <1>1, <2>3, <2>4, <3>1, HolderSettles DEF Lifecycle!GiveUp
      <3>. QED BY <1>2, <3>2 DEF Lifecycle!Next
    <2>5. CASE attempts[cur[p]] + 1 # MaxAttempts
      <3>1. attempts[cur[p]] + 1 < MaxAttempts
        BY <1>2, <2>5, BoundsAssumption
      <3>0. next = "pending"
        BY <1>2, <2>2, <3>1, BoundsAssumption
      <3>. HIDE DEF next
      <3>2. status' = [status EXCEPT ![cur[p]] = "pending"]
        BY <2>2, <3>0
      <3>3. Lifecycle!Retry(cur[p])
        BY <1>1, <2>3, <3>1, <3>2, HolderSettles DEF Lifecycle!Retry
      <3>. QED BY <1>2, <3>3 DEF Lifecycle!Next
    <2>. QED BY <2>4, <2>5
  <1>6. CASE CompleteError(p) \/ FailError(p) \/ ReleaseError(p)
    <2>1. UNCHANGED <<status, attempts>>
      BY <1>6 DEF CompleteError, FailError, ReleaseError, rowVars
    <2>. QED BY <1>1, <2>1, PollerLost DEF Lifecycle!Next
  <1>. QED BY <1>3, <1>4, <1>5, <1>6 DEF SettleStep

\* A process that starts holds nothing; one that dies loses what it held.
LEMMA ProcRefined ==
  ASSUME IInv, NEW w \in Procs, ProcStep(w)
  PROVE  [Lifecycle!Next]_Lifecycle!vars
  <1>1. UNCHANGED <<status, attempts>>
    BY DEF ProcStep, Start, Shutdown, Exit, Crash, rowVars
  <1>2. CASE UNCHANGED pollVars
    BY <1>1, <1>2, Unseen DEF pollVars
  <1>3. CASE \E state \in {"polling", "stopped"} : SetPollers(w, state)
    <2>1. \A q \in Pollers : IF q \in PollersOf(w) THEN pc'[q] \notin Holding ELSE pc'[q] = pc[q] /\ cur'[q] = cur[q]
      BY <1>3 DEF SetPollers, Holding
    <2>2. \A j \in JobIds : HoldersOf(j)' = HoldersOf(j) \ PollersOf(w)
      BY <2>1 DEF HoldersOf
    <2>3. held' = [j \in JobIds |-> held[j] \ PollersOf(w)]
      BY <2>2 DEF held
    <2>4. Lifecycle!Lose(PollersOf(w)) /\ PollersOf(w) \in SUBSET Pollers
      BY <1>1, <2>3 DEF Lifecycle!Lose, held, PollersOf, Pollers
    <2>. QED BY <2>4 DEF Lifecycle!Next
  <1>. QED BY <1>2, <1>3 DEF ProcStep, Start, Shutdown, Exit, Crash

\* Every step of the queue is a step of the life cycle, or none.
LEMMA NextRefined == IInv /\ [Next]_vars => [Lifecycle!Next]_Lifecycle!vars
  <1>. SUFFICES ASSUME IInv, [Next]_vars PROVE [Lifecycle!Next]_Lifecycle!vars
    OBVIOUS
  <1>1. ASSUME NEW j \in JobIds, RowStep(j) PROVE [Lifecycle!Next]_Lifecycle!vars
    <2>1. CASE Enqueue(j)
      <3>1. Lifecycle!Submit(j)
        BY <2>1, InsertRefined DEF Enqueue
      <3>. QED BY <3>1 DEF Lifecycle!Next
    <2>2. CASE Elapse(j)
      BY <2>2, Unseen DEF Elapse, pollVars
    <2>. QED BY <1>1, <2>1, <2>2 DEF RowStep
  <1>2. ASSUME NEW w \in Procs, NEW t \in Types, TickStep(w, t) PROVE [Lifecycle!Next]_Lifecycle!vars
    <2>1. CASE EnqueueUniqueInsert(w, t)
      <3>1. PICK j \in JobIds : Insert(j)
        BY <2>1 DEF EnqueueUniqueInsert
      <3>2. Lifecycle!Submit(j)
        BY <2>1, <3>1, InsertRefined DEF EnqueueUniqueInsert
      <3>. QED BY <3>2 DEF Lifecycle!Next
    <2>2. CASE EnqueueUniqueCheck(w, t) \/ EnqueueUniqueError(w, t)
      BY <2>2, Unseen DEF EnqueueUniqueCheck, EnqueueUniqueError, rowVars, pollVars
    <2>. QED BY <1>2, <2>1, <2>2 DEF TickStep
  <1>3. ASSUME NEW p \in Pollers, PollerStep(p) PROVE [Lifecycle!Next]_Lifecycle!vars
    <2>1. CASE LoopExit(p)
      BY <2>1, Unseen DEF LoopExit, GoTo, IInv, TypeOK, rowVars, Holding
    <2>. QED BY <1>3, <2>1, ClaimRefined, HandlerRefined, SettleRefined DEF PollerStep
  <1>4. CASE \E w \in Procs : ProcStep(w)
    BY <1>4, ProcRefined
  <1>5. CASE UNCHANGED vars
    BY <1>5, Unseen DEF vars
  <1>. QED BY <1>1, <1>2, <1>3, <1>4, <1>5 DEF Next

\* The queue implements the life cycle that the interface Queue of job.go
\* promises, for any number of processes, goroutines, rows, stops and faults.
THEOREM Implementation == Spec => ImplementsLifecycle
  <1>1. Init => Lifecycle!Init
    <2>. SUFFICES ASSUME Init PROVE Lifecycle!Init
      OBVIOUS
    <2>1. \A j \in JobIds : HoldersOf(j) = {}
      BY DEF Init, HoldersOf, Holding
    <2>2. held = [j \in JobIds |-> {}]
      BY <2>1 DEF held
    <2>. QED BY <2>2 DEF Init, Lifecycle!Init, held
  <1>. QED BY <1>1, NextRefined, Invariance, PTL DEF Spec, Lifecycle!Spec, ImplementsLifecycle
-----------------------------------------------------------------------------
(* Several schedulers: a check and its insert are two steps.               *)

\* The process, and with it its scheduler, runs.
Alive(w) == proc[w] \in {"up", "stopping"}

Running == {w \in Procs : Alive(w)}

\* No more than N workers are deployed at once, restarts not counted.
AtMostAlive(N) == IsFiniteSet(Running) /\ Cardinality(Running) <= N

\* The processes that are between the check and the insert of EnqueueUnique.
Inserters(t) == {w \in Procs : <<w, t>> \in inserting}

\* Whoever has passed a check runs, and whatever is in flight of a type was
\* inserted by one of N processes that checked together: those that are still
\* to insert have their share left.
Shares(N) ==
    /\ \A t \in Types : Inserters(t) \subseteq Running
    /\ \A t \in Periodic :
          /\ IsFiniteSet(InFlight(t)) /\ IsFiniteSet(Inserters(t))
          /\ Cardinality(InFlight(t)) + Cardinality(Inserters(t)) <= N

\* A step that brings nothing in flight and passes no check keeps the shares.
LEMMA FewerInFlight ==
  ASSUME NEW N \in Nat, Shares(N), inserting' \subseteq inserting,
         \A w \in Procs : Alive(w) => Alive(w)' \/ \A t \in Types : <<w, t>> \notin inserting',
         \A j \in JobIds : TypeOf[j] \in Periodic /\ status'[j] \in Active => status[j] \in Active
  PROVE  Shares(N)'
  <1>1. \A t \in Types : Inserters(t)' \subseteq Running'
    BY DEF Shares, Inserters, Running
  <1>2. ASSUME NEW t \in Periodic
        PROVE  /\ IsFiniteSet(InFlight(t)') /\ IsFiniteSet(Inserters(t)')
               /\ Cardinality(InFlight(t)') + Cardinality(Inserters(t)') <= N
    <2>1. InFlight(t)' \subseteq InFlight(t) /\ Inserters(t)' \subseteq Inserters(t)
      BY <1>2 DEF InFlight, Inserters
    <2>2. /\ IsFiniteSet(InFlight(t)') /\ Cardinality(InFlight(t)') <= Cardinality(InFlight(t))
          /\ IsFiniteSet(Inserters(t)') /\ Cardinality(Inserters(t)') <= Cardinality(Inserters(t))
      BY <2>1, FS_Subset DEF Shares
    <2>3. /\ Cardinality(InFlight(t)) \in Nat /\ Cardinality(Inserters(t)) \in Nat
          /\ Cardinality(InFlight(t)') \in Nat /\ Cardinality(Inserters(t)') \in Nat
      BY <2>2, FS_CardinalityType DEF Shares
    <2>. QED BY <2>2, <2>3 DEF Shares
  <1>. QED BY <1>1, <1>2 DEF Shares

\* A check sees nothing in flight, so what is in flight afterwards is what
\* the running processes that have passed one will insert.
LEMMA CheckShares ==
  ASSUME NEW N \in Nat, Shares(N), AtMostAlive(N), NEW w \in Procs, NEW t \in Types, EnqueueUniqueCheck(w, t)
  PROVE  Shares(N)'
  <1>1. InFlight(t) = {} /\ t \in Periodic /\ inserting' = inserting \cup {<<w, t>>}
    BY DEF EnqueueUniqueCheck
  <1>2. Running' = Running /\ w \in Running /\ \A u \in Periodic : InFlight(u)' = InFlight(u)
    BY DEF EnqueueUniqueCheck, rowVars, InFlight, Running, Alive
  <1>3. Inserters(t)' = Inserters(t) \cup {w} /\ \A u \in Types \ {t} : Inserters(u)' = Inserters(u)
    BY <1>1 DEF Inserters
  <1>4. \A u \in Types : Inserters(u)' \subseteq Running'
    BY <1>2, <1>3 DEF Shares
  <1>5. IsFiniteSet(Inserters(t)') /\ Cardinality(Inserters(t)') <= N
    <2>1. /\ IsFiniteSet(Inserters(t)') /\ Cardinality(Inserters(t)') <= Cardinality(Running)
      BY <1>2, <1>4, FS_Subset DEF AtMostAlive
    <2>2. Cardinality(Inserters(t)') \in Nat /\ Cardinality(Running) \in Nat
      BY <2>1, FS_CardinalityType DEF AtMostAlive
    <2>. QED BY <2>1, <2>2 DEF AtMostAlive
  <1>6. ASSUME NEW u \in Periodic
        PROVE  /\ IsFiniteSet(InFlight(u)') /\ IsFiniteSet(Inserters(u)')
               /\ Cardinality(InFlight(u)') + Cardinality(Inserters(u)') <= N
    <2>1. CASE u = t
      <3>1. IsFiniteSet(InFlight(t)') /\ Cardinality(InFlight(t)') = 0
        BY <1>1, <1>2, FS_EmptySet
      <3>2. Cardinality(Inserters(t)') \in Nat
        BY <1>5, FS_CardinalityType
      <3>. QED BY <1>5, <2>1, <3>1, <3>2
    <2>2. CASE u # t
      BY <1>2, <1>3, <2>2, JobTypesAssumption DEF Shares
    <2>. QED BY <2>1, <2>2
  <1>. QED BY <1>4, <1>6 DEF Shares

\* An insert uses the inserter's own share.
LEMMA InsertShares ==
  ASSUME TypeOK, NEW N \in Nat, Shares(N), NEW w \in Procs, NEW t \in Types, EnqueueUniqueInsert(w, t)
  PROVE  Shares(N)'
  <1>1. PICK j \in JobIds : TypeOf[j] = t /\ Insert(j)
    BY DEF EnqueueUniqueInsert
  <1>2. Running' = Running /\ <<w, t>> \in inserting /\ inserting' = inserting \ {<<w, t>>}
    BY DEF EnqueueUniqueInsert, Running, Alive
  <1>3. InFlight(t)' = InFlight(t) \cup {j} /\ \A u \in Periodic \ {t} : InFlight(u)' = InFlight(u)
    BY <1>1 DEF Insert, InFlight, TypeOK, Active
  <1>4. w \in Inserters(t) /\ Inserters(t)' = Inserters(t) \ {w} /\ \A u \in Types \ {t} : Inserters(u)' = Inserters(u)
    BY <1>2 DEF Inserters
  <1>5. \A u \in Types : Inserters(u)' \subseteq Running'
    BY <1>2, <1>4 DEF Shares
  <1>6. ASSUME NEW u \in Periodic
        PROVE  /\ IsFiniteSet(InFlight(u)') /\ IsFiniteSet(Inserters(u)')
               /\ Cardinality(InFlight(u)') + Cardinality(Inserters(u)') <= N
    <2>1. CASE u = t
      <3>1. /\ IsFiniteSet(InFlight(t)')
            /\ Cardinality(InFlight(t)') = Cardinality(InFlight(t)) \/ Cardinality(InFlight(t)') = Cardinality(InFlight(t)) + 1
        BY <1>3, <2>1, FS_AddElement DEF Shares
      <3>2. IsFiniteSet(Inserters(t)') /\ Cardinality(Inserters(t)') = Cardinality(Inserters(t)) - 1
        BY <1>4, <2>1, FS_RemoveElement DEF Shares
      <3>3. Cardinality(InFlight(t)) \in Nat /\ Cardinality(Inserters(t)) \in Nat
        BY <2>1, FS_CardinalityType DEF Shares
      <3>. QED BY <2>1, <3>1, <3>2, <3>3 DEF Shares
    <2>2. CASE u # t
      BY <1>3, <1>4, <2>2, JobTypesAssumption DEF Shares
    <2>. QED BY <2>1, <2>2
  <1>. QED BY <1>5, <1>6 DEF Shares

\* A poller brings no row in flight: a claim takes one that is pending.
LEMMA PollerStepShares ==
  ASSUME IInv, NEW N \in Nat, Shares(N), NEW p \in Pollers, PollerStep(p)
  PROVE  Shares(N)'
  <1>1. UNCHANGED <<inserting, proc>>
    BY DEF PollerStep, ClaimSelect, ClaimStep, ClaimCommit, ClaimCommitUnseen, ClaimRollback,
           HandlerStep, HandlerOk, HandlerError, HandlerCancelled, SettleStep, Complete,
           CompleteError, Fail, FailError, Release, ReleaseError, LoopExit
  <1>2. \A j \in JobIds : status'[j] \in Active => status[j] \in Active
    <2>1. CASE ClaimCommit(p) \/ ClaimCommitUnseen(p)
      <3>1. status[cur[p]] = "pending" /\ status' = [status EXCEPT ![cur[p]] = "running"]
        BY <2>1 DEF ClaimCommit, ClaimCommitUnseen, MarkRunning, IInv, HandMatchesRow, Busy
      <3>. QED BY <3>1 DEF IInv, TypeOK, Active
    <2>2. CASE Complete(p) \/ Fail(p) \/ Release(p)
      <3>1. pc[p] \in Holding
        BY <2>2 DEF Complete, Fail, Release, Holding
      <3>2. status[cur[p]] = "running"
        BY <3>1, AttemptLeft
      <3>3. \A j \in JobIds \ {cur[p]} : status'[j] = status[j]
        BY <2>2 DEF Complete, Fail, Release, Unlock, IInv, TypeOK
      <3>. QED BY <3>2, <3>3 DEF Active
    <2>3. CASE status' = status
      BY <2>3
    <2>. QED
      BY <2>1, <2>2, <2>3 DEF PollerStep, ClaimSelect, ClaimStep, ClaimRollback, HandlerStep,
            HandlerOk, HandlerError, HandlerCancelled, SettleStep, CompleteError, FailError,
            ReleaseError, LoopExit, rowVars
  <1>. QED BY <1>1, <1>2, FewerInFlight DEF Alive

\* Every step of a queue with at most N workers alive keeps the shares.
LEMMA NextShares ==
  ASSUME IInv, NEW N \in Nat, Shares(N), AtMostAlive(N), [Next]_vars
  PROVE  Shares(N)'
  <1>1. ASSUME NEW j \in JobIds, RowStep(j) PROVE Shares(N)'
    BY <1>1, FewerInFlight DEF RowStep, Enqueue, Elapse, Insert, IInv, TypeOK, Alive
  <1>2. ASSUME NEW v \in Procs, NEW t \in Types, TickStep(v, t) PROVE Shares(N)'
    <2>1. CASE EnqueueUniqueError(v, t)
      BY <2>1, FewerInFlight DEF EnqueueUniqueError, rowVars, Alive
    <2>. QED BY <1>2, <2>1, CheckShares, InsertShares DEF TickStep, IInv
  <1>3. ASSUME NEW p \in Pollers, PollerStep(p) PROVE Shares(N)'
    BY <1>3, PollerStepShares
  <1>4. ASSUME NEW v \in Procs, ProcStep(v) PROVE Shares(N)'
    <2>1. inserting' \subseteq inserting /\ status' = status
      BY <1>4 DEF ProcStep, Start, Shutdown, Exit, Crash, rowVars
    <2>2. \A w \in Procs : Alive(w) => Alive(w)' \/ \A t \in Types : <<w, t>> \notin inserting'
      <3>1. CASE Start(v) \/ Shutdown(v)
        BY <3>1 DEF Start, Shutdown, Alive, IInv, TypeOK
      <3>2. CASE Exit(v) \/ Crash(v)
        <4>1. \A t \in Types : <<v, t>> \notin inserting'
          BY <3>2 DEF Exit, Crash
        <4>2. \A w \in Procs \ {v} : proc'[w] = proc[w]
          BY <3>2 DEF Exit, Crash, IInv, TypeOK
        <4>. QED BY <4>1, <4>2 DEF Alive
      <3>. QED BY <1>4, <3>1, <3>2 DEF ProcStep
    <2>. QED BY <2>1, <2>2, FewerInFlight
  <1>5. CASE UNCHANGED vars
    BY <1>5, FewerInFlight DEF vars, Alive
  <1>. QED BY <1>1, <1>2, <1>3, <1>4, <1>5 DEF Next

LEMMA InitShares ==
  ASSUME Init, NEW N \in Nat
  PROVE  Shares(N)
  <1>1. \A t \in Types : InFlight(t) = {} /\ Inserters(t) = {}
    BY DEF Init, InFlight, Inserters, Active
  <1>. QED BY <1>1, FS_EmptySet, JobTypesAssumption DEF Shares

\* With at most N workers alive at once, however many are started over time, no
\* periodic type has more than N instances in flight, however many goroutines,
\* rows, retries and faults there are.  One worker at a time gives the single
\* instance that scheduler.go:22 promises.
THEOREM InstancesPerWorker ==
  ASSUME NEW N \in Nat
  PROVE  Spec /\ []AtMostAlive(N) => [](\A t \in Periodic : Cardinality(InFlight(t)) <= N)
  <1>1. Init => Shares(N)
    BY InitShares
  <1>2. IInv /\ Shares(N) /\ AtMostAlive(N) /\ [Next]_vars => Shares(N)'
    BY NextShares
  <1>3. Shares(N) => \A t \in Periodic : Cardinality(InFlight(t)) <= N
    BY FS_CardinalityType DEF Shares
  <1>. QED BY <1>1, <1>2, <1>3, Invariance, PTL DEF Spec

\* Finitely many processes never have more instances in flight than they are.
THEOREM InstancesAreBounded ==
  ASSUME IsFiniteSet(Procs)
  PROVE  Spec => []InstancesBounded
  <1>. DEFINE N == Cardinality(Procs)
  <1>1. N \in Nat
    BY FS_CardinalityType
  <1>2. AtMostAlive(N)
    BY FS_Subset DEF AtMostAlive, Running
  <1>3. Init => Shares(N)
    BY <1>1, InitShares
  <1>4. IInv /\ Shares(N) /\ [Next]_vars => Shares(N)'
    BY <1>1, <1>2, NextShares
  <1>5. Shares(N) => InstancesBounded
    <2>. SUFFICES ASSUME Shares(N), NEW t \in Periodic PROVE Cardinality(InFlight(t)) <= N
      BY DEF InstancesBounded
    <2>1. Cardinality(InFlight(t)) \in Nat /\ Cardinality(Inserters(t)) \in Nat
      BY FS_CardinalityType DEF Shares
    <2>. QED BY <1>1, <2>1 DEF Shares
  <1>. QED BY <1>3, <1>4, <1>5, Invariance, PTL DEF Spec
=============================================================================
