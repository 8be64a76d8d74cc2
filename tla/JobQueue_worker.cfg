\* Two processes, each with its scheduler and a poller, one of which may stop
\* or crash, and a call may fail; every job is of the one periodic type.
CONSTANTS
    w1 = w1  w2 = w2  s1 = s1  s2 = s2  j1 = j1  j2 = j2  j3 = j3
    Procs = {w1, w2}
    Slots = {s1}
    JobIds = {j1, j2, j3}
    Types = {"sweep"}
    TypeOf <- SweepsOnly
    Periodic = {"sweep"}
    Registered = {"sweep"}
    MaxAttempts = 2
    MaxStops = 1
    MaxFaults = 1
    NoProc = NoProc
    NoJob = NoJob
SPECIFICATION FairSpec
INVARIANT InstancesBounded
PROPERTY EveryJobSettles
PROPERTY ShutdownCompletes
CHECK_DEADLOCK FALSE
