\* Two processes of two pollers race for three jobs; one of them may stop or
\* crash, and one call may fail.
CONSTANTS
    w1 = w1  w2 = w2  s1 = s1  s2 = s2  j1 = j1  j2 = j2  j3 = j3
    Procs = {w1, w2}
    Slots = {s1, s2}
    JobIds = {j1, j2, j3}
    Types = {"work"}
    TypeOf <- OneJobType
    Periodic = {}
    Registered = {"work"}
    MaxAttempts = 2
    MaxStops = 1
    MaxFaults = 1
    NoProc = NoProc
    NoJob = NoJob
SPECIFICATION Spec
SYMMETRY Alike
INVARIANT ExclusiveExecution
INVARIANT FailedMeansExhausted
PROPERTY ImplementsLifecycle
CHECK_DEADLOCK FALSE
