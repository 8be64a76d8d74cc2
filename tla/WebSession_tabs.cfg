\* Two tabs, two requests at a time, one mishap.
SPECIFICATION Spec
CONSTANTS
    Tabs = {t1, t2}
    Locks = TRUE
    MaxTokens = 3
    MaxRequests = 2
    MaxFaults = 1
    MaxExpiries = 1
SYMMETRY Alike
INVARIANTS OneValidToken TabsNeverRace EndedStaysEnded
CHECK_DEADLOCK FALSE
