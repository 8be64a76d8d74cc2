\* A simple and a multipart upload, two requests at a time, one failure.
CONSTANTS
    e1 = e1  e2 = e2  p1 = p1  p2 = p2  r1 = r1  r2 = r2
    Photos = {p1, p2}
    Events = {e1, e2}
    Requests = {r1, r2}
    EventOf <- TwoEvents
    FileSize <- Sizes
    Multipart = {p2}
    Corrupt = {}
    MaxAttempts = 2
    MaxFaults = 1
    Sweeps = TRUE
    NoPhoto = NoPhoto
SPECIFICATION Spec
SYMMETRY Alike
INVARIANT CountersNotAbove
INVARIANT StoredHasOriginal
INVARIANT SingleEnqueue
INVARIANT ReadyPhotoCleanedUp
PROPERTY StatusMovesOn
CHECK_DEADLOCK FALSE
