\* Two requests at a time with one key, a small and a large body, a plan of
\* one photo and two bytes, one failure.
CONSTANTS
    small = small
    large = large
    Photos = {p1, p2, p3}
    Requests = {r1, r2}
    Keys = {k1}
    Bodies = {small, large}
    Size <- Sizes
    Large = {large}
    MaxPhotos = 1
    MaxBytes = 2
    MaxFaults = 1
    NoKey = NoKey
    NoPhoto = NoPhoto
    NoBody = NoBody
    NoRecord = NoRecord
    Completion = Completion
SPECIFICATION Spec
SYMMETRY Alike
INVARIANT OvershootBounded
INVARIANT AnsweredPhotoFits
INVARIANT DuplicatesBounded
CHECK_DEADLOCK FALSE
