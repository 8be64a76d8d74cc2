\* A small file and one of two parts, one process at a time beside those of a
\* queue that was left, one mishap, one departure or reload.
CONSTANTS
    MaxFiles = 2
    Size <- SmallThenLarge
    MaxFileSize = 4
    MultipartFloor = 2
    PartSize = 1
    Concurrency = 1
    MaxAttempts = 2
    MaxSlots = 2
    MaxPhotos = 3
    MaxTroubles = 1
    MaxLeaves = 1
SPECIFICATION FairUploadsSpec
INVARIANT NoUploadForgotten
CHECK_DEADLOCK FALSE
PROPERTY UploadEnds
