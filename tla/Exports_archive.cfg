\* One export of three photos in two pages, one failure.
CONSTANTS
    Exports = {x1}
    Requests = {r1}
    NPhotos = 3
    PageSize = 2
    MaxAttempts = 2
    MaxFaults = 1
    NoExport = NoExport
    NoArchive = NoArchive
SPECIFICATION FairSpec
INVARIANT ExpiredIsGone
INVARIANT ArchiveComplete
PROPERTY ReadyOnlyExpires
PROPERTY ProcessingEnds
CHECK_DEADLOCK FALSE
