\* An event that clients create and delete only, beside both jobs and a failure.
CONSTANTS
    Events = {e1}
    Requests = {r1}
    Calls = {"create", "delete"}
    Jobs = {"expire", "purge"}
    MaxEvents = 0
    Retention = 0
    Grace = 1
    WarnWithin = 1
    MaxDays = 1
    MaxTime = 2
    MaxUploads = 2
    MaxFaults = 1
    Never = Never
    NoEvent = NoEvent
SPECIFICATION FairSpec
INVARIANT PurgeRemovesObjects
INVARIANT StorageBalanced
PROPERTY PurgeOnlyPastGrace
PROPERTY DeletedIsPurged
CHECK_DEADLOCK FALSE
