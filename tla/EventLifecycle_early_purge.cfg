\* A reactivation beside the purge job.
CONSTANTS
    Events = {e1}
    Requests = {r1}
    Calls = {"create", "extend"}
    Jobs = {"expire", "purge"}
    MaxEvents = 0
    Retention = 0
    Grace = 1
    WarnWithin = 1
    MaxDays = 1
    MaxTime = 2
    MaxUploads = 1
    MaxFaults = 0
    Never = Never
    NoEvent = NoEvent
SPECIFICATION Spec
PROPERTY PurgeOnlyPastGrace
CHECK_DEADLOCK FALSE
