\* Two events, every call, two requests at a time, a plan of one live event kept a day.
CONSTANTS
    Events = {e1, e2}
    Requests = {r1, r2}
    Calls = {"create", "transition", "extend", "update", "delete"}
    Jobs = {"expire"}
    MaxEvents = 1
    Retention = 1
    Grace = 1
    WarnWithin = 0
    MaxDays = 1
    MaxTime = 1
    MaxUploads = 0
    MaxFaults = 0
    Never = Never
    NoEvent = NoEvent
SPECIFICATION Spec
SYMMETRY Alike
INVARIANT LiveOvershootBounded
INVARIANT WithinRetention
CHECK_DEADLOCK FALSE
