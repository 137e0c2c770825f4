SPECIFICATION Spec
CONSTANTS
    Jobs <- MCJobs
    Single = Single
    Absent = Absent
    Torn = Torn
    Grain = 2
    MaxTime = 6
    MaxProcs = 2
    MaxHands = 1
INVARIANTS TypeOK Durable BoundedLoss
PROPERTIES RotationOK
CHECK_DEADLOCK FALSE
