\* Three requests of one change each race on one task.
CONSTANTS
    Users = {u1, u2}
    Tasks = {t1}
    Requests = {r1, r2, r3}
    Fields = {title, status}
    MaxChanges = 1
    None = None
SPECIFICATION Spec
SYMMETRY Symmetry
CHECK_DEADLOCK FALSE
INVARIANTS
    EventLogComplete
    ClockCountsEdits
    RowReplaysLog
PROPERTIES
    Atomicity
