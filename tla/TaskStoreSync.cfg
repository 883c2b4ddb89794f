\* Two requests, each a list of up to two changes, over two tasks.  No symmetry:
\* the run checks liveness too.
CONSTANTS
    Users = {u1}
    Tasks = {t1, t2}
    Requests = {r1, r2}
    Fields = {title}
    MaxChanges = 2
    None = None
SPECIFICATION FairSpec
CHECK_DEADLOCK FALSE
INVARIANTS
    HoldersNeverWait
    SeqFollowsVersion
    AckedIsDurable
    DeleteAckedOnce
PROPERTIES
    EveryRequestEnds
