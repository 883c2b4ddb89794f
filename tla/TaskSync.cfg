\* A device and two tasks that others edit too.
CONSTANTS
    alice = alice
    bob = bob
    Users = {alice, bob}
    Devices = {d1}
    UserOf <- OfAlice
    Tasks = {t1, t2}
    Requests = {q1, q2}
    MaxChanges = 2
    MaxSends = 2
    MaxVersion = 2
    None = None
SPECIFICATION Spec
SYMMETRY Symmetry
CHECK_DEADLOCK FALSE
INVARIANTS
    MissedOnlyBelow
    RetriesAccounted
    FullCountIsTrue
PROPERTIES
    CopiesAdvance
