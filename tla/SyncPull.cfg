\* A new task has a lower version than one that was edited.
CONSTANTS
    alice = alice
    bob = bob
    Users = {alice, bob}
    Devices = {d1}
    UserOf <- OfAlice
    Tasks = {t1, t2}
    Requests = {q1}
    MaxChanges = 0
    MaxSends = 2
    MaxVersion = 2
    None = None
SPECIFICATION Spec
SYMMETRY Symmetry
CHECK_DEADLOCK FALSE
INVARIANTS
    NewTasksIncluded
