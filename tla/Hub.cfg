\* Two connections of one user that join and leave a room; every Send channel holds
\* one frame, which the two copies of a message overflow.
CONSTANTS
    c1 = c1
    c2 = c2
    u1 = u1
    u2 = u2
    Clients = {c1, c2}
    Users = {u1}
    Tasks = {t1}
    UserOf <- OneUser
    Frames = {"join_room", "leave_room"}
    BroadcastCap = 1
    SendCap = 1
    MaxMessages = 1
    None = None
SPECIFICATION Spec
SYMMETRY ConnectionSymmetry
CHECK_DEADLOCK FALSE
INVARIANTS
    RecipientsNotified
    PanicHasCause
    MembershipAgrees
    GoneIsForgotten
