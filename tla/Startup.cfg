\* Two instances with the migrations and one without; three files.
CONSTANTS
    Instances = {i1, i2, i3}
    Migrating = {i1, i2}
    Files = 3
    MaxStarts = 2
    MaxFaults = 2
    MaxRenames = 1
SPECIFICATION FairSpec
CHECK_DEADLOCK FALSE
INVARIANTS
    AppliedOnceInOrder
    ServesMigrated
    ExitsOvertaken
    AdminSeededOnce
PROPERTIES
    ClimbsSchema
    StartEnds
