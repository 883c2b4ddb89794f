\* A user without a grant on the task sends a list of changes.
CONSTANTS
    Users = {owner, bob}
    Owner = owner
    Members = {}
    Team = Team
    Public = Public
    Grantees = {bob}
    Roles <- OnlyOwner
    Kinds = {"access", "grant", "sync"}
    Requests = {r1}
    CacheTTL = 1
    MaxLife = 0
    Lives = {1}
SPECIFICATION Spec
INVARIANTS
    PermissionValidated
