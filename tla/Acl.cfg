\* Checks, a list, grants, shares, revocations and sync against the cache, two requests at a time.
CONSTANTS
    Users = {owner, bob}
    Owner = owner
    Members = {bob}
    Team = Team
    Public = Public
    Grantees = {bob, Team}
    Roles <- OnlyOwner
    Kinds = {"access", "list", "grant", "share", "revoke", "sync"}
    Requests = {r1, r2}
    CacheTTL = 1
    MaxLife = 1
    Lives = {1}
SPECIFICATION Spec
SYMMETRY Symmetry
INVARIANTS
    CacheIsCurrent
    DecisionsJustified
