\* An owner and a collaborator: grants, shares, revocations, updates and deletes, two requests at a time.
CONSTANTS
    Users = {owner, bob}
    Owner = owner
    Members = {}
    Team = Team
    Public = Public
    Grantees = {bob}
    Roles <- OnlyOwner
    Kinds = {"access", "grant", "share", "revoke", "sync"}
    Requests = {r1, r2}
    CacheTTL = 1
    MaxLife = 0
    Lives = {1}
SPECIFICATION FlowSpec
SYMMETRY Symmetry
INVARIANTS
    
    DeletionToldOnce
PROPERTIES
    EnforcesRights
