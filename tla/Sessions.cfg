\* Two requests at a time; two pairs of tokens, which live one tick.
CONSTANTS
    Grants = {g1, g2}
    Roles = {admin, member}
    Passwords = {p1, p2}
    Requests = {r1, r2}
    AccessTTL = 1
    None = None
SPECIFICATION Spec
SYMMETRY Symmetry
INVARIANTS
    LogoutEndsPair
    LoggedOutIsRefused
    ClaimsHeldLately
    SecretsNeverReturn
