\* Two accounts, two emails, two images; three requests at a time.
CONSTANTS
    Ids = {u1, u2}
    Emails = {e1, e2}
    Images = {m1, m2}
    Requests = {r1, r2, r3}
    None = None
SPECIFICATION Spec
SYMMETRY Symmetry
INVARIANTS
    AnswersOwnRow
    UrlHasFile
    AvatarStays
