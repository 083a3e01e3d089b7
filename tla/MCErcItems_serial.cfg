SPECIFICATION Spec
CONSTANTS
    Owner = va
    Vratmitra = {vm}
    Pool = {p}
    ItemId = {i1, i2}
    Req = {r1}
    Interleaved = FALSE
    None = None
SYMMETRY Symmetry
INVARIANTS
    OneSelectionPerPool
    RevokedIsUnread
PROPERTIES
    ImplementsItemLifecycle
    MentorApproves
    MentorsAreTold
