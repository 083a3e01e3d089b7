SPECIFICATION Spec
CHECK_DEADLOCK FALSE
CONSTANTS
    User = {va, vm}
    Address = {a, b, c}
    Journey = {j}
    OwnerOf <- OwnedByVa
    Kind = {"global", "journey", "platform"}
    InvId = {i1}
    LinkId = {l1, l2}
    Req = {r1, r2}
    MaxReminders = 2
    Interleaved = TRUE
    MayFail = TRUE
    None = None
    va = va
SYMMETRY Symmetry
INVARIANTS
    TypeOK
    LinksAreConsented
    RoleEarned
PROPERTIES
    AcceptedMeansRelated
    SignupReaches
    DeletionWithdraws
