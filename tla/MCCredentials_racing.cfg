SPECIFICATION Spec
CONSTANTS
    Session = {s1}
    Token = {k1}
    Req = {r1, r2}
    MaxFailures = 2
    MayFail = TRUE
    None = None
SYMMETRY Symmetry
INVARIANTS
    TypeOK
    SessionsAreRevoked
    OneActionPerProof
    AttemptsAreBounded
