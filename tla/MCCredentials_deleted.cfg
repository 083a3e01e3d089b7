SPECIFICATION Spec
CONSTANTS
    Session = {s1}
    Token = {k1}
    Req = {r1}
    MaxFailures = 2
    MayFail = FALSE
    None = None
PROPERTIES
    DeletedHoldsNoPassword
