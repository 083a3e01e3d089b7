SPECIFICATION Spec
CONSTANTS
    User = {u1, u2}
    Address = {a, b}
    Google = {g}
    RowId = {w1, w2}
    Token = {k1}
    Req = {r1, r2}
    None = None
SYMMETRY Symmetry
INVARIANTS
    TypeOK
    AddressVouched
PROPERTIES
    LiveClaimsStand
